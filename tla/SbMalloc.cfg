SPECIFICATION Spec
CONSTANTS
  Threads = {t1, t2}
  Slots = {s1, s2}
  N = 2  M = 3
  SharePages = FALSE
  EarlyCalls = FALSE
  MaxFail = 5
  MaxDrift = 0
SYMMETRY Symmetry
CHECK_DEADLOCK FALSE
INVARIANTS
  Preserved
  FaultsHandled
  Counted
  NoCircle
