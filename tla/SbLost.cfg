SPECIFICATION Spec
CONSTANTS
  Threads = {t1, t2}
  Slots = {s1}
  N = 1  M = 1
  SharePages = TRUE
  EarlyCalls = FALSE
  MaxFail = 2
  MaxDrift = 0
CHECK_DEADLOCK FALSE
INVARIANT Preserved
