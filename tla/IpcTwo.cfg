CONSTANTS
  N = 2
  MaxMem = 3
  Pages = {1, 2}
  Meta = 1
  Rsdnt = FALSE
SPECIFICATION Spec
CHECK_DEADLOCK FALSE
INVARIANTS
  Conservation
  Handshake
  CopiesCurrent
  StillEligible
  NoLeak
