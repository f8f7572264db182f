CONSTANTS
  N = 2
  MaxMem = 2
  Pages = {1, 2}
  Meta = 0
  Rsdnt = FALSE
SPECIFICATION Spec
INVARIANT McheckConsistent
CHECK_DEADLOCK FALSE
