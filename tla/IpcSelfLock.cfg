CONSTANTS
  N = 2
  MaxMem = 1
  Pages = {1}
  Meta = 0
  Rsdnt = FALSE
SPECIFICATION Spec
INVARIANT HandlerNotSelfLocked
CHECK_DEADLOCK FALSE
