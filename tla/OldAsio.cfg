SPECIFICATION MCSpec
CONSTANTS
  NT = 3  SZ = 2  NW = 5
  FailAt = {0, 1, 2, 3, 4, 5, 6, 7, 8}
  MaxTimeouts = 1
  QUEUESIZE = 3  LOOP = 4
  Readers = {1, 2, 3}  Writers = {0}
  MAXCOUNT = 3
CHECK_DEADLOCK FALSE
INVARIANTS
  PoolSafe
  InOrder
  Exclusion
PROPERTIES
  ImplementsFifo
  EachFinishes
