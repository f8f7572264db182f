CONSTANTS
  N = 2
  MaxMem = 1
  Pages = {1}
  Meta = 0
  Rsdnt = FALSE
SPECIFICATION FairSpec
CHECK_DEADLOCK FALSE
PROPERTIES
  Woken
  EvictionEnds
