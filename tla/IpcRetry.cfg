CONSTANTS
  N = 2
  MaxMem = 1
  Pages = {1, 2}
  Meta = 0
  Rsdnt = FALSE
SPECIFICATION FairSpec
PROPERTY RetryEnds
CHECK_DEADLOCK FALSE
