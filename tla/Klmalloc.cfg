SPECIFICATION Spec
CONSTANTS
  Blocks = {b1, b2, b3}
  FIXED_MAX_SIZE = 152
  UNDES_BIN_NUM = 1
  Sizes = {0, 31, 32, 136, 144, 160, 176}
  MaxLive = 3
  SysFails = FALSE
  Footers = FALSE
SYMMETRY Symmetry
CHECK_DEADLOCK FALSE
INVARIANTS
  BlocksSound
  Returned
PROPERTIES
  ImplementsHeap
