SPECIFICATION Spec
CONSTANTS
  Blocks = {b1, b2, b3}
  FIXED_MAX_SIZE = 152
  UNDES_BIN_NUM = 1
  Sizes = {32, 40}
  MaxLive = 3
  SysFails = FALSE
  Footers = TRUE
SYMMETRY Symmetry
CHECK_DEADLOCK FALSE
INVARIANT ActiveFooter
