SPECIFICATION Spec
CONSTANTS
  MaxPages = 3
  Vals = {0, 1}
  Undef = Undef
  MaxMem = 3
  MaxXfer = 3
  MaxRanges = 2
  Configs <- CoreConfigs
CHECK_DEADLOCK FALSE
INVARIANTS
  Mcheck
  NoAssert
  Protected
PROPERTIES
  Implements
