SPECIFICATION Spec
CONSTANTS
  MaxPages = 3
  Vals = {0, 1}
  Undef = Undef
  MaxMem = 3
  MaxXfer = 3
  MaxRanges = 2
  Configs <- ShrinkConfigs
INVARIANT Mcheck
CHECK_DEADLOCK FALSE
