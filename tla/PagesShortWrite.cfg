SPECIFICATION Spec
CONSTANTS
  MaxPages = 3
  Vals = {0, 1}
  Undef = Undef
  MaxMem = 3
  MaxXfer = 1
  MaxRanges = 2
  Configs <- LazyConfigs
PROPERTY WrittenBack
CHECK_DEADLOCK FALSE
