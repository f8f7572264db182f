SPECIFICATION Spec
CONSTANTS
  MaxPages = 2
  Vals = {0, 1}
  Undef = Undef
  MaxMem = 2
  MaxXfer = 2
  MaxRanges = 2
  Configs <- AggchConfigs
INVARIANT NothingCharged
CHECK_DEADLOCK FALSE
