SPECIFICATION Spec
CONSTANTS
  MaxPages = 2
  Vals = {0, 1}
  Undef = Undef
  MaxMem = 4
  MaxXfer = 2
  MaxRanges = 2
  Configs <- CallsConfigs
CHECK_DEADLOCK FALSE
INVARIANTS
  Protected
PROPERTIES
  Implements
