CONSTANTS
  N = 3
  MaxPages = 2
  SizeMax = 3
  MaxTokens = 3
  PageSize = 4
  NumPages = 3
  SizeT = 32
  MinLen = 1
  MaxChunk = 262112
SPECIFICATION MCSpec
CHECK_DEADLOCK FALSE
INVARIANTS
  ChoiceCorrect
  LeastDirty
  OptMeaning
  TouchExact
  ClearInside
  BinsFit
