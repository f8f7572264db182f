CONSTANTS
  h1 = h1
  h2 = h2
  x1 = x1
  x2 = x2
  x3 = x3
  Callers = {h1, h2}
  Buffer = {x1, x2}
  MaxPtrs = 2
  MaxInternal = 2
  Usage = {"early"}
SPECIFICATION HookSpec
INVARIANT InternalOnlyFirst
CHECK_DEADLOCK FALSE
