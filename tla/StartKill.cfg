CONSTANTS
  j1 = j1
  j2 = j2
  j3 = j3
  Jobs = {j1, j2, j3}
  MaxObjects = 2
  Together = TRUE
SPECIFICATION KillSpec
CHECK_DEADLOCK FALSE
INVARIANT AllOrNone
