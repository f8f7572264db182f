CONSTANTS
  j1 = j1
  j2 = j2
  j3 = j3
  Jobs = {j1, j2, j3}
  MaxObjects = 1
  Together = TRUE
SPECIFICATION StartSpec
CHECK_DEADLOCK FALSE
INVARIANT StartsSafely
