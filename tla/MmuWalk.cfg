CONSTANTS
  t1 = t1
  t2 = t2
  a1 = a1
  a2 = a2
  a3 = a3
  h1 = h1
  h2 = h2
  x1 = x1
  x2 = x2
  Workers = {t1, t2}
  Ates = {a1, a2, a3}
  Calls = {"read fault", "mevictall", "malloc"}
  Callers = {h1, h2}
  Buffer = {x1, x2}
  MaxPtrs = 2
  MaxInternal = 2
  Usage = {}
SYMMETRY Symmetry
SPECIFICATION MCSpec
INVARIANT NoLockCircle
CHECK_DEADLOCK FALSE
