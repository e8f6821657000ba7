SPECIFICATION Spec
CONSTANTS
  t1 = t1
  t2 = t2
  d1 = d1
  d2 = d2
  e = e
  v = v
  w = w
  x = x
  Threads = {t1, t2}
  Data = {d1}
  Vectors = {v}
  Size <- MCSize
  Ks = {1}
  MaxId = 1
  MaxElements = 1
  InitMayFail = TRUE
  PointMayFail = FALSE
  NoThread = NoThread
  NoData = NoData
  NoVector = NoVector
INVARIANT
  IndexAsserted
