SPECIFICATION Spec
CONSTANTS
  t1 = t1
  t2 = t2
  d1 = d1
  d2 = d2
  e = e
  v = v
  w = w
  x = x
  Threads = {t1, t2}
  Data = {d1, d2}
  Vectors = {e, v, x}
  Size <- MCSize
  Ks = {1}
  MaxId = 2
  MaxElements = 2
  InitMayFail = TRUE
  PointMayFail = TRUE
  NoThread = NoThread
  NoData = NoData
  NoVector = NoVector
INVARIANTS
  TypeOK
  IndexAgrees
  UniformDimension
  SlotAccounting
  MutualExclusion
PROPERTY
  Linearizable
SYMMETRY Symmetry
