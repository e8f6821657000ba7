SPECIFICATION FairSpec
CONSTANTS
  w1 = w1
  w2 = w2
  NoId = NoId
  Workers = {w1, w2}
  QueueSize = 1
  MaxCalls = 2
  MaxBarred = 1
  ExplicitIds = {2}
  MaxElements = 2
  InitMayFail = TRUE
  PointMayFail = TRUE
PROPERTY
  AnsweredUnlessNoIndex
