SPECIFICATION Spec
CONSTANTS
  w1 = w1
  w2 = w2
  NoId = NoId
  Workers = {w1, w2}
  QueueSize = 1
  MaxCalls = 3
  MaxBarred = 1
  ExplicitIds = {2}
  MaxElements = 2
  InitMayFail = TRUE
  PointMayFail = TRUE
INVARIANTS
  TypeOK
  AnswerTells
  ReplicatedIffAcknowledged
  ReplicaCounterBehind
  UncontendedReplicated
  NamedSyncReplicated
  OnePlace
  GetTornOnlyByAsync
  RemovedNotFound
SYMMETRY Symmetry
