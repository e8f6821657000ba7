SPECIFICATION FairSpec
CONSTANTS
  w1 = w1
  w2 = w2
  w3 = w3
  Workers = {w1, w2, w3}
  QueueSize = 3
  MaxTasks = 5
INVARIANTS
  TypeOK
  ExactlyOnce
  NoTaskOverslept
  DrainedAtExit
PROPERTIES
  ImplementsTaskQueue
  EveryTaskRuns
  StopEnds
