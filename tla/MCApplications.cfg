SPECIFICATION FairSpec
CONSTANTS
  Kinds = {"simple", "search", "chat"}
  Workers = 2
  MaxRuns = 3
  MaxStores = 2
  MaxChanges = 1
  MaxFailovers = 1
  ClientIds = {1}
  SummaryCnts = {0, 1, 3}
  ContextCnt = 3
  K = 2
  InitMayFail = TRUE
INVARIANTS
  TypeOK
  SummarizedOnce
  RunsNotMixed
  SummariesReplicated
  QuotedNotGone
PROPERTY
  RunAnswered
