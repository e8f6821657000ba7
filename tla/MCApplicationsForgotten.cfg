SPECIFICATION FairSpec
CONSTANTS
  Kinds = {"search"}
  Workers = 2
  MaxRuns = 2
  MaxStores = 1
  MaxChanges = 0
  MaxFailovers = 0
  ClientIds = {1}
  SummaryCnts = {0}
  ContextCnt = 3
  K = 1
  InitMayFail = FALSE
PROPERTY EveryRunAnswered
