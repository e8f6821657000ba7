SPECIFICATION FairSpec
CONSTANTS
  Kinds = {"chat"}
  Workers = 2
  MaxRuns = 2
  MaxStores = 1
  MaxChanges = 0
  MaxFailovers = 1
  ClientIds = {}
  SummaryCnts = {1}
  ContextCnt = 3
  K = 1
  InitMayFail = FALSE
INVARIANT SummariesKept
