SPECIFICATION Spec
CONSTANTS
  DefaultMaxElements = 1
  Raw = {"raw"}
  Malformed = {"bad"}
  Keys = {"m", "s"}
  StoreKeys = {"s"}
  OtherKeys = {"m"}
  MaxForks = 1
  MaxCommands = 5
  Ids = {1, 2}
  Data = {"d"}
  Tasks = {"t"}
  Objects = {1, 2, 3, 4}
  ModelConfs <- MCModelConfs
  StoreConfs <- MCStoreConfs
  AppConfs <- MCAppConfs
  LlmTexts <- MCLlmTexts
  Prompts = {"raw", "bad"}
  Dims = {2}
INVARIANTS
  TypeOK
  PoolIsKeyspace
  NoUseAfterFree
  SnapshotRestores
CHECK_DEADLOCK FALSE
