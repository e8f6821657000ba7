SPECIFICATION Spec
CONSTANTS
  DefaultMaxElements = 1
  Raw = {"raw"}
  Malformed = {"bad"}
  Keys = {"m", "s"}
  StoreKeys = {"s"}
  OtherKeys = {"m"}
  MaxForks = 1
  MaxCommands = 3
  Ids = {1}
  Data = {"d"}
  Tasks = {"t"}
  Objects = {1, 2, 3}
  ModelConfs <- MCModelConfs
  StoreConfs <- MCStoreConfs
  AppConfs <- MCAppConfs
  LlmTexts <- MCLlmTexts
  Prompts = {"raw", "bad"}
  Dims = {2}
INVARIANT
  EmittedCommandsAreKnown
