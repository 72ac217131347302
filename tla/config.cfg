SPECIFICATION Spec
CONSTANTS
  NumPipelines = 1
  NumLists = 2
  ArraySize = 2
  Names = {"a", "b"}
  Definitions <- MCDefinitions
  Configs <- MCConfigs
  Undecodable = "undecodable"
  Garbled = "garbled"
  Empty = "empty"
  NULL = "null"
  Junk = "junk"
  Faults = {"malloc"}
  MaxCommands = 2
  MaxRestarts = 1
INVARIANTS
  TypeOK
  ModulesWereConfigured
  BatchFollowsStorage
  MissingModuleFailsOnce
