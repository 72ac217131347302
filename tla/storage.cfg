SPECIFICATION Spec
CONSTANTS
  Params <- MCParams
  Options <- MCOptions
  MaxOptions = 2
  PipelineContents <- MCPipelineContents
  ModuleContents <- MCModuleContents
  Numbers = {1}
  MaxCommands = 2
  MaxStarts = 3
INVARIANTS
  TypeOK
  ServedWhenReady
  StoredAsWritten
  ConfigurationSurvives
  NothingMistaken
CHECK_DEADLOCK FALSE
