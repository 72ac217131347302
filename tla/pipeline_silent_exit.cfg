SPECIFICATION FairSpec
CONSTANTS
  PipelineIds = {0, 1, 2}
  NumModules <- MCNumModules
  RequestedIds = {0, 1, 2, 7}
  ReportCodes = {8, 300}
  ModuleTimeout = 1
  Behaviours <- MCSilentExits
  Faults <- MCNoFaults
  FdLimit = 10
  MaxReports = 2
PROPERTY
  SilentExitReported
CHECK_DEADLOCK FALSE
