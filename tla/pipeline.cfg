SPECIFICATION FairSpec
CONSTANTS
  PipelineIds = {0, 1, 2, 3}
  NumModules <- MCNumModules
  RequestedIds = {0, 1, 2, 3, 7}
  ReportCodes = {8, 300}
  ModuleTimeout = 1
  Behaviours <- MCBehaviours
  Faults <- MCFaults
  FdLimit = 10
  MaxReports = 2
INVARIANTS
  TypeOK
  ResultChain
  ResultMeansSuccess
  FailureNamesStage
  DescriptorsReturned
  RebuildAfterFailure
  BlameTheFailingModule
PROPERTIES
  ExecutionCompletes
  ImplementsService
CHECK_DEADLOCK FALSE
