SPECIFICATION Spec
CONSTANTS
  Entries = 2
  BYTE = 2
  MaxWrites = 4
INVARIANTS
  TypeOK
  AnswerOfOneObservation
  TransferOfOneObservation
PROPERTIES
  CrashOnlyWhenOvertaken
  EveryRequestEnds
