SPECIFICATION FairSpec
CONSTANTS
  t1 = t1
  t2 = t2
  Router = Router
  Threads = {t1, t2}
  Commands = {0, 2, 5}
  Faults = {"logger", "spawn"}
  BUFFER_SIZE = 8
  MaxCommands = 2
  MaxBatches = 1
INVARIANTS
  TypeOK
  OneRunAtATime
  IdleReadsZero

  
CHECK_DEADLOCK FALSE
