SPECIFICATION Spec
CONSTANTS
  t1 = t1
  t2 = t2
  Router = Router
  Threads = {t1, t2}
  Commands = {1, 2, 4}
  Faults = {}
  BUFFER_SIZE = 30
  MaxCommands = 3
  MaxBatches = 1
INVARIANTS
  LoggerOfOwnRun
CHECK_DEADLOCK FALSE
