SPECIFICATION FairSpec
CONSTANTS
  b1 = b1
  b2 = b2
  b3 = b3
  Batches = {b1, b2}
  NumImages <- MCNumImages
  NoBatch = NoBatch
  Modes <- MCModes
  Faults = {"lose"}
  QueueCapacity = 2
  MaxSegments = 3
  MaxCrashes = 0
PROPERTY
  AttachErrorReported
CHECK_DEADLOCK FALSE
