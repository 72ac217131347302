SPECIFICATION FairSpec
CONSTANTS
  b1 = b1
  b2 = b2
  b3 = b3
  Batches = {b1, b2, b3}
  NumImages <- MCNumImages
  NoBatch = NoBatch
  Modes <- MCModes
  Faults = {"lose", "attach", "remove", "camera"}
  QueueCapacity = 2
  MaxSegments = 3
  MaxCrashes = 1
INVARIANTS
  TypeOK
  QueuedImagesIntact
  SegmentsHeld
  UploadsOwnImages
PROPERTIES
  QueueDrains
  ImplementsService
CHECK_DEADLOCK FALSE
