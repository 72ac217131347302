SPECIFICATION Spec
CONSTANTS
  UINT32 = 64
  WORD = 1
  IMAGE_SIZE = 10
  Counts <- MCCounts
  ImageSizes = {0, 5}
  Deviations <- MCDeviations
  Garbage = {0, 3, 63}
  MaxImages = 2
INVARIANTS
  TypeOK
  FramesAreImages
  AllImagesUploaded
PROPERTIES
  UploadSurvives
  CameraIsWellFormed
