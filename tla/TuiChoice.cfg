CONSTANTS
  MaxJobs = 1
  MaxKeys = 1
  MaxEvents = 1
  Folder = 2
  FileSize = 1
SPECIFICATION Spec
INVARIANT OnlyChosenFiles
CHECK_DEADLOCK FALSE
