CONSTANTS
  MaxJobs = 2
  MaxKeys = 1
  MaxEvents = 2
  Folder = 2
  FileSize = 1
SPECIFICATION Spec
INVARIANTS TypeOK StatusCoherent PendingIsListed BarAdvances
PROPERTIES JobsAreTaken DoneIsShown
CHECK_DEADLOCK FALSE
