CONSTANTS
  Size = 3
  FetchChunk = 2
  MaxTries = 2
  OverSend = 1
  NoFile = NoFile
SPECIFICATION RunSpec
INVARIANTS Integrity InStep NoFalseAlarm CancelTakesHold
PROPERTIES ProgressKept ImplementsDelivery Termination CancelStops EventualDelivery
