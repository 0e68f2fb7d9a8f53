CONSTANTS
  Size = 3
  FetchChunk = 2
  MaxTries = 2
  OverSend = 1
  NoFile = NoFile
SPECIFICATION RunSpec
PROPERTY RetryReResolves
