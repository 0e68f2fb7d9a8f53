CONSTANTS
  GiveUpAfter = 4
  Rounds = 4
  MaxCalls = 2
SPECIFICATION Spec
INVARIANT RetriesWhatItSays
CHECK_DEADLOCK FALSE
