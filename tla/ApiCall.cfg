CONSTANTS
  GiveUpAfter = 1024
  Rounds = 4
  MaxCalls = 2
SPECIFICATION Spec
INVARIANTS BoundedPatience AnswersTheChallenge
PROPERTY CallReturns
CHECK_DEADLOCK FALSE
