CONSTANTS
  p1 = p1
  p2 = p2
  a = a
  b = b
  Process = {p1, p2}
  File = {a, b}
  Commands <- MCCommands
  Choosers <- MCChoosers
  Size <- MCSize
SPECIFICATION Spec
INVARIANTS SharedIntegrity ZeroMeansAll OvertakenMeansDelivered AtMostOneMore QuitIsHeard
CHECK_DEADLOCK FALSE
PROPERTY ProcessExits
