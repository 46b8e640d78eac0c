SPECIFICATION WitnessSpec
CONSTANTS
  d1 = d1
  d2 = d2
  d3 = d3
  q1 = q1
  Paths <- MCPaths
  Dials = {q1}
  Connects = {}
  Serial <- QuestionSerial
  PendingDials = 2
  AfterTimeouts = 2
  MaxRuns = 1
  MaxSession = 2
  MaxMoves = 1
INVARIANTS
  OldSilenceNotCounted
CHECK_DEADLOCK FALSE
