SPECIFICATION WitnessSpec
CONSTANTS
  d1 = d1
  d2 = d2
  d3 = d3
  q1 = q1
  Paths <- MCPaths
  Dials = {d1, d2, d3, q1}
  Connects = {1, 2}
  Serial <- TallySerial
  PendingDials = 2
  AfterTimeouts = 2
  MaxRuns = 1
  MaxSession = 2
  MaxMoves = 0
INVARIANTS
  TallyAgrees
CHECK_DEADLOCK FALSE
