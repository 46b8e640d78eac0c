SPECIFICATION Spec
CONSTANTS
  q1 = q1
  Paths <- MCPaths
  Servers = {}
  NoServers = NoServers
  Families = {TRUE}
  Costs = {TRUE}
  MaxUpdates = 3
  Dials = {q1}
  Connects = {}
  Serial <- QuestionSerial
  PendingDials = 2
  AfterTimeouts = 1
  MaxRuns = 1
  MaxSession = 5
  MaxMoves = 0
INVARIANTS
  SuspensionMeasuredOnThisPath
CHECK_DEADLOCK FALSE
