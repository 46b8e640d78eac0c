SPECIFICATION MonitorSpec
CONSTANTS
  Paths <- MCPaths
  Servers = {s1}
  NoServers = NoServers
  Families = {TRUE}
  Costs = {TRUE}
  MaxUpdates = 3
INVARIANTS
  WitnessToldCurrentPath
CHECK_DEADLOCK FALSE
