SPECIFICATION FairMonitorSpec
CONSTANTS
  Paths <- MCPaths
  Servers = {s1}
  NoServers = NoServers
  Families = {TRUE, FALSE}
  Costs = {TRUE, FALSE}
  MaxUpdates = 3
INVARIANTS
  MonitorTypeOK
  NothingOwedIsLost
  OldFlowsAreClosed
  SubstitutesMatchPath
 
CHECK_DEADLOCK FALSE
