SPECIFICATION FairServiceSpec
CONSTANTS
  Callers = {c1, c2}
  Requests = {r1}
  NoOne = NoOne
  Opens <- MCOpens
INVARIANTS
  ServiceTypeOK
  NothingLeftOpen
  ServesItsTun
  DescriptorsOwned
  ServiceInv
PROPERTY CallsReturn
