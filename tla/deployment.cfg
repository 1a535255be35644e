SPECIFICATION FairSpec
CONSTANTS
  None = None
  d1 = d1
  d2 = d2
  e1 = e1
  c1 = c1
  c2 = c2
  n1 = n1
  Daemons <- MCDaemons
  Endpoints <- MCEndpoints
  EndpointOf <- MCEndpointOf
  Prefetching <- Second
  DaemonFaults <- AllEnds
  Clients <- MCClients
  Cmds <- MCCmds
  SummaryOnly <- First
  Node = n1
  MaxVersion = 2
INVARIANTS
  DeploymentTypeOK
  OneServer
  ServedSocketStays
  NoneBlocked
PROPERTIES
  FetchReturnsOwn
  
  CallsEnd
CHECK_DEADLOCK FALSE
