SPECIFICATION Spec
CONSTANTS
  None = None
  p1 = p1
  p2 = p2
  n1 = n1
  s1 = s1
  s2 = s2
  c1 = c1
  c2 = c2
  c3 = c3
  Profiles <- MCProfiles
  NodeIds <- MCNodeIds
  Pids <- MCPids
  Usable <- MCUsable
  Conns <- ThreeConns
  Requests <- AllRequests
  Faults <- MildFaults
INVARIANTS
  FetchesInOrder
  IdleLeavesNoFile
  SecretTracked
