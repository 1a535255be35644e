SPECIFICATION BackendSpec
CONSTANTS
  None = None
  p1 = p1
  p2 = p2
  n1 = n1
  n2 = n2
  s1 = s1
  s2 = s2
  Profiles <- MCProfiles
  NodeIds <- MCNodeIds
  Pids <- MCPids
  Usable <- MCUsable
  Faults <- ExitFault
PROPERTIES
  StopReleases
