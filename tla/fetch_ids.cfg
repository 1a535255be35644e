SPECIFICATION FetchSpec
CONSTANTS
  None = None
  Absent = Absent
  e1 = e1
  Agents = 2
  Retries = 1
  Uuids <- MCUuids
  UriText <- MCUriText
  Errors <- MCErrors
  Bodies <- MCBodies
  Stubs <- MCStubs
  Parsed <- MCParsed
PROPERTIES
  IdSurvivesRefresh
