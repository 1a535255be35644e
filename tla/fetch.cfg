SPECIFICATION FairFetchSpec
CONSTANTS
  None = None
  Absent = Absent
  e1 = e1
  Agents = 2
  Retries = 1
  Uuids <- MCUuids
  UriText <- MCUriText
  Errors <- MCErrors
  Bodies <- MCBodies
  Stubs <- MCStubs
  Parsed <- MCParsed
INVARIANTS
  FetchTypeOK
  FirstUsableWins
  ErrorOnlyWhenAllFailed
  EntriesIndependent
  
  FilesValidate
  MetadataKept
  IntervalsAgree
PROPERTIES
  FetchEnds
