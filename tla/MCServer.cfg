SPECIFICATION FairSpec
CONSTANTS
  browser = browser
  reader = reader
  None = None
  Clients <- MCClients
  Requests <- MCRequests
  Limits = {2}
  MaxLine = 5
  SendBuffer = 2
  Roots <- MCRoots
  Ports = {"p"}
  Timed = TRUE
  Readers = {reader}
  Reads <- MCReads
INVARIANTS
  StreamInOrder
  PathIsWhole
PROPERTIES
  ServersEnd
CHECK_DEADLOCK FALSE
