SPECIFICATION Spec
CONSTANTS
  noFile = noFile
  NoFile = noFile
  Hosts <- MCHosts
  Wildcards = {"*"}
  MaxDepth = 2
  MaxFiles = 4
  Room = 4
INVARIANT NoSiteIsForgotten
CHECK_DEADLOCK FALSE
