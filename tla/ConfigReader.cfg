SPECIFICATION Spec
CONSTANTS
  noFile = noFile
  NoFile = noFile
  Hosts <- MCHosts
  Wildcards = {"*"}
  MaxDepth = 2
  MaxFiles = 4
  Room = 4
INVARIANTS
  TypeOK
  
  SeenToBeGoneSpoilsNothing
PROPERTIES
  ImplementsSweep
  StoresImplementSweep
CHECK_DEADLOCK FALSE
