SPECIFICATION Spec
CONSTANTS
  Cost <- CostOf
  VerifyBudget = 6
  MaxCertificates = 4
  MaxLeaves = 2
  MaxChainDepth = 2
  Hosts <- MCHosts
  Patience <- MCPatience
  MaxDepth = 2
  MaxFiles = 3
  Room = 3
INVARIANTS
  TypeOK
  ChainsAreBest
  CutShortIsSaid
  ReportedOnce
  OnlyForAReason
PROPERTIES
  ImplementsSweep
CHECK_DEADLOCK FALSE
