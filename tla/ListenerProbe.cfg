SPECIFICATION Spec
CONSTANTS
  certA = certA
  certB = certB
  Tables <- HostTables
  Parts <- HalfTables
  WellKnown <- Guessed
  Ports <- GivenPorts
  Loopback <- Loopbacks
  Certificate = {certA, certB}
  NoCert = NoCert
  Services <- Listeners
  Probes = 3
  MaxProbes = 2
  Concurrency = 1
  MaxUnanswered = 2
  Room = 3
INVARIANTS
  TypeOK
  QuietPortsDoNotSpoil
  OneFindingPerSocket
  AFewAtATime
PROPERTIES
  ImplementsSweep
  CollectReturns
CHECK_DEADLOCK FALSE
