SPECIFICATION Spec
CONSTANT ManualRuns = TRUE
INVARIANTS
  TypeOK
  StatusTellsLastCycle
PROPERTIES
  StopCompletes
  KeepsReporting
