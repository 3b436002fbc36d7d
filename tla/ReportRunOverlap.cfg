SPECIFICATION Spec
CONSTANTS
  f1 = f1
  f2 = f2
  c1 = c1
  l0 = l0
  l1 = l1
  Placement = {f1, f2}
  Run = {r1, r2}
  SourceOf <- FilesOnHost
  Needs <- NoNames
  Blind = {f1}
  Rejected = {}
  Scopes <- Everything
  DisabledSets <- AllButFiles
  Known = {f1, f2}
  SizeOf <- Sizes
  MaxObservationsPerRun = 3
  MaxObservationBytesPerRun = 4
  MaxObservationsPerPage = 1
  MaxHostChanges = 1
INVARIANTS
  PagesAreSafe
  FinalCarriesWholeRun
PROPERTIES
  ImplementsPortfolio
SYMMETRY Symmetry
CHECK_DEADLOCK FALSE
