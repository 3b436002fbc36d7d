SPECIFICATION Spec
CONSTANTS
  f1 = f1
  f2 = f2
  c1 = c1
  l0 = l0
  l1 = l1
  Placement = {f1, c1, l0, l1}
  Run = {r1}
  SourceOf <- FullHost
  Needs <- NamedSite
  Blind = {}
  Rejected = {c1}
  Scopes <- Narrowed
  DisabledSets <- NoneOrOne
  Known = {f1, c1, l0, l1}
  SizeOf <- Sizes
  MaxObservationsPerRun = 3
  MaxObservationBytesPerRun = 4
  MaxObservationsPerPage = 2
  MaxHostChanges = 1
INVARIANTS
  TypeOK
  PagesAreSafe
  FinalCarriesWholeRun
PROPERTIES
  ImplementsPortfolio
  RunEnds
CHECK_DEADLOCK FALSE
