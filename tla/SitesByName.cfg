SPECIFICATION Spec
CONSTANTS
  f1 = f1
  f2 = f2
  c1 = c1
  l0 = l0
  l1 = l1
  Placement = {f1, c1, l0, l1}
  Run = {r1}
  SourceOf <- FullHost
  Needs <- NamedSite
  Blind = {}
  Rejected = {}
  Scopes <- Everything
  DisabledSets <- OnlyConfigOff
  Known = {f1, c1, l0, l1}
  SizeOf <- Sizes
  MaxObservationsPerRun = 3
  MaxObservationBytesPerRun = 4
  MaxObservationsPerPage = 2
  MaxHostChanges = 1
INVARIANT SitesByNameSurvive
CHECK_DEADLOCK FALSE
