SPECIFICATION Spec
CONSTANTS
  Limit <- MCLimit
  Due <- MCDue
  Longer <- MCLonger
  Oldest = 3
INVARIANTS HealthyIsNotCalledStuck OneWarning
PROPERTY StuckIsShown
