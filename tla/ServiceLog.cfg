SPECIFICATION LogSpec
CONSTANTS
  Messages = {"not enrolled", "next scan"}
  Max = 3
  Window = 2
  MaxRepeats = 3
INVARIANTS LogTypeOK CountsAddUp
PROPERTY LogKeepsMoving
