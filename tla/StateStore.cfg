SPECIFICATION Spec
CONSTANTS
  Proc = {p1, p2}
  Key = {k1, k2, k3}
  Absent = Absent
  Torn = Torn
  Power = TRUE
INVARIANTS
  TypeOK
  FilesAreWhole
  ConfigIsRegistered
  EnrolledKeyIsKept
