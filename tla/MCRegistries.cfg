CONSTANTS
  r1 = r1
  r2 = r2
  r3 = r3
  Requests = {r1, r2, r3}
  Users = {"admin", "operator"}
  Admin = "admin"
  First = First
  MaxFails = 2
  Desk = Desk
  None = None
  Absent = Absent
  Torn = Torn
  Names <- McNames
  Skills = {"one", "two"}
  DefaultBody = DefaultBody
SYMMETRY RequestsSymmetry
CONSTRAINT OneRegistry
SPECIFICATION Spec
INVARIANTS
  LockoutHolds
  DisabledIsOut
  AcknowledgedIsThere
CHECK_DEADLOCK FALSE
