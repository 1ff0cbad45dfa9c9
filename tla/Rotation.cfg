CONSTANTS
  c1 = c1  c2 = c2  c3 = c3  p1 = p1  p2 = p2
  Calls = {c1, c2, c3}
  Profiles = {p1, p2}
  Kinds = {"message", "reset", "expiry"}
  MaxSessions = 4
  MaxEvents = 2
SPECIFICATION Spec
SYMMETRY Alike
INVARIANTS TypeOK EndedWhereItLived ReplacedIsEnded RotationForgets
PROPERTIES CurrentStays
CHECK_DEADLOCK FALSE
