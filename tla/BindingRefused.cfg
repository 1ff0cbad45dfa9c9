\* A bind refused because the user is bound already.
CONSTANTS
  w1 = w1  w2 = w2  b1 = b1  b2 = b2  p1 = p1  p2 = p2  u1 = u1  u2 = u2
  Requests = {w1, w2}
  Bindings = {b1, b2}
  Profiles = {p1, p2}
  Users = {u1, u2}
  MaxCodes = 2
  MaxFaults = 0
  MaxCrashes = 0
SPECIFICATION Spec
PROPERTIES BindSparesOthers
