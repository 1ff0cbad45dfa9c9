\* Two bindings, two Profiles, one user; one side effect raises, the process dies once,
\* and offboarding is retried until it is done.
CONSTANTS
  w1 = w1  w2 = w2  b1 = b1  b2 = b2  p1 = p1  p2 = p2  u1 = u1  u2 = u2
  Requests = {w1, w2}
  Bindings = {b1, b2}
  Profiles = {p1, p2}
  Users = {u1}
  MaxCodes = 2
  MaxFaults = 1
  MaxCrashes = 1
SPECIFICATION FairSpec
INVARIANTS TypeOK RoutingSound PatJournaled
PROPERTIES ClaimExclusive RevokedMeansRemoved OffboardingCompletes ImplementsTable
