\* Two downloads of one Session and one of another Profile's; sizes that fit only sometimes;
\* one removal raises, the Gateway dies once.
CONSTANTS
  d1 = d1  d2 = d2  d3 = d3  p1 = p1  p2 = p2  s1 = s1  s2 = s2
  Requests = {d1, d2, d3}
  Profiles = {p1, p2}
  Sessions = {s1, s2}
  ProfileOf <- ProfileEach
  SessionOf <- SessionEach
  Limit = 2
  SessionMaxFiles = 2
  SessionMaxBytes = 3
  ProfileMaxBytes = 3
  GlobalMaxBytes = 4
  TTL = 1
  Deadline = 0
  MaxTime = 3
  MaxFaults = 1
  MaxCrashes = 1
SPECIFICATION FairSpec
INVARIANTS TypeOK WithinQuotas LeftoversCounted
PROPERTIES ReadyStays DirectoriesGo
CHECK_DEADLOCK FALSE
