\* Two Profiles with one Session each; every store write may fail; the Gateway may crash;
\* the provisioner may ask for one cleanup.
CONSTANTS
  f1 = f1  f2 = f2  p1 = p1  p2 = p2  s1 = s1  s2 = s2  s3 = s3  t1 = t1
  Files = {f1}
  Profiles = {p1, p2}
  Sessions = {s1, s3}
  Tools = {t1}
  Owner <- OwnerAll1
  ProfileOf <- ProfileOf12
  Supported = {f1}
  Size <- SizeOne
  BatchMaxFiles = 2
  SessionMaxFiles = 2
  SessionMaxBytes = 2
  ProfileMaxBytes = 2
  CleanupBytes = 9
  RejectBytes = 9
  DiskStates = {"free"}
  MaxSessions = 1
  FreshTTL = 1
  IdleTTL = 2
  HardTTL = 1
  Faults = {"write"}
  MaxTime = 1
  Kinds = {"analyze", "upload", "reference"}
  MaxCrashes = 1
  MaxRequests = 1
SPECIFICATION Spec
INVARIANTS TypeOK LeaseBalance ProfileIsolation OneCaptureTime
PROPERTIES RequestServed
