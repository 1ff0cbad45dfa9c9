\* A requested deletion against a stale copy of the grant.
CONSTANTS
  f1 = f1  f2 = f2  p1 = p1  p2 = p2  s1 = s1  s2 = s2  s3 = s3  t1 = t1
  Files = {f1, f2}
  Profiles = {p1}
  Sessions = {s1}
  Tools = {t1}
  Owner <- OwnerAll1
  ProfileOf <- ProfileOf12
  Supported = {f1, f2}
  Size <- SizeOne
  BatchMaxFiles = 2
  SessionMaxFiles = 2
  SessionMaxBytes = 2
  ProfileMaxBytes = 2
  CleanupBytes = 9
  RejectBytes = 9
  DiskStates = {"free"}
  MaxSessions = 9
  FreshTTL = 1
  IdleTTL = 2
  HardTTL = 1
  Faults = {}
  MaxTime = 1
  Kinds = {"analyze", "upload"}
  MaxCrashes = 0
  MaxRequests = 0
SPECIFICATION Spec
PROPERTIES PendingDeletionKept
