\* Two files of one employee shared by two Sessions, one tool call, pressure and quotas; every unlink may fail.
CONSTANTS
  f1 = f1  f2 = f2  p1 = p1  p2 = p2  s1 = s1  s2 = s2  s3 = s3  t1 = t1
  Files = {f1, f2}
  Profiles = {p1}
  Sessions = {s1, s2}
  Tools = {t1}
  Owner <- OwnerAll1
  ProfileOf <- ProfileOf12
  Supported = {f1, f2}
  Size <- SizeOne
  BatchMaxFiles = 2
  SessionMaxFiles = 1
  SessionMaxBytes = 2
  ProfileMaxBytes = 1
  CleanupBytes = 9
  RejectBytes = 9
  DiskStates = {"free", "high"}
  MaxSessions = 9
  FreshTTL = 1
  IdleTTL = 2
  HardTTL = 1
  Faults = {"unlink"}
  MaxTime = 1
  Kinds = {"upload"}
  MaxCrashes = 0
  MaxRequests = 0
SPECIFICATION Spec
SYMMETRY Alike
PROPERTIES CleanupSparesLeases CleanupNeverStrands ResetSparesOthers AdmissionWithinQuota
