\* Three employees for two places, two browser requests, one channel account; two writes or
\* restarts fail, the process dies once.
CONSTANTS
  r1 = r1  r2 = r2  e1 = e1  e2 = e2  e3 = e3  i1 = i1  i2 = i2  i3 = i3  a1 = a1  a2 = a2
  Requests = {r1,r2}
  Employees = {e1,e2,e3}
  Ids = {i1,i2}
  Accounts = {a1}
  DefaultAccount = "none"
  Capacity = 2
  TTL = 1
  Grace = 0
  MaxTime = 1
  MaxFaults = 2
  MaxCrashes = 1
SPECIFICATION FairSpec
INVARIANTS TypeOK OneLogin WithinCapacity AccountExclusive
PROPERTIES NoRegression OutcomeTrue ConnectingEnds
