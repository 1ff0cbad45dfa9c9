\* Two messages of one chat while the provisioner writes its files up to five times; one step
\* of a handler raises.
CONSTANTS
  m1 = m1  m2 = m2  p1 = p1  p2 = p2  u1 = u1
  Messages = {m1, m2}
  Profiles = {p1, p2}
  Users = {u1}
  MaxChanges = 5
  MaxFaults = 1
SPECIFICATION FairSpec
INVARIANTS TypeOK MarkedMeansFresh DeliveredWhereBound RejectedForCause
PROPERTIES MessagesEnd
CHECK_DEADLOCK FALSE
