----------------------- MODULE ProfileRouting_proofs -----------------------
(***************************************************************************)
(* Proofs about ProfileRouting for any number of messages, Profiles and    *)
(* users.  The argument is the order of three reads: the marker, then the  *)
(* table and the homes it stands for, one refresh at a time.  A refresh    *)
(* that is under way has a marker newer than the installed one (Ordered),  *)
(* so what it has read is the disk's unless the disk has moved on since,   *)
(* and then its marker is too old to be taken for the disk's (Fresh).      *)
(***************************************************************************)
EXTENDS ProfileRouting, TLAPS

\* The tables a refresh can hold or install, and what they say of a chat.
MatchOf(rs, m) == Match(rs, msg[m].user, "default")

\* One refresh at a time, with a marker that is newer than the installed one.
Ordered ==
  /\ \A m, n \in Messages : Refreshing(m) /\ Refreshing(n) => m = n
  /\ \A m \in Messages : Refreshing(m) => mark < msg[m].mark /\ msg[m].mark <= stamp
  /\ mark <= stamp

\* What a refresh has read or installed so far, while its marker is the disk's.
Fresh ==
  \A m \in Messages : msg[m].mark = stamp =>
    /\ msg[m].pc \in {"scan", "routes"} => msg[m].fresh = table
    /\ msg[m].pc \in {"routes", "stores"} => msg[m].served = homes
    /\ msg[m].pc \in {"stores", "mark"} => routes = table
    /\ msg[m].pc = "mark" => homes \subseteq stores

RoutingInv == TypeOK /\ Ordered /\ Fresh /\ MarkedMeansFresh

\* Every route on disk leads to a home that exists.
HomesFirst == \A r \in table : r.prof \in homes

\* A message has seen where the disk sends its chat now.
SeenNow == \A m \in Messages : Handled(m) => MatchOf(table, m) \in seen[m]

\* It has seen what its own refresh loaded and, past that, whatever the runner's table says
\* or will say when a refresh of another message ends.
SeenTables ==
  \A m \in Messages :
    /\ msg[m].pc \in {"scan", "routes"} => MatchOf(msg[m].fresh, m) \in seen[m]
    /\ msg[m].pc \in {"stores", "mark", "expect", "resolve"} => MatchOf(routes, m) \in seen[m]
    /\ msg[m].pc \in {"expect", "resolve"} =>
         \A n \in Messages :
           msg[n].pc \in {"scan", "routes"} => MatchOf(msg[n].fresh, m) \in seen[m]

\* The Profile it expects, or the default one when its chat had no route.
SeenExpected ==
  \A m \in Messages :
    At(m, "resolve") =>
      IF msg[m].expected = "none" THEN "default" \in seen[m] ELSE msg[m].expected \in seen[m]

DeliveryInv ==
  /\ RoutingInv /\ HomesFirst /\ SeenNow /\ SeenTables /\ SeenExpected
  /\ DeliveredWhereBound /\ RejectedForCause

-----------------------------------------------------------------------------
(* What the operators return. *)

LEMMA MatchValue ==
  ASSUME NEW rs \in SUBSET RouteOf, NEW u, NEW other
  PROVE  \/ /\ \A r \in rs : r.user # u
            /\ Match(rs, u, other) = other
         \/ \E r \in rs : r.user = u /\ Match(rs, u, other) = r.prof
<1>1. CASE \E r \in rs : r.user = u
  <2>1. PICK r : r = CHOOSE x \in rs : x.user = u
    OBVIOUS
  <2>2. r \in rs /\ r.user = u
    BY <1>1, <2>1
  <2>3. Match(rs, u, other) = r.prof
    BY <1>1, <2>1 DEF Match
  <2> QED BY <2>2, <2>3
<1>2. CASE \A r \in rs : r.user # u
  BY <1>2 DEF Match
<1> QED BY <1>1, <1>2

\* A table names one Profile for a chat whatever stands for no Profile.
LEMMA MatchSame ==
  ASSUME NEW rs \in SUBSET RouteOf, NEW u
  PROVE  \/ Match(rs, u, "none") = "none" /\ Match(rs, u, "default") = "default"
         \/ /\ Match(rs, u, "none") = Match(rs, u, "default")
            /\ Match(rs, u, "none") \in Profiles
<1>1. CASE \E r \in rs : r.user = u
  <2>1. Match(rs, u, "none") = Match(rs, u, "default")
    BY <1>1 DEF Match
  <2>2. \E r \in rs : Match(rs, u, "none") = r.prof
    BY <1>1, MatchValue
  <2> QED BY <2>1, <2>2 DEF RouteOf
<1>2. CASE \A r \in rs : r.user # u
  BY <1>2 DEF Match
<1> QED BY <1>1, <1>2

LEMMA MatchType ==
  ASSUME NEW rs \in SUBSET RouteOf, NEW u
  PROVE  Match(rs, u, "default") \in Targets
BY MatchSame DEF Targets

-----------------------------------------------------------------------------
(* Type correctness *)

\* A handler that has read nothing is well typed.
LEMMA NewHandler ==
  ASSUME NEW pc \in PCs, NEW u \in Users \cup {"none"}, NEW failed \in BOOLEAN
  PROVE  Handler(pc, u, failed) \in Handlers
<1>1. 0 \in 0 .. MaxChanges + 1
  BY Bounds
<1> QED BY <1>1, Zenon DEF Handler, Handlers

LEMMA InitType == Init => TypeOK
<1> SUFFICES ASSUME Init PROVE TypeOK
  OBVIOUS
<1>1. Handler("idle", "none", FALSE) \in Handlers
  BY NewHandler DEF PCs
<1>2. 1 \in 1 .. MaxChanges + 1 /\ 0 \in 0 .. MaxChanges + 1 /\ 0 \in 0 .. MaxFaults
  BY Bounds
<1>3. table = {} /\ homes = {} /\ routes = {} /\ stores \subseteq Targets
  BY DEF Init, Table!Init, Targets
<1>4. msg \in [Messages -> Handlers] /\ seen \in [Messages -> SUBSET Targets]
  BY <1>1 DEF Init
<1> QED BY <1>2, <1>3, <1>4 DEF Init, TypeOK

\* A write keeps the types of what it writes and moves the stamp within its bound.
LEMMA ChangedType ==
  ASSUME TypeOK, Changed, table' \subseteq RouteOf, homes' \subseteq Profiles
  PROVE  TypeOK'
<1>1. stamp' \in 1 .. MaxChanges + 1
  BY Bounds DEF Changed, TypeOK
<1>2. seen' \in [Messages -> SUBSET Targets]
  <2>1. \A m \in Messages : Match(table', msg[m].user, "default") \in Targets
    BY MatchType
  <2> QED BY <2>1 DEF Changed, TypeOK
<1> QED BY <1>1, <1>2 DEF Changed, TypeOK, runner

LEMMA WriteType == TypeOK /\ Write => TypeOK'
<1> SUFFICES ASSUME TypeOK, Write PROVE table' \subseteq RouteOf /\ homes' \subseteq Profiles /\ Changed
  BY ChangedType
<1>1. PICK p \in Profiles : NewHome(p) \/ RemoveHome(p) \/ \E u \in Users : Bind(p, u) \/ Unbind(p, u)
  BY DEF Write
<1>2. CASE NewHome(p)
  BY <1>2 DEF NewHome, TypeOK
<1>3. CASE RemoveHome(p)
  BY <1>3 DEF RemoveHome, TypeOK
<1>4. ASSUME NEW u \in Users, Bind(p, u) PROVE table' \subseteq RouteOf /\ homes' \subseteq Profiles /\ Changed
  BY <1>4 DEF Bind, Table!Bind, Table!Route, TypeOK, RouteOf
<1>5. ASSUME NEW u \in Users, Unbind(p, u) PROVE table' \subseteq RouteOf /\ homes' \subseteq Profiles /\ Changed
  BY <1>5 DEF Unbind, Table!Unbind, TypeOK
<1> QED BY <1>1, <1>2, <1>3, <1>4, <1>5

\* A handler's step writes its own record, the runner's tables or both.
LEMMA HandlerType ==
  ASSUME TypeOK, NEW m \in Messages, NEW r \in Handlers, msg' = [msg EXCEPT ![m] = r],
         routes' \subseteq RouteOf, stores' \subseteq Targets, mark' \in 0 .. MaxChanges + 1,
         UNCHANGED disk, seen' \in [Messages -> SUBSET Targets], faults' \in 0 .. MaxFaults
  PROVE  TypeOK'
BY DEF TypeOK, disk

LEMMA StepType == TypeOK /\ [Next]_vars => TypeOK'
<1> SUFFICES ASSUME TypeOK, Next PROVE TypeOK'
  BY DEF vars, disk, runner, TypeOK
<1>1. CASE Write
  BY <1>1, WriteType
<1>2. ASSUME NEW m \in Messages, Step(m) \/ Fail(m) \/ \E u \in Users : Arrive(m, u)
      PROVE  TypeOK'
  <2>1. PICK q : q = msg[m]
    OBVIOUS
  <2>2. q \in Handlers
    BY <2>1 DEF TypeOK
  <2> DEFINE Rest == /\ routes' \subseteq RouteOf /\ stores' \subseteq Targets
                     /\ mark' \in 0 .. MaxChanges + 1 /\ UNCHANGED disk
                     /\ seen' \in [Messages -> SUBSET Targets] /\ faults' \in 0 .. MaxFaults
  <2> DEFINE Own(r) == r \in Handlers /\ msg' = [msg EXCEPT ![m] = r]
  <2> SUFFICES Rest /\ \E r : Own(r)
    BY HandlerType
  <2>3. CASE Check(m)
    <3>1. \E pc \in {"expect", "enter"} : Own([q EXCEPT !.pc = pc])
      BY <2>1, <2>2, <2>3 DEF Check, Goto, Handlers, PCs
    <3> QED BY <2>3, <3>1 DEF Check, TypeOK, runner
  <2>4. CASE Enter(m)
    <3>1. CASE Goto(m, "expect")
      <4>1. Own([q EXCEPT !.pc = "expect"])
        BY <2>1, <2>2, <3>1 DEF Goto, Handlers, PCs
      <4> QED BY <2>4, <4>1 DEF Enter, TypeOK, runner
    <3>2. CASE msg' = [msg EXCEPT ![m].pc = "load", ![m].mark = stamp]
      <4>1. Own([q EXCEPT !.pc = "load", !.mark = stamp])
        <5>1. stamp \in 0 .. MaxChanges + 1
          BY DEF TypeOK
        <5>2. [q EXCEPT !.pc = "load", !.mark = stamp] \in Handlers
          BY <2>2, <5>1 DEF Handlers, PCs
        <5>3. msg' = [msg EXCEPT ![m] = [q EXCEPT !.pc = "load", !.mark = stamp]]
          BY <2>1, <3>2
        <5> QED BY <5>2, <5>3
      <4> QED BY <2>4, <4>1 DEF Enter, TypeOK, runner
    <3> QED BY <2>4, <3>1, <3>2 DEF Enter
  <2>5. CASE Load(m)
    <3>1. [q EXCEPT !.pc = "scan", !.fresh = table] \in Handlers
      BY <2>2 DEF Handlers, PCs, TypeOK
    <3>2. Own([q EXCEPT !.pc = "scan", !.fresh = table])
      BY <2>1, <2>5, <3>1 DEF Load
    <3> QED BY <2>5, <3>2 DEF Load, TypeOK, runner
  <2>6. CASE Scan(m)
    <3>1. [q EXCEPT !.pc = "routes", !.served = homes] \in Handlers
      BY <2>2 DEF Handlers, PCs, TypeOK
    <3>2. Own([q EXCEPT !.pc = "routes", !.served = homes])
      BY <2>1, <2>6, <3>1 DEF Scan
    <3> QED BY <2>6, <3>2 DEF Scan, TypeOK, runner
  <2>7. CASE PutRoutes(m)
    <3>1. [q EXCEPT !.pc = "stores", !.fresh = {}] \in Handlers /\ q.fresh \subseteq RouteOf
      BY <2>2 DEF Handlers, PCs
    <3>2. Own([q EXCEPT !.pc = "stores", !.fresh = {}])
      BY <2>1, <2>7, <3>1 DEF PutRoutes
    <3> QED BY <2>1, <2>7, <3>1, <3>2 DEF PutRoutes, TypeOK
  <2>8. CASE PutStores(m)
    <3>1. [q EXCEPT !.pc = "mark", !.served = {}] \in Handlers /\ q.served \subseteq Targets
      BY <2>2 DEF Handlers, PCs, Targets
    <3>2. Own([q EXCEPT !.pc = "mark", !.served = {}])
      BY <2>1, <2>8, <3>1 DEF PutStores
    <3> QED BY <2>1, <2>8, <3>1, <3>2 DEF PutStores, TypeOK
  <2>9. CASE PutMark(m)
    <3>1. [q EXCEPT !.pc = "expect"] \in Handlers /\ q.mark \in 0 .. MaxChanges + 1
      BY <2>2 DEF Handlers, PCs
    <3>2. Own([q EXCEPT !.pc = "expect"])
      BY <2>1, <2>9, <3>1 DEF PutMark, Goto
    <3> QED BY <2>1, <2>9, <3>1, <3>2 DEF PutMark, TypeOK
  <2>10. CASE Expect(m)
    <3>1. PICK p : p = Match(routes, q.user, "none")
      OBVIOUS
    <3>2. p \in Profiles \cup {"none"}
      BY <3>1, MatchSame DEF TypeOK
    <3>3. [q EXCEPT !.pc = "resolve", !.expected = p] \in Handlers
      BY <2>2, <3>2 DEF Handlers, PCs
    <3>4. Own([q EXCEPT !.pc = "resolve", !.expected = p])
      BY <2>1, <2>10, <3>1, <3>3 DEF Expect
    <3> QED BY <2>10, <3>4 DEF Expect, TypeOK, runner
  <2>11. CASE Resolve(m)
    <3>1. PICK to \in Targets \cup {"none"}, pc \in Ended : msg' = [msg EXCEPT ![m].to = to, ![m].pc = pc]
      <4>1. Routed(msg[m].user) \in Targets
        BY MatchType DEF Routed, Targets, TypeOK
      <4> QED BY <2>11, <4>1 DEF Resolve, Ended
    <3>2. [q EXCEPT !.to = to, !.pc = pc] \in Handlers
      BY <2>2 DEF Handlers, PCs
    <3>3. Own([q EXCEPT !.to = to, !.pc = pc])
      BY <2>1, <3>1, <3>2
    <3> QED BY <2>11, <3>3 DEF Resolve, TypeOK, runner
  <2>12. CASE Fail(m)
    <3>1. Own(Handler("rejected", q.user, TRUE))
      <4>1. q.user \in Users \cup {"none"} /\ "rejected" \in PCs
        BY <2>2 DEF Handlers, PCs, Ended
      <4> QED BY <2>1, <2>12, <4>1, NewHandler DEF Fail
    <3>3. faults' \in 0 .. MaxFaults
      BY <2>12, Bounds DEF Fail, TypeOK
    <3>5. Rest
      BY <2>12, <3>3 DEF Fail, TypeOK, runner
    <3> QED BY <3>1, <3>5
  <2>13. ASSUME NEW u \in Users, Arrive(m, u) PROVE Rest /\ \E r : Own(r)
    <3>1. Own(Handler("check", u, FALSE))
      BY <2>13, NewHandler DEF Arrive, PCs
    <3>3. {Match(table, u, "default")} \subseteq Targets
      BY MatchType DEF TypeOK
    <3>6. Rest
      BY <2>13, <3>3 DEF Arrive, TypeOK, runner
    <3> QED BY <3>1, <3>6
  <2> QED BY <1>2, <2>3, <2>4, <2>5, <2>6, <2>7, <2>8, <2>9, <2>10, <2>11, <2>12, <2>13 DEF Step
<1> QED BY <1>1, <1>2 DEF Next

\* Every reachable state is well typed.
THEOREM RoutingTypeCorrect == Spec => []TypeOK
BY InitType, StepType, PTL DEF Spec

-----------------------------------------------------------------------------
(* The runner's tables and the marker they stand for *)

\* What a write does to the rest of the state.
LEMMA WriteChanges ==
  ASSUME Write
  PROVE  stamp' = stamp + 1 /\ UNCHANGED <<runner, msg, faults>> /\ Changed
BY DEF Write, NewHome, RemoveHome, Bind, Unbind, Changed

\* A step of one handler leaves the others where they are.
LEMMA StepLocal ==
  ASSUME TypeOK, NEW m \in Messages, Step(m) \/ Fail(m) \/ \E u \in Users : Arrive(m, u)
  PROVE  /\ UNCHANGED disk
         /\ \A n \in Messages : n # m => msg'[n] = msg[n]
BY DEF Step, Fail, Arrive, Check, Enter, Load, Scan, PutRoutes, PutStores, PutMark, Expect,
       Resolve, Goto, TypeOK

\* Where a handler goes by the steps that install nothing.
LEMMA StepPc ==
  ASSUME TypeOK, NEW m \in Messages
  PROVE  /\ Check(m) => UNCHANGED runner /\ msg'[m].pc \in {"expect", "enter"}
         /\ Enter(m) /\ mark = stamp => UNCHANGED runner /\ msg'[m].pc = "expect"
         /\ Enter(m) /\ mark # stamp =>
              UNCHANGED runner /\ msg'[m].pc = "load" /\ msg'[m].mark = stamp
         /\ Expect(m) => UNCHANGED runner /\ msg'[m].pc = "resolve"
         /\ Load(m) \/ Scan(m) \/ PutRoutes(m) \/ PutStores(m) =>
              /\ mark' = mark /\ msg'[m].mark = msg[m].mark
              /\ Refreshing(m) /\ msg'[m].pc \in {"scan", "routes", "stores", "mark"}
<1>1. Check(m) => UNCHANGED runner /\ msg'[m].pc \in {"expect", "enter"}
  BY DEF Check, Goto, TypeOK, Handlers, runner
<1>2. Enter(m) /\ mark = stamp => UNCHANGED runner /\ msg'[m].pc = "expect"
  BY DEF Enter, Goto, TypeOK, Handlers, runner
<1>3. Enter(m) /\ mark # stamp =>
        UNCHANGED runner /\ msg'[m].pc = "load" /\ msg'[m].mark = stamp
  BY DEF Enter, TypeOK, Handlers, runner
<1>4. Expect(m) => UNCHANGED runner /\ msg'[m].pc = "resolve"
  <2>1. PICK p : p = Match(routes, msg[m].user, "none")
    OBVIOUS
  <2>2. Expect(m) => UNCHANGED runner /\ msg' = [msg EXCEPT ![m].pc = "resolve", ![m].expected = p]
    BY <2>1 DEF Expect, runner
  <2> QED BY <2>2 DEF TypeOK, Handlers
<1>5. Load(m) \/ Scan(m) \/ PutRoutes(m) \/ PutStores(m) =>
        /\ mark' = mark /\ msg'[m].mark = msg[m].mark
        /\ Refreshing(m) /\ msg'[m].pc \in {"scan", "routes", "stores", "mark"}
  <2>1. Load(m) => /\ mark' = mark /\ msg'[m].mark = msg[m].mark
                   /\ Refreshing(m) /\ msg'[m].pc = "scan"
    BY DEF Load, At, Refreshing, TypeOK, Handlers, runner
  <2>2. Scan(m) => /\ mark' = mark /\ msg'[m].mark = msg[m].mark
                   /\ Refreshing(m) /\ msg'[m].pc = "routes"
    BY DEF Scan, At, Refreshing, TypeOK, Handlers, runner
  <2>3. PutRoutes(m) => /\ mark' = mark /\ msg'[m].mark = msg[m].mark
                        /\ Refreshing(m) /\ msg'[m].pc = "stores"
    BY DEF PutRoutes, At, Refreshing, TypeOK, Handlers, runner
  <2>4. PutStores(m) => /\ mark' = mark /\ msg'[m].mark = msg[m].mark
                        /\ Refreshing(m) /\ msg'[m].pc = "mark"
    BY DEF PutStores, At, Refreshing, TypeOK, Handlers, runner
  <2> QED BY <2>1, <2>2, <2>3, <2>4
<1> QED BY <1>1, <1>2, <1>3, <1>4, <1>5

LEMMA OrderedStep == TypeOK /\ Ordered /\ [Next]_vars => Ordered'
<1> SUFFICES ASSUME TypeOK, Ordered, Next PROVE Ordered'
  BY DEF vars, disk, runner, Ordered, Refreshing
<1>1. CASE Write
  <2>1. stamp' = stamp + 1 /\ mark' = mark /\ msg' = msg
    BY <1>1, WriteChanges DEF runner
  <2>2. \A m \in Messages : msg[m].mark \in Nat
    BY DEF TypeOK, Handlers
  <2>3. stamp \in Nat /\ mark \in Nat
    BY DEF TypeOK
  <2> QED BY <2>1, <2>2, <2>3 DEF Ordered, Refreshing
<1>2. ASSUME NEW m \in Messages, Step(m) \/ Fail(m) \/ \E u \in Users : Arrive(m, u)
      PROVE  Ordered'
  <2>1. UNCHANGED disk /\ \A n \in Messages : n # m => msg'[n] = msg[n]
    BY <1>2, StepLocal
  <2>2. stamp \in Nat /\ mark \in Nat /\ msg[m].mark \in Nat
    BY DEF TypeOK, Handlers
  <2>3. ASSUME mark' = mark, ~Refreshing(m)'
        PROVE  Ordered'
    BY <2>1, <2>3 DEF Ordered, Refreshing, disk
  <2>4. ASSUME mark' = mark, Refreshing(m), Refreshing(m)', msg'[m].mark = msg[m].mark
        PROVE  Ordered'
    BY <2>1, <2>4 DEF Ordered, Refreshing, disk
  <2>5. CASE Enter(m) /\ mark # stamp
    <3>1. mark' = mark /\ msg'[m].mark = stamp /\ LockFree
      BY <2>5, StepPc DEF Enter, runner
    <3>2. mark < stamp /\ stamp <= stamp
      BY <2>2, <2>5 DEF Ordered
    <3> QED BY <2>1, <3>1, <3>2 DEF Ordered, Refreshing, LockFree, disk
  <2>6. CASE PutMark(m)
    <3>1. mark' = msg[m].mark /\ Refreshing(m) /\ ~Refreshing(m)'
      BY <2>6 DEF PutMark, At, Goto, Refreshing, TypeOK
    <3>2. \A n \in Messages : ~Refreshing(n)'
      BY <2>1, <3>1 DEF Ordered, Refreshing
    <3> QED BY <2>1, <3>1, <3>2 DEF Ordered, disk
  <2>7. CASE Load(m) \/ Scan(m) \/ PutRoutes(m) \/ PutStores(m)
    BY <2>4, <2>7, StepPc DEF Refreshing
  <2>8. CASE Check(m) \/ (Enter(m) /\ mark = stamp) \/ Expect(m)
    BY <2>3, <2>8, StepPc DEF Refreshing, runner
  <2>9. CASE Resolve(m)
    <3>1. mark' = mark /\ msg'[m].pc \in Ended
      BY <2>9 DEF Resolve, Ended, TypeOK, runner
    <3> QED BY <2>3, <3>1 DEF Refreshing, Ended
  <2>10. CASE Fail(m)
    BY <2>3, <2>10 DEF Fail, Handler, Refreshing, TypeOK, runner
  <2>11. CASE \E u \in Users : Arrive(m, u)
    BY <2>3, <2>11 DEF Arrive, Handler, Refreshing, TypeOK, runner
  <2> QED BY <1>2, <2>5, <2>6, <2>7, <2>8, <2>9, <2>10, <2>11 DEF Step
<1> QED BY <1>1, <1>2 DEF Next

LEMMA FreshStep ==
  TypeOK /\ Ordered /\ Fresh /\ MarkedMeansFresh /\ [Next]_vars => Fresh' /\ MarkedMeansFresh'
<1> SUFFICES ASSUME TypeOK, Ordered, Fresh, MarkedMeansFresh, Next
             PROVE  Fresh' /\ MarkedMeansFresh'
  BY DEF vars, disk, runner, Fresh, MarkedMeansFresh
<1>1. stamp \in Nat /\ mark \in Nat /\ mark <= stamp /\ \A n \in Messages : msg[n].mark \in Nat
  BY DEF TypeOK, Handlers, Ordered
<1>2. CASE Write
  <2>1. stamp' = stamp + 1 /\ mark' = mark /\ msg' = msg
    BY <1>2, WriteChanges DEF runner
  <2>2. mark' # stamp'
    BY <1>1, <2>1
  <2>3. ASSUME NEW n \in Messages, msg'[n].mark = stamp' PROVE ~Refreshing(n)
    BY <1>1, <2>1, <2>3 DEF Ordered
  <2> QED BY <2>1, <2>2, <2>3 DEF Fresh, MarkedMeansFresh, Refreshing
<1>3. ASSUME NEW m \in Messages, Step(m) \/ Fail(m) \/ \E u \in Users : Arrive(m, u)
      PROVE  Fresh' /\ MarkedMeansFresh'
  <2>1. UNCHANGED disk /\ \A n \in Messages : n # m => msg'[n] = msg[n]
    BY <1>3, StepLocal
  <2>2. ASSUME UNCHANGED runner, ~Refreshing(m)'
        PROVE  Fresh' /\ MarkedMeansFresh'
    BY <2>1, <2>2 DEF Fresh, MarkedMeansFresh, Refreshing, disk, runner
  <2>3. CASE Check(m) \/ (Enter(m) /\ mark = stamp) \/ Expect(m)
    BY <2>2, <2>3, StepPc DEF Refreshing
  <2>4. CASE Resolve(m)
    <3>1. UNCHANGED runner /\ msg'[m].pc \in Ended
      BY <2>4 DEF Resolve, Ended, TypeOK, runner
    <3> QED BY <2>2, <3>1 DEF Refreshing, Ended
  <2>5. CASE Fail(m)
    BY <2>2, <2>5 DEF Fail, Handler, Refreshing, TypeOK, runner
  <2>6. CASE \E u \in Users : Arrive(m, u)
    BY <2>2, <2>6 DEF Arrive, Handler, Refreshing, TypeOK, runner
  <2>7. CASE Enter(m) /\ mark # stamp
    <3>1. msg'[m].pc = "load" /\ UNCHANGED runner
      BY <2>7, StepPc
    <3> QED BY <2>1, <3>1 DEF Fresh, MarkedMeansFresh, disk, runner
  <2>8. CASE Load(m)
    <3>1. msg'[m].pc = "scan" /\ msg'[m].fresh = table /\ UNCHANGED runner
      BY <2>8 DEF Load, TypeOK, runner
    <3> QED BY <2>1, <3>1 DEF Fresh, MarkedMeansFresh, disk, runner
  <2>9. CASE Scan(m)
    <3>1. /\ msg'[m].pc = "routes" /\ msg'[m].served = homes /\ UNCHANGED runner
          /\ msg'[m].fresh = msg[m].fresh /\ msg'[m].mark = msg[m].mark /\ msg[m].pc = "scan"
      BY <2>9 DEF Scan, At, TypeOK, runner
    <3> QED BY <2>1, <3>1 DEF Fresh, MarkedMeansFresh, disk, runner
  <2>10. ASSUME Refreshing(m), mark' = mark
         PROVE  MarkedMeansFresh' /\ \A n \in Messages : n # m => ~Refreshing(n)
    <3>1. mark' # stamp'
      BY <1>1, <2>1, <2>10 DEF Ordered, disk
    <3> QED BY <2>10, <3>1 DEF MarkedMeansFresh, Ordered
  <2>11. CASE PutRoutes(m)
    <3>1. /\ msg'[m].pc = "stores" /\ routes' = msg[m].fresh /\ mark' = mark
          /\ msg'[m].served = msg[m].served /\ msg'[m].mark = msg[m].mark /\ msg[m].pc = "routes"
      BY <2>11 DEF PutRoutes, At, TypeOK
    <3>2. MarkedMeansFresh' /\ \A n \in Messages : n # m => ~Refreshing(n)
      BY <2>10, <3>1 DEF Refreshing
    <3> QED BY <2>1, <3>1, <3>2 DEF Fresh, Refreshing, disk
  <2>12. CASE PutStores(m)
    <3>1. /\ msg'[m].pc = "mark" /\ routes' = routes /\ stores' = stores \cup msg[m].served
          /\ mark' = mark /\ msg'[m].mark = msg[m].mark /\ msg[m].pc = "stores"
      BY <2>12 DEF PutStores, At, TypeOK
    <3>2. MarkedMeansFresh' /\ \A n \in Messages : n # m => ~Refreshing(n)
      BY <2>10, <3>1 DEF Refreshing
    <3> QED BY <2>1, <3>1, <3>2 DEF Fresh, Refreshing, disk
  <2>13. CASE PutMark(m)
    <3>1. /\ msg'[m].pc = "expect" /\ UNCHANGED <<routes, stores>> /\ mark' = msg[m].mark
          /\ msg[m].pc = "mark"
      BY <2>13 DEF PutMark, At, Goto, TypeOK
    <3>2. \A n \in Messages : n # m => ~Refreshing(n)
      BY <3>1 DEF Ordered, Refreshing
    <3> QED BY <2>1, <3>1, <3>2 DEF Fresh, MarkedMeansFresh, Refreshing, disk
  <2> QED BY <1>3, <2>3, <2>4, <2>5, <2>6, <2>7, <2>8, <2>9, <2>11, <2>12, <2>13 DEF Step
<1> QED BY <1>2, <1>3 DEF Next

LEMMA RoutingAlways == Spec => []RoutingInv
<1>1. Init => RoutingInv
  <2> SUFFICES ASSUME Init PROVE RoutingInv
    OBVIOUS
  <2>1. \A m \in Messages : msg[m].pc = "idle"
    BY DEF Init, Handler
  <2>2. mark = 0 /\ stamp = 1
    BY DEF Init
  <2> QED BY <2>1, <2>2, InitType DEF RoutingInv, Ordered, Fresh, MarkedMeansFresh, Refreshing
<1>2. RoutingInv /\ [Next]_vars => RoutingInv'
  BY StepType, OrderedStep, FreshStep DEF RoutingInv
<1> QED BY <1>1, <1>2, PTL DEF Spec

\* Whatever is written while a reload is under way, and whichever reloads raise, the marker
\* installed is never the disk's unless the routes are and every home has its store.
THEOREM MarkedRunnersAreFresh == Spec => []MarkedMeansFresh
BY RoutingAlways, PTL DEF RoutingInv

-----------------------------------------------------------------------------
(* What a message has seen *)

\* A write only adds to it, and to the handled messages adds the disk's new answer.
LEMMA WriteSees ==
  ASSUME TypeOK, Write, NEW m \in Messages
  PROVE  /\ seen[m] \subseteq seen'[m]
         /\ Handled(m) => Match(table', msg[m].user, "default") \in seen'[m]
BY WriteChanges DEF Changed, TypeOK

\* A handler's own steps after the arrival change neither what it has seen nor its sender.
LEMMA StepSees ==
  ASSUME TypeOK, NEW m \in Messages, Step(m) \/ Fail(m)
  PROVE  seen' = seen /\ msg'[m].user = msg[m].user /\ Handled(m)
<1>1. CASE Check(m) \/ Enter(m) \/ Load(m) \/ Scan(m)
  BY <1>1 DEF Check, Enter, Load, Scan, Goto, At, Handled, Ended, TypeOK, Handlers
<1>2. CASE PutRoutes(m) \/ PutStores(m) \/ PutMark(m)
  BY <1>2 DEF PutRoutes, PutStores, PutMark, Goto, At, Handled, Ended, TypeOK, Handlers
<1>3. CASE Expect(m)
  <2>1. PICK p : p = Match(routes, msg[m].user, "none")
    OBVIOUS
  <2>2. seen' = seen /\ msg' = [msg EXCEPT ![m].pc = "resolve", ![m].expected = p] /\ At(m, "expect")
    BY <1>3, <2>1 DEF Expect
  <2> QED BY <2>2 DEF At, Handled, Ended, TypeOK, Handlers
<1>4. CASE Resolve(m)
  <2>1. PICK to, pc : msg' = [msg EXCEPT ![m].to = to, ![m].pc = pc]
    BY <1>4 DEF Resolve
  <2> QED BY <1>4, <2>1 DEF Resolve, At, Handled, Ended, TypeOK, Handlers
<1>5. CASE Fail(m)
  BY <1>5 DEF Fail, Handler, Handled, Ended, TypeOK, Handlers
<1> QED BY <1>1, <1>2, <1>3, <1>4, <1>5 DEF Step

LEMMA ArriveSees ==
  ASSUME TypeOK, NEW m \in Messages, NEW u \in Users, Arrive(m, u)
  PROVE  /\ msg'[m] = Handler("check", u, FALSE) /\ seen'[m] = {Match(table, u, "default")}
         /\ \A n \in Messages : n # m => seen'[n] = seen[n]
         /\ UNCHANGED runner
BY DEF Arrive, TypeOK

LEMMA HomesFirstStep == TypeOK /\ HomesFirst /\ [Next]_vars => HomesFirst'
<1> SUFFICES ASSUME TypeOK, HomesFirst, Next PROVE HomesFirst'
  BY DEF vars, disk, HomesFirst
<1>1. CASE UNCHANGED disk
  BY <1>1 DEF disk, HomesFirst
<1>2. CASE Write
  <2>1. PICK p \in Profiles : NewHome(p) \/ RemoveHome(p) \/ \E u \in Users : Bind(p, u) \/ Unbind(p, u)
    BY <1>2 DEF Write
  <2>2. CASE NewHome(p)
    BY <2>2 DEF NewHome, HomesFirst
  <2>3. CASE RemoveHome(p)
    BY <2>3 DEF RemoveHome, HomesFirst
  <2>4. ASSUME NEW u \in Users, Bind(p, u) PROVE HomesFirst'
    <3>1. homes' = homes /\ p \in homes
      BY <2>4 DEF Bind
    <3>2. \A r \in table' : r \in table \/ r = Table!Route(p, u)
      BY <2>4 DEF Bind, Table!Bind
    <3>3. Table!Route(p, u).prof = p
      BY DEF Table!Route
    <3> QED BY <3>1, <3>2, <3>3 DEF HomesFirst
  <2>5. ASSUME NEW u \in Users, Unbind(p, u) PROVE HomesFirst'
    BY <2>5 DEF Unbind, Table!Unbind, HomesFirst
  <2> QED BY <2>1, <2>2, <2>3, <2>4, <2>5
<1> QED BY <1>1, <1>2, StepLocal DEF Next

LEMMA SeenNowStep == TypeOK /\ SeenNow /\ [Next]_vars => SeenNow'
<1> SUFFICES ASSUME TypeOK, SeenNow, Next, NEW m \in Messages, Handled(m)'
             PROVE  Match(table', msg'[m].user, "default") \in seen'[m]
  BY DEF vars, disk, SeenNow, MatchOf, Handled
<1>1. CASE Write
  <2>1. msg' = msg /\ Handled(m)
    BY <1>1, WriteChanges DEF Handled
  <2> QED BY <1>1, <2>1, WriteSees
<1>2. ASSUME NEW k \in Messages, Step(k) \/ Fail(k) \/ \E u \in Users : Arrive(k, u)
      PROVE  Match(table', msg'[m].user, "default") \in seen'[m]
  <2>1. table' = table /\ (m # k => msg'[m] = msg[m])
    BY <1>2, StepLocal DEF disk
  <2>2. CASE Step(k) \/ Fail(k)
    <3>1. seen' = seen /\ msg'[m].user = msg[m].user /\ Handled(m)
      BY <2>1, <2>2, StepSees DEF Handled
    <3> QED BY <2>1, <3>1 DEF SeenNow, MatchOf
  <2>3. ASSUME NEW u \in Users, Arrive(k, u)
        PROVE  Match(table', msg'[m].user, "default") \in seen'[m]
    <3>1. CASE m = k
      <4>1. msg'[m] = Handler("check", u, FALSE) /\ seen'[m] = {Match(table, u, "default")}
        BY <2>3, <3>1, ArriveSees
      <4>2. msg'[m].user = u
        BY <4>1 DEF Handler
      <4> QED BY <2>1, <4>1, <4>2
    <3>2. CASE m # k
      <4>1. seen'[m] = seen[m] /\ msg'[m] = msg[m] /\ Handled(m)
        BY <2>1, <2>3, <3>2, ArriveSees DEF Handled
      <4> QED BY <2>1, <4>1 DEF SeenNow, MatchOf
    <3> QED BY <3>1, <3>2
  <2> QED BY <1>2, <2>2, <2>3
<1> QED BY <1>1, <1>2 DEF Next

\* What one message has seen of the tables in use, and of the one another refresh holds.
SeenFresh(m) == msg[m].pc \in {"scan", "routes"} => MatchOf(msg[m].fresh, m) \in seen[m]
SeenRoutes(m) ==
  msg[m].pc \in {"stores", "mark", "expect", "resolve"} => MatchOf(routes, m) \in seen[m]
SeenOther(m, n) ==
  msg[m].pc \in {"expect", "resolve"} /\ msg[n].pc \in {"scan", "routes"} =>
    MatchOf(msg[n].fresh, m) \in seen[m]

\* A handler that moves on with the runner's tables as they are has seen them still.
LEMMA SeenTablesKept ==
  ASSUME TypeOK, SeenTables, NEW m \in Messages, Step(m) \/ Fail(m), routes' = routes,
         msg'[m].pc \in {"scan", "routes"} => msg'[m].fresh = msg[m].fresh /\ At(m, "scan"),
         msg'[m].pc \in {"stores", "mark", "expect", "resolve"} =>
           msg[m].pc \in {"stores", "mark", "expect", "resolve"},
         msg'[m].pc \in {"expect", "resolve"} =>
           \/ msg[m].pc \in {"expect", "resolve"}
           \/ \A n \in Messages : n # m => msg[n].pc \notin {"scan", "routes"}
  PROVE  SeenTables'
<1>1. seen' = seen /\ \A n \in Messages : msg'[n].user = msg[n].user /\ (n # m => msg'[n] = msg[n])
  BY StepSees, StepLocal
<1>2. \A n \in Messages : SeenFresh(n)'
  BY <1>1 DEF SeenTables, SeenFresh, MatchOf, At
<1>3. \A n \in Messages : SeenRoutes(n)'
  BY <1>1 DEF SeenTables, SeenRoutes, MatchOf
<1>4. ASSUME NEW n \in Messages, NEW k \in Messages PROVE SeenOther(n, k)'
  <2>1. CASE n # m /\ k # m
    BY <1>1, <2>1 DEF SeenTables, SeenOther, MatchOf
  <2>2. CASE n # m /\ k = m
    BY <1>1, <2>2 DEF SeenTables, SeenOther, MatchOf, At
  <2>3. CASE n = m /\ k # m
    BY <1>1, <2>3 DEF SeenTables, SeenOther, MatchOf
  <2>4. CASE n = m /\ k = m
    BY <2>4 DEF SeenOther
  <2> QED BY <2>1, <2>2, <2>3, <2>4
<1> QED BY <1>2, <1>3, <1>4 DEF SeenTables, SeenFresh, SeenRoutes, SeenOther

\* A handler that skips the reload has seen the runner's table: it is the disk's, and no
\* refresh is under way.
LEMMA SeenTablesCurrent ==
  ASSUME RoutingInv, SeenNow, SeenTables, NEW m \in Messages, Step(m), mark = stamp,
         UNCHANGED runner, msg'[m].pc = "expect"
  PROVE  SeenTables'
<1>1. seen' = seen /\ \A n \in Messages : msg'[n].user = msg[n].user /\ (n # m => msg'[n] = msg[n])
  BY StepSees, StepLocal DEF RoutingInv
<1>2. MatchOf(routes, m) \in seen[m]
  BY StepSees DEF RoutingInv, MarkedMeansFresh, SeenNow
<1>3. \A n \in Messages : ~Refreshing(n)
  BY DEF RoutingInv, Ordered, TypeOK, Handlers
<1>4. \A n \in Messages : SeenFresh(n)'
  BY <1>1 DEF SeenTables, SeenFresh, MatchOf
<1>5. \A n \in Messages : SeenRoutes(n)'
  BY <1>1, <1>2 DEF SeenTables, SeenRoutes, MatchOf, runner
<1>6. \A n, k \in Messages : SeenOther(n, k)'
  BY <1>1, <1>3 DEF SeenOther, Refreshing
<1> QED BY <1>4, <1>5, <1>6 DEF SeenTables, SeenFresh, SeenRoutes, SeenOther

\* What a refresh loads is the disk's answer to it and to all that wait for no refresh.
LEMMA SeenTablesLoad ==
  ASSUME TypeOK, SeenNow, SeenTables, NEW m \in Messages, Load(m)
  PROVE  SeenTables'
<1>1. seen' = seen /\ \A n \in Messages : msg'[n].user = msg[n].user /\ (n # m => msg'[n] = msg[n])
  BY StepSees, StepLocal DEF Step
<1>2. msg'[m].pc = "scan" /\ msg'[m].fresh = table /\ routes' = routes
  BY DEF Load, TypeOK, Handlers, runner
<1>3. Handled(m)
  BY StepSees DEF Step
<1>4. \A n \in Messages : SeenFresh(n)'
  BY <1>1, <1>2, <1>3 DEF SeenTables, SeenFresh, SeenNow, MatchOf
<1>5. \A n \in Messages : SeenRoutes(n)'
  BY <1>1, <1>2 DEF SeenTables, SeenRoutes, MatchOf
<1>6. ASSUME NEW n \in Messages, NEW k \in Messages PROVE SeenOther(n, k)'
  <2>1. CASE n = m
    BY <1>2, <2>1 DEF SeenOther
  <2>2. CASE n # m /\ k # m
    BY <1>1, <2>2 DEF SeenTables, SeenOther, MatchOf
  <2>3. CASE n # m /\ k = m
    BY <1>1, <1>2, <2>3 DEF SeenOther, SeenNow, MatchOf, Handled, Ended
  <2> QED BY <2>1, <2>2, <2>3
<1> QED BY <1>4, <1>5, <1>6 DEF SeenTables, SeenFresh, SeenRoutes, SeenOther

\* Installing the table it loaded changes the runner for all; they have all seen it.
LEMMA SeenTablesInstall ==
  ASSUME RoutingInv, SeenTables, NEW m \in Messages, PutRoutes(m)
  PROVE  SeenTables'
<1>1. seen' = seen /\ \A n \in Messages : msg'[n].user = msg[n].user /\ (n # m => msg'[n] = msg[n])
  BY StepSees, StepLocal DEF Step, RoutingInv
<1>2. msg[m].pc = "routes" /\ msg'[m].pc = "stores" /\ routes' = msg[m].fresh
  BY DEF PutRoutes, At, RoutingInv, TypeOK, Handlers
<1>3. \A n \in Messages : n # m => ~Refreshing(n)
  BY <1>2 DEF RoutingInv, Ordered, Refreshing
<1>4. \A n \in Messages : SeenFresh(n)'
  BY <1>1, <1>2 DEF SeenTables, SeenFresh, MatchOf
<1>5. ASSUME NEW n \in Messages PROVE SeenRoutes(n)'
  <2>1. CASE n = m
    BY <1>1, <1>2, <2>1 DEF SeenTables, SeenRoutes, MatchOf
  <2>2. CASE n # m
    BY <1>1, <1>2, <1>3, <2>2 DEF SeenTables, SeenRoutes, MatchOf, Refreshing
  <2> QED BY <2>1, <2>2
<1>6. ASSUME NEW n \in Messages, NEW k \in Messages PROVE SeenOther(n, k)'
  BY <1>1, <1>2, <1>3 DEF SeenOther, Refreshing
<1> QED BY <1>4, <1>5, <1>6 DEF SeenTables, SeenFresh, SeenRoutes, SeenOther

LEMMA SeenTablesStep == RoutingInv /\ SeenNow /\ SeenTables /\ [Next]_vars => SeenTables'
<1> SUFFICES ASSUME RoutingInv, SeenNow, SeenTables, Next PROVE SeenTables'
  BY DEF vars, disk, runner, SeenTables, MatchOf
<1>1. TypeOK
  BY DEF RoutingInv
<1>2. CASE Write
  <2>1. msg' = msg /\ routes' = routes /\ \A m \in Messages : seen[m] \subseteq seen'[m]
    BY <1>1, <1>2, WriteSees, WriteChanges DEF runner
  <2> QED BY <2>1 DEF SeenTables, MatchOf
<1>3. ASSUME NEW m \in Messages, Step(m) \/ Fail(m) PROVE SeenTables'
  <2>1. CASE Check(m)
    <3>1. CASE mark = stamp /\ msg'[m].pc = "expect"
      BY <1>1, <2>1, <3>1, StepPc, SeenTablesCurrent DEF Step
    <3>2. CASE msg'[m].pc # "expect"
      <4>1. msg'[m].pc = "enter" /\ routes' = routes
        BY <1>1, <2>1, <3>2, StepPc DEF runner
      <4> QED BY <1>1, <1>3, <4>1, SeenTablesKept
    <3>3. mark = stamp \/ msg'[m].pc # "expect"
      BY <1>1, <2>1 DEF Check, Goto, TypeOK, Handlers
    <3> QED BY <3>1, <3>2, <3>3
  <2>2. CASE Enter(m)
    <3>1. CASE mark = stamp
      BY <1>1, <2>2, <3>1, StepPc, SeenTablesCurrent DEF Step
    <3>2. CASE mark # stamp
      <4>1. msg'[m].pc = "load" /\ routes' = routes
        BY <1>1, <2>2, <3>2, StepPc DEF runner
      <4> QED BY <1>1, <1>3, <4>1, SeenTablesKept
    <3> QED BY <3>1, <3>2
  <2>3. CASE Load(m)
    BY <1>1, <2>3, SeenTablesLoad
  <2>4. CASE Scan(m)
    <3>1. At(m, "scan") /\ msg'[m].pc = "routes" /\ msg'[m].fresh = msg[m].fresh /\ routes' = routes
      BY <1>1, <2>4 DEF Scan, TypeOK, Handlers, runner
    <3> QED BY <1>1, <1>3, <3>1, SeenTablesKept
  <2>5. CASE PutRoutes(m)
    BY <2>5, SeenTablesInstall
  <2>6. CASE PutStores(m)
    <3>1. At(m, "stores") /\ msg'[m].pc = "mark" /\ routes' = routes
      BY <1>1, <2>6 DEF PutStores, TypeOK, Handlers
    <3> QED BY <1>1, <1>3, <3>1, SeenTablesKept DEF At
  <2>7. CASE PutMark(m)
    <3>1. At(m, "mark") /\ msg'[m].pc = "expect" /\ routes' = routes
      BY <1>1, <2>7 DEF PutMark, Goto, TypeOK, Handlers
    <3>2. \A n \in Messages : n # m => msg[n].pc \notin {"scan", "routes"}
      BY <3>1 DEF RoutingInv, Ordered, Refreshing, At
    <3> QED BY <1>1, <1>3, <3>1, <3>2, SeenTablesKept DEF At
  <2>8. CASE Expect(m)
    <3>1. At(m, "expect") /\ msg'[m].pc = "resolve" /\ routes' = routes
      BY <1>1, <2>8, StepPc DEF Expect, runner
    <3> QED BY <1>1, <1>3, <3>1, SeenTablesKept DEF At
  <2>9. CASE Resolve(m) \/ Fail(m)
    <3>1. msg'[m].pc \in Ended /\ routes' = routes
      BY <1>1, <2>9 DEF Resolve, Fail, Handler, Ended, TypeOK, Handlers, runner
    <3> QED BY <1>1, <1>3, <3>1, SeenTablesKept DEF Ended
  <2> QED BY <1>3, <2>1, <2>2, <2>3, <2>4, <2>5, <2>6, <2>7, <2>8, <2>9 DEF Step
<1>4. ASSUME NEW m \in Messages, NEW u \in Users, Arrive(m, u) PROVE SeenTables'
  <2>1. /\ msg'[m].pc = "check" /\ routes' = routes
        /\ \A n \in Messages : n # m => msg'[n] = msg[n] /\ seen'[n] = seen[n]
    <3>1. msg'[m] = Handler("check", u, FALSE) /\ UNCHANGED runner
      BY <1>1, <1>4, ArriveSees
    <3>2. msg'[m].pc = "check" /\ routes' = routes
      BY <3>1 DEF Handler, runner
    <3>3. \A n \in Messages : n # m => seen'[n] = seen[n]
      BY <1>1, <1>4, ArriveSees
    <3>4. \A n \in Messages : n # m => msg'[n] = msg[n]
      BY <1>1, <1>4, StepLocal
    <3> QED BY <3>2, <3>3, <3>4
  <2>2. \A n \in Messages : SeenFresh(n)' /\ SeenRoutes(n)'
    BY <2>1 DEF SeenTables, SeenFresh, SeenRoutes, MatchOf
  <2>3. \A n, k \in Messages : SeenOther(n, k)'
    BY <2>1 DEF SeenTables, SeenOther, MatchOf
  <2> QED BY <2>2, <2>3 DEF SeenTables, SeenFresh, SeenRoutes, SeenOther
<1> QED BY <1>2, <1>3, <1>4 DEF Next

\* What a message has seen and where it has got to, while another or the disk moves.
LEMMA OthersKeep ==
  ASSUME TypeOK, NEW m \in Messages, Next,
         \A u \in Users : ~Arrive(m, u), ~Step(m), ~Fail(m)
  PROVE  msg'[m] = msg[m] /\ seen[m] \subseteq seen'[m]
<1>1. CASE Write
  BY <1>1, WriteSees, WriteChanges
<1>2. ASSUME NEW k \in Messages, Step(k) \/ Fail(k) \/ \E u \in Users : Arrive(k, u)
      PROVE  msg'[m] = msg[m] /\ seen[m] \subseteq seen'[m]
  <2>1. k # m
    BY <1>2
  <2>2. msg'[m] = msg[m]
    BY <1>2, <2>1, StepLocal
  <2>3. seen'[m] = seen[m]
    BY <1>2, <2>1, StepSees, ArriveSees
  <2> QED BY <2>2, <2>3
<1> QED BY <1>1, <1>2 DEF Next

\* Delivery and rejection happen in Resolve; a rejection also in Fail.
LEMMA EndsInResolve ==
  ASSUME TypeOK, NEW m \in Messages, Step(m), msg'[m].pc \in Ended \cup {"resolve"}
  PROVE  Resolve(m) \/ Expect(m)
<1>1. ~Check(m) /\ ~Enter(m)
  BY StepPc DEF Ended
<1>2. ~Load(m) /\ ~Scan(m) /\ ~PutRoutes(m) /\ ~PutStores(m)
  BY StepPc DEF Ended
<1>3. ~PutMark(m)
  BY DEF PutMark, Goto, TypeOK, Handlers, Ended
<1> QED BY <1>1, <1>2, <1>3 DEF Step

\* The Profile a message expects is one it has seen, and so is the default one when its
\* chat has no route.
LEMMA SeenExpectedStep ==
  TypeOK /\ SeenTables /\ SeenExpected /\ [Next]_vars => SeenExpected'
<1> SUFFICES ASSUME TypeOK, SeenTables, SeenExpected, Next, NEW m \in Messages, At(m, "resolve")'
             PROVE  IF msg'[m].expected = "none" THEN "default" \in seen'[m]
                                                 ELSE msg'[m].expected \in seen'[m]
  BY DEF vars, SeenExpected, At
<1>1. CASE Step(m)
  <2>1. Expect(m)
    <3>1. ~Resolve(m)
      BY DEF Resolve, At, TypeOK, Handlers
    <3> QED BY <1>1, <3>1, EndsInResolve DEF At
  <2>2. PICK p : p = Match(routes, msg[m].user, "none")
    OBVIOUS
  <2>3. msg'[m].expected = p /\ seen' = seen /\ msg[m].pc = "expect"
    <3>1. msg' = [msg EXCEPT ![m].pc = "resolve", ![m].expected = p]
      BY <2>1, <2>2 DEF Expect
    <3> QED BY <2>1, <3>1 DEF Expect, At, TypeOK, Handlers
  <2>4. Match(routes, msg[m].user, "default") \in seen[m]
    BY <2>3 DEF SeenTables, MatchOf
  <2>5. \/ p = "none" /\ Match(routes, msg[m].user, "default") = "default"
        \/ p = Match(routes, msg[m].user, "default") /\ p \in Profiles
    BY <2>2, MatchSame DEF TypeOK
  <2> QED BY <2>3, <2>4, <2>5, Bounds
<1>2. CASE Fail(m) \/ \E u \in Users : Arrive(m, u)
  <2>1. msg'[m].pc # "resolve"
    BY <1>2 DEF Fail, Arrive, Handler, TypeOK
  <2> QED BY <2>1 DEF At
<1>3. CASE ~Step(m) /\ ~Fail(m) /\ \A u \in Users : ~Arrive(m, u)
  BY <1>3, OthersKeep DEF SeenExpected, At
<1> QED BY <1>1, <1>2, <1>3

\* Where a message is delivered it has seen the disk send it.
LEMMA DeliveredStep ==
  TypeOK /\ SeenTables /\ SeenExpected /\ DeliveredWhereBound /\ [Next]_vars => DeliveredWhereBound'
<1> SUFFICES ASSUME TypeOK, SeenTables, SeenExpected, DeliveredWhereBound, Next,
                    NEW m \in Messages, At(m, "delivered")'
             PROVE  msg'[m].to \in seen'[m]
  BY DEF vars, DeliveredWhereBound, At
<1>1. CASE Step(m)
  <2>1. Resolve(m)
    <3>1. ~Expect(m)
      BY StepPc DEF At
    <3> QED BY <1>1, <3>1, EndsInResolve DEF At, Ended
  <2>2. PICK to : to = Routed(msg[m].user)
    OBVIOUS
  <2>3. /\ msg'[m].to = to /\ msg[m].expected \in {"none", to} /\ msg[m].pc = "resolve"
        /\ seen' = seen
    BY <2>1, <2>2 DEF Resolve, At, TypeOK, Handlers
  <2>4. CASE msg[m].expected = "none"
    <3>1. "default" \in seen[m] /\ MatchOf(routes, m) \in seen[m]
      BY <2>3, <2>4 DEF SeenExpected, SeenTables, At
    <3>2. to \in {"default", MatchOf(routes, m)}
      BY <2>2 DEF Routed, MatchOf
    <3> QED BY <2>3, <3>1, <3>2
  <2>5. CASE msg[m].expected # "none"
    BY <2>3, <2>5 DEF SeenExpected, At
  <2> QED BY <2>4, <2>5
<1>2. CASE Fail(m) \/ \E u \in Users : Arrive(m, u)
  <2>1. msg'[m].pc # "delivered"
    BY <1>2 DEF Fail, Arrive, Handler, TypeOK
  <2> QED BY <2>1 DEF At
<1>3. CASE ~Step(m) /\ ~Fail(m) /\ \A u \in Users : ~Arrive(m, u)
  BY <1>3, OthersKeep DEF DeliveredWhereBound, At
<1> QED BY <1>1, <1>2, <1>3

\* Hermes resolves another Profile than the expected one for one of two reasons: the runner's
\* table was replaced, or the home is gone and with it, before, the route on disk.
LEMMA RejectedStep ==
  TypeOK /\ HomesFirst /\ SeenNow /\ SeenTables /\ SeenExpected /\ RejectedForCause /\ [Next]_vars
    => RejectedForCause'
<1> SUFFICES ASSUME TypeOK, HomesFirst, SeenNow, SeenTables, SeenExpected, RejectedForCause, Next,
                    NEW m \in Messages, At(m, "rejected")'
             PROVE  msg'[m].failed \/ \E a, b \in seen'[m] : a # b
  BY DEF vars, RejectedForCause, At
<1>1. CASE Step(m)
  <2>1. Resolve(m)
    <3>1. ~Expect(m)
      BY StepPc DEF At
    <3> QED BY <1>1, <3>1, EndsInResolve DEF At, Ended
  <2>2. PICK to : to = Routed(msg[m].user)
    OBVIOUS
  <2>3. PICK p : p = msg[m].expected
    OBVIOUS
  <2>4. p # "none" /\ p # to /\ msg[m].pc = "resolve" /\ seen' = seen
    BY <2>1, <2>2, <2>3 DEF Resolve, At, TypeOK, Handlers
  <2>5. p \in seen[m] /\ MatchOf(routes, m) \in seen[m]
    BY <2>3, <2>4 DEF SeenExpected, SeenTables, At
  <2>6. CASE MatchOf(routes, m) # p
    BY <2>4, <2>5, <2>6
  <2>7. CASE MatchOf(routes, m) = p
    <3>1. p \notin homes
      BY <2>2, <2>4, <2>7 DEF Routed, MatchOf
    <3>2. p \in Profiles
      BY <2>3, <2>4 DEF TypeOK, Handlers
    <3>3. MatchOf(table, m) # p
      <4>1. \/ MatchOf(table, m) = "default"
            \/ \E r \in table : MatchOf(table, m) = r.prof
        BY MatchValue DEF MatchOf, TypeOK
      <4> QED BY <3>1, <3>2, <4>1, Bounds DEF HomesFirst
    <3>4. MatchOf(table, m) \in seen[m]
      BY <2>4 DEF SeenNow, Handled, Ended
    <3> QED BY <2>4, <2>5, <3>3, <3>4
  <2> QED BY <2>6, <2>7
<1>2. CASE Fail(m)
  BY <1>2 DEF Fail, Handler, TypeOK
<1>3. CASE \E u \in Users : Arrive(m, u)
  <2>1. msg'[m].pc # "rejected"
    BY <1>3 DEF Arrive, Handler, TypeOK
  <2> QED BY <2>1 DEF At
<1>4. CASE ~Step(m) /\ ~Fail(m) /\ \A u \in Users : ~Arrive(m, u)
  BY <1>4, OthersKeep DEF RejectedForCause, At
<1> QED BY <1>1, <1>2, <1>3, <1>4

LEMMA DeliveryAlways == Spec => []DeliveryInv
<1>1. Init => HomesFirst /\ SeenNow /\ SeenTables /\ SeenExpected /\ DeliveredWhereBound /\ RejectedForCause
  <2> SUFFICES ASSUME Init
               PROVE  HomesFirst /\ SeenNow /\ SeenTables /\ SeenExpected /\ DeliveredWhereBound /\ RejectedForCause
    OBVIOUS
  <2>1. \A m \in Messages : msg[m].pc = "idle"
    BY DEF Init, Handler
  <2>2. table = {}
    BY DEF Init, Table!Init
  <2> QED BY <2>1, <2>2 DEF HomesFirst, SeenNow, SeenTables, SeenExpected, DeliveredWhereBound,
                            RejectedForCause, At, Handled
<1> DEFINE Rest == HomesFirst /\ SeenNow /\ SeenTables /\ SeenExpected /\ DeliveredWhereBound /\ RejectedForCause
<1>2. RoutingInv /\ Rest /\ [Next]_vars => Rest'
  BY HomesFirstStep, SeenNowStep, SeenTablesStep, SeenExpectedStep, DeliveredStep, RejectedStep
  DEF RoutingInv
<1> HIDE DEF Rest
<1>3. DeliveryInv <=> RoutingInv /\ Rest
  BY DEF DeliveryInv, Rest
<1>4. Init => Rest
  BY <1>1 DEF Rest
<1> QED BY <1>2, <1>3, <1>4, RoutingAlways, PTL DEF Spec

\* A message is never delivered by a route that was already replaced when it arrived, nor to
\* the default Profile while its chat is bound, however reloads and writes interleave.
THEOREM DeliveredByTheTable == Spec => []DeliveredWhereBound
BY DeliveryAlways, PTL DEF DeliveryInv

\* An employee whose binding stands still is never turned away but for an error of the reload.
THEOREM RejectionsHaveACause == Spec => []RejectedForCause
BY DeliveryAlways, PTL DEF DeliveryInv
=============================================================================
