--------------------------- MODULE ProfileRouting ---------------------------
(***************************************************************************)
(* How an inbound WeChat message finds its Profile while the provisioner   *)
(* rewrites config.yaml and creates Profile homes: the plugin's wrapper of *)
(* GatewayRunner._profile_name_for_source compares a marker of the files   *)
(* with the one it last installed, reloads routes and pairing stores under *)
(* a lock when they differ, and then confirms that Hermes resolves the     *)
(* message to the Profile its route names.  The table on disk is           *)
(* RouteTable's; a stat, a load and a scan of the homes are one read each, *)
(* and a write may fall between any two of them.                           *)
(***************************************************************************)
EXTENDS Naturals

CONSTANTS
  Profiles, Users,
  Messages,      \* inbound messages, each handled by a thread of its own
  MaxChanges,    \* bound: writes to config.yaml and to the directory of homes
  MaxFaults      \* bound: refresh steps that raise

ASSUME Bounds ==
  {MaxChanges, MaxFaults} \subseteq Nat /\ {"default", "none"} \cap Profiles = {}

VARIABLES
  table,     \* disk: gateway.profile_routes in config.yaml
  homes,     \* disk: Profiles whose home exists
  stamp,     \* disk: what _profile_runtime_marker returns, new after every write
  routes,    \* runner.config.profile_routes
  stores,    \* keys of runner.pairing_stores
  mark,      \* the marker installed last (PROFILE_RUNTIME_STATE_ATTR)
  msg,       \* each message's control point and the locals of its handler
  seen,      \* history: where the disk has sent the message's chat since it arrived
  faults

disk == <<table, homes, stamp>>
runner == <<routes, stores, mark>>
vars == <<disk, runner, msg, seen, faults>>

Table == INSTANCE RouteTable

Targets == Profiles \cup {"default"}

\* A handler that holds nothing it has read.
Handler(pc, u, failed) ==
  [pc |-> pc, user |-> u, mark |-> 0, fresh |-> {}, served |-> {}, expected |-> "none",
   to |-> "none", failed |-> failed]

Init ==
  /\ Table!Init /\ homes = {} /\ stamp = 1
  /\ routes = {} /\ stores = {"default"} /\ mark = 0
  /\ msg = [m \in Messages |-> Handler("idle", "none", FALSE)]
  /\ seen = [m \in Messages |-> {}]
  /\ faults = 0

\* The Profile a table names for a user's chat, or the given one when it has no route.
Match(rs, u, other) ==
  IF \E r \in rs : r.user = u THEN (CHOOSE r \in rs : r.user = u).prof ELSE other

At(m, pc) == msg[m].pc = pc
Goto(m, pc) == msg' = [msg EXCEPT ![m].pc = pc]
Ended == {"delivered", "rejected"}
Handled(m) == msg[m].pc \notin Ended \cup {"idle"}

\* (mutant) a refresh that raises does not release the lock
Refreshing_Leaks(m) == msg[m].pc \in {"load", "scan", "routes", "stores", "mark"} \/ msg[m].failed

Refreshing(m) == msg[m].pc \in {"load", "scan", "routes", "stores", "mark"}

\* (mutant) the refresh takes no lock
LockFree_None == TRUE

LockFree == \A m \in Messages : ~Refreshing(m)     \* _PROFILE_RUNTIME_LOCK

-----------------------------------------------------------------------------
(* The provisioner writes the files. *)

Changed ==
  /\ stamp <= MaxChanges /\ stamp' = stamp + 1
  /\ seen' = [m \in Messages |->
                IF Handled(m) THEN seen[m] \cup {Match(table', msg[m].user, "default")} ELSE seen[m]]
  /\ UNCHANGED <<runner, msg, faults>>

\* A Profile's home is created before its route is written ...
NewHome(p) == p \notin homes /\ homes' = homes \cup {p} /\ UNCHANGED table /\ Changed

Bind(p, u) ==
  p \in homes /\ Table!Bind(p, u) /\ table' # table /\ UNCHANGED homes /\ Changed

Unbind(p, u) == Table!Unbind(p, u) /\ table' # table /\ UNCHANGED homes /\ Changed

\* ... and its removal is asked for after the route is gone.
RemoveHome(p) ==
  /\ p \in homes /\ \A r \in table : r.prof # p
  /\ homes' = homes \ {p} /\ UNCHANGED table /\ Changed

-----------------------------------------------------------------------------
(* _refresh_profile_runtime *)

Arrive(m, u) ==
  /\ At(m, "idle")
  /\ msg' = [msg EXCEPT ![m] = Handler("check", u, FALSE)]
  /\ seen' = [seen EXCEPT ![m] = {Match(table, u, "default")}]
  /\ UNCHANGED <<disk, runner, faults>>

\* The marker is compared first without the lock.
Check(m) ==
  /\ At(m, "check") /\ Goto(m, IF mark = stamp THEN "expect" ELSE "enter")
  /\ UNCHANGED <<disk, runner, seen, faults>>

\* It is read again under the lock, before what it stands for is loaded.
Enter(m) ==
  /\ At(m, "enter") /\ LockFree
  /\ \/ mark = stamp /\ Goto(m, "expect")
     \/ mark # stamp /\ msg' = [msg EXCEPT ![m].pc = "load", ![m].mark = stamp]
  /\ UNCHANGED <<disk, runner, seen, faults>>

Load(m) ==
  /\ At(m, "load") /\ msg' = [msg EXCEPT ![m].pc = "scan", ![m].fresh = table]
  /\ UNCHANGED <<disk, runner, seen, faults>>

Scan(m) ==
  /\ At(m, "scan") /\ msg' = [msg EXCEPT ![m].pc = "routes", ![m].served = homes]
  /\ UNCHANGED <<disk, runner, seen, faults>>

PutRoutes(m) ==
  /\ At(m, "routes") /\ routes' = msg[m].fresh
  /\ msg' = [msg EXCEPT ![m].pc = "stores", ![m].fresh = {}]
  /\ UNCHANGED <<disk, stores, mark, seen, faults>>

\* (mutant) the stores of newly served Profiles are not added
PutStores_OnlyOld(m) ==
  /\ At(m, "stores") /\ msg' = [msg EXCEPT ![m].pc = "mark", ![m].served = {}]
  /\ UNCHANGED <<disk, runner, seen, faults>>

PutStores(m) ==
  /\ At(m, "stores") /\ stores' = stores \cup msg[m].served
  /\ msg' = [msg EXCEPT ![m].pc = "mark", ![m].served = {}]
  /\ UNCHANGED <<disk, routes, mark, seen, faults>>

\* (mutant) the marker is read after the load it should stand for
PutMark_ReadLate(m) ==
  /\ At(m, "mark") /\ mark' = stamp /\ Goto(m, "expect")
  /\ UNCHANGED <<disk, routes, stores, seen, faults>>

\* The served Profiles are reported, then the marker is installed.
PutMark(m) ==
  /\ At(m, "mark") /\ mark' = msg[m].mark /\ Goto(m, "expect")
  /\ UNCHANGED <<disk, routes, stores, seen, faults>>

\* The load, the scan, the status report or the match raises: no route is confirmed.
Fail(m) ==
  /\ msg[m].pc \in {"load", "scan", "mark", "expect"} /\ faults < MaxFaults /\ faults' = faults + 1
  /\ msg' = [msg EXCEPT ![m] = Handler("rejected", msg[m].user, TRUE)]
  /\ UNCHANGED <<disk, runner, seen>>

-----------------------------------------------------------------------------
(* _profile_name_for_source after the refresh *)

\* (mutant) a chat without a route is taken to be routed to the default Profile
Expect_DefaultRoute(m) ==
  /\ At(m, "expect")
  /\ msg' = [msg EXCEPT ![m].pc = "resolve", ![m].expected = Match(routes, msg[m].user, "default")]
  /\ UNCHANGED <<disk, runner, seen, faults>>

Expect(m) ==
  /\ At(m, "expect")
  /\ msg' = [msg EXCEPT ![m].pc = "resolve", ![m].expected = Match(routes, msg[m].user, "none")]
  /\ UNCHANGED <<disk, runner, seen, faults>>

\* Hermes' own resolution: the default Profile stands in for a home that is missing.
Routed(u) ==
  LET p == Match(routes, u, "default") IN IF p \in homes THEN p ELSE "default"

\* (mutant) what Hermes resolves is not compared with the route
Resolve_Unchecked(m) ==
  /\ At(m, "resolve")
  /\ msg' = [msg EXCEPT ![m].to = Routed(msg[m].user), ![m].pc = "delivered"]
  /\ UNCHANGED <<disk, runner, seen, faults>>

Resolve(m) ==
  /\ At(m, "resolve")
  /\ LET to == Routed(msg[m].user)
         confirmed == msg[m].expected \in {"none", to}
     IN msg' = [msg EXCEPT ![m].to = IF confirmed THEN to ELSE "none",
                           ![m].pc = IF confirmed THEN "delivered" ELSE "rejected"]
  /\ UNCHANGED <<disk, runner, seen, faults>>

-----------------------------------------------------------------------------
Write == \E p \in Profiles :
  NewHome(p) \/ RemoveHome(p) \/ \E u \in Users : Bind(p, u) \/ Unbind(p, u)

Step(m) ==
  \/ Check(m) \/ Enter(m) \/ Load(m) \/ Scan(m) \/ PutRoutes(m) \/ PutStores(m) \/ PutMark(m)
  \/ Expect(m) \/ Resolve(m)

Next == Write \/ \E m \in Messages : Step(m) \/ Fail(m) \/ \E u \in Users : Arrive(m, u)

Spec == Init /\ [][Next]_vars

\* A handler goes on while it can; nothing makes the provisioner write or a step raise.
FairSpec == Spec /\ \A m \in Messages : WF_vars(Step(m))

-----------------------------------------------------------------------------
RouteOf == [prof : Profiles, user : Users]
PCs == {"idle", "check", "enter", "load", "scan", "routes", "stores", "mark", "expect",
        "resolve"} \cup Ended
Handlers == [pc : PCs, user : Users \cup {"none"}, mark : 0 .. MaxChanges + 1,
             fresh : SUBSET RouteOf, served : SUBSET Profiles,
             expected : Profiles \cup {"none"}, to : Targets \cup {"none"}, failed : BOOLEAN]

TypeOK ==
  /\ table \subseteq RouteOf /\ homes \subseteq Profiles /\ stamp \in 1 .. MaxChanges + 1
  /\ routes \subseteq RouteOf /\ stores \subseteq Targets /\ mark \in 0 .. MaxChanges + 1
  /\ msg \in [Messages -> Handlers]
  /\ seen \in [Messages -> SUBSET Targets]
  /\ faults \in 0 .. MaxFaults

\* A runner whose installed marker is the one on disk has the routes of the disk, and a
\* pairing store for every Profile home: a message that skips the reload loses nothing,
\* whatever was written while a reload was under way (_refresh_profile_runtime).
MarkedMeansFresh == mark = stamp => routes = table /\ homes \subseteq stores

\* A message is delivered only where config.yaml has sent its chat at some moment since the
\* message arrived: never by a route already replaced then, never to the default Profile
\* while the chat is bound (_profile_name_for_source; RUNTIME.md:15-19).
DeliveredWhereBound == \A m \in Messages : At(m, "delivered") => msg[m].to \in seen[m]

\* A message is turned away only when its own refresh raised, or when its chat was routed
\* elsewhere while it was handled: an employee whose binding stands still is never rejected.
RejectedForCause ==
  \A m \in Messages : At(m, "rejected") => msg[m].failed \/ \E a, b \in seen[m] : a # b

\* Every message that arrives is delivered or rejected: no handler waits forever for the
\* lock of another whose refresh raised.
MessagesEnd == \A m \in Messages : (~At(m, "idle")) ~> msg[m].pc \in Ended
=============================================================================
