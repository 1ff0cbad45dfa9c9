------------------------------- MODULE QrLogin -------------------------------
(***************************************************************************)
(* The QR login of the WeChat provisioner: browser requests that start and *)
(* poll login sessions on one event loop, and the installation tasks that  *)
(* write a confirmed channel into the employee's Profile and restart the   *)
(* Gateway.  Between two awaits a request runs alone, so an action is what *)
(* a request or a task does from one await to the next; the side effects   *)
(* of an installation, made in a thread, are one action each.              *)
(***************************************************************************)
EXTENDS Integers, FiniteSets

CONSTANTS
  Requests,     \* browser requests that may be in flight together
  Employees,    \* employees, each with a Profile of its own
  Ids,          \* login sessions ever created (bound)
  Accounts,     \* WeChat channel accounts an employee may confirm with
  DefaultAccount, \* the account of the default Profile, or "none"
  Capacity,     \* MAX_ACTIVE_QR_SESSIONS
  TTL, Grace,   \* lifetime of a session, and how long it is kept after its end
  MaxTime,      \* bound: the last tick of the clock
  MaxFaults,    \* bound: environment writes and restarts that fail
  MaxCrashes    \* bound: deaths of the provisioner process

ASSUME Bounds ==
  /\ {Capacity, TTL, Grace, MaxTime, MaxFaults, MaxCrashes} \subseteq Nat
  /\ IsFiniteSet(Ids) /\ IsFiniteSet(Requests)
  /\ DefaultAccount \in Accounts \cup {"none"} /\ "none" \notin Accounts \cup Employees \cup Ids
  /\ "default" \notin Employees

VARIABLES
  sess,    \* _sessions: employee, status and expiry; "none" unused, "gone" removed
  req,     \* each request's await point, employee and session
  inst,    \* each session's installation task: control point, account, previous values, result;
           \* history: what the Profile held and the Gateway served when the login was
           \* confirmed, and whether the undoing raised
  env,     \* the channel in each Profile's .env: account and token, written one by one
  served,  \* the channels the running Gateway read at its last start
  now, faults, crashes

vars == <<sess, req, inst, env, served, now, faults, crashes>>
bounds == <<now, faults, crashes>>

Profiles == Employees \cup {"default"}
NoChannel == [acct |-> "none", tok |-> "none"]
NoSession == [status |-> "none", emp |-> "none", ends |-> 0]
Idle == [pc |-> "idle", emp |-> "none", id |-> "none"]
NoTask == [pc |-> "none", acct |-> "none", prev |-> NoChannel, ok |-> FALSE,
           foundEnv |-> NoChannel, foundServed |-> NoChannel, torn |-> FALSE]

Open == {"waiting", "scanned"}
Active == Open \cup {"connecting"}
Ended == {"connected", "expired", "failed"}

\* _prune, at the start of every critical section
Pruned ==
  [i \in Ids |->
     LET s == sess[i]
         t == IF s.status \in Open /\ now >= s.ends THEN [s EXCEPT !.status = "expired"] ELSE s
     IN IF t.status \in Ended /\ now >= t.ends + Grace THEN [t EXCEPT !.status = "gone"] ELSE t]

Await(r, pc, e, i) == req' = [req EXCEPT ![r] = [pc |-> pc, emp |-> e, id |-> i]]
End(r) == req' = [req EXCEPT ![r] = Idle]
Starting == {r \in Requests : req[r].pc \in {"profile", "qr"}}

-----------------------------------------------------------------------------
(* start                                                                       *)

\* (mutant) the employee's start lock is not taken
StartLock_None(r, e) == req[r] = Idle

\* start_lock of the employee
StartLock(r, e) == req[r] = Idle /\ \A v \in Starting : req[v].emp # e

\* (mutant) the starts that wait for a QR code are not counted
Full_CreatedOnly(s) == Cardinality({i \in Ids : s[i].status \in Active}) >= Capacity

\* active_count + len(_pending_starts)
Full(s) ==
  Cardinality({i \in Ids : s[i].status \in Active}) + Cardinality({req[v].emp : v \in Starting})
    >= Capacity

Reusable(s, e) == \E i \in Ids : s[i].emp = e /\ s[i].status \in Active \cup {"connected"}

StartBegin(r, e) ==
  /\ StartLock(r, e)
  /\ sess' = Pruned
  /\ IF Reusable(Pruned, e) \/ Full(Pruned) THEN UNCHANGED req ELSE Await(r, "profile", e, "none")
  /\ UNCHANGED <<inst, env, served, bounds>>

\* ensure_employee_profile returns, the backend is asked for a QR code
StartProfile(r) ==
  /\ req[r].pc = "profile" /\ Await(r, "qr", req[r].emp, "none")
  /\ UNCHANGED <<sess, inst, env, served, bounds>>

\* Ids not drawn yet are alike, so that it does not matter which of them is next.
NextId == CHOOSE i \in Ids : sess[i].status = "none"

StartCreated(r) ==
  /\ req[r].pc = "qr" /\ now + TTL + Grace <= MaxTime      \* bound: every lifetime can run out
  /\ \E i \in Ids :
       /\ sess[i].status = "none" /\ i = NextId
       /\ sess' = [sess EXCEPT ![i] = [status |-> "waiting", emp |-> req[r].emp, ends |-> now + TTL]]
  /\ End(r)
  /\ UNCHANGED <<inst, env, served, bounds>>

-----------------------------------------------------------------------------
(* poll                                                                        *)

\* The session is looked up; the request then waits for its poll_lock.
PollBegin(r, i) ==
  /\ req[r] = Idle
  /\ sess' = Pruned
  /\ IF Pruned[i].status \in {"none", "gone"} THEN UNCHANGED req
     ELSE Await(r, "queued", sess[i].emp, i)
  /\ UNCHANGED <<inst, env, served, bounds>>

PollEnter(r) ==
  /\ req[r].pc = "queued"
  /\ \A v \in Requests : ~(req[v].pc \in {"polling", "installing"} /\ req[v].id = req[r].id)
  /\ sess' = Pruned
  /\ IF Pruned[req[r].id].status \in Open THEN Await(r, "polling", req[r].emp, req[r].id) ELSE End(r)
  /\ UNCHANGED <<inst, env, served, bounds>>

\* (mutant) the status read before the await is trusted
StillOpen_BeforeAwait(i) == sess[i].status # "none"

\* the status is read again after the await
StillOpen(i) == Pruned[i].status \in Open

\* (mutant) a "waiting" answer overwrites "scanned"
Answered_Overwrites(old, answer) == answer

Answered(old, answer) == IF answer = "waiting" THEN old ELSE answer

Prof(i) == sess[i].emp

\* the installation task of a confirmed login
NewTask(i, a) == [NoTask EXCEPT !.pc = "queued", !.acct = a,
                                !.foundEnv = env[Prof(i)], !.foundServed = served[Prof(i)]]

\* Weixin answers, in any order: a timed-out long poll counts as "waiting".  A confirmed
\* login starts the installation task.
PollAnswer(r) ==
  /\ req[r].pc = "polling"
  /\ LET i == req[r].id
         Set(status) == sess' = [Pruned EXCEPT ![i].status = status]
     IN \/ ~StillOpen(i) /\ sess' = Pruned /\ End(r) /\ UNCHANGED inst
        \/ /\ StillOpen(i)
           /\ \E answer \in {"waiting", "scanned", "expired"} :
                Set(Answered(Pruned[i].status, answer))
           /\ End(r) /\ UNCHANGED inst
        \/ /\ StillOpen(i) /\ Set("connecting") /\ Await(r, "installing", req[r].emp, i)
           /\ \E a \in Accounts : inst' = [inst EXCEPT ![i] = NewTask(i, a)]
  /\ UNCHANGED <<env, served, bounds>>

PollEnd(r) ==
  /\ req[r].pc = "installing" /\ inst[req[r].id].pc = "none"
  /\ End(r)
  /\ UNCHANGED <<sess, inst, env, served, bounds>>

\* (mutant) the installation task is awaited without asyncio.shield
Leave_Unshielded(r) ==
  /\ req[r] # Idle /\ End(r)
  /\ inst' = IF req[r].pc = "installing" THEN [inst EXCEPT ![req[r].id] = NoTask] ELSE inst
  /\ UNCHANGED <<sess, env, served, bounds>>

\* The call a request awaits raises, or the request is cancelled: its locks and its
\* pending start are released, the shielded installation goes on.
Leave(r) ==
  /\ req[r] # Idle /\ End(r)
  /\ UNCHANGED <<sess, inst, env, served, bounds>>

-----------------------------------------------------------------------------
(* _finish_install and install_profile_weixin_credentials                      *)

Locked == {"account", "token", "restart", "undo account", "undo token", "undo restart"}
Go(i, pc) == inst' = [inst EXCEPT ![i].pc = pc]
Fails == faults < MaxFaults /\ faults' = faults + 1

\* (mutant) two installations run together
InstallLock_None(i) == TRUE

\* _install_lock
InstallLock(i) == \A j \in Ids : inst[j].pc \notin Locked

\* _ensure_weixin_account_available reads every other Profile
Taken(i) == \E p \in Profiles \ {Prof(i)} : env[p].acct = inst[i].acct

InstallBegin(i) ==
  /\ inst[i].pc = "queued" /\ InstallLock(i)
  /\ IF Taken(i) THEN Go(i, "done")
     ELSE inst' = [inst EXCEPT ![i].pc = "account", ![i].prev = env[Prof(i)]]
  /\ UNCHANGED <<sess, req, env, served, bounds>>

\* _write_profile_env_values, one value at a time
InstallWrite(i) ==
  /\ \/ /\ inst[i].pc = "account" /\ Go(i, "token")
        /\ env' = [env EXCEPT ![Prof(i)].acct = inst[i].acct]
     \/ /\ inst[i].pc = "token" /\ Go(i, "restart")
        /\ env' = [env EXCEPT ![Prof(i)].tok = i]
  /\ UNCHANGED <<sess, req, served, bounds>>

\* (mutant) the restart is not waited for
InstallRestart_NoWait(i) ==
  /\ inst[i].pc = "restart"
  /\ inst' = [inst EXCEPT ![i].pc = "done", ![i].ok = TRUE]
  /\ served' \in {served, env}
  /\ UNCHANGED <<sess, req, env, bounds>>

InstallRestart(i) ==
  /\ inst[i].pc = "restart"
  /\ inst' = [inst EXCEPT ![i].pc = "done", ![i].ok = TRUE]
  /\ served' = env
  /\ UNCHANGED <<sess, req, env, bounds>>

\* A write raises, or the restart fails, times out or is not confirmed in time: the
\* Gateway may have been restarted all the same.
InstallFails(i) ==
  /\ inst[i].pc \in {"account", "token", "restart"} /\ Fails /\ Go(i, "undo account")
  /\ served' \in IF inst[i].pc = "restart" THEN {served, env} ELSE {served}
  /\ UNCHANGED <<sess, req, env, now, crashes>>

\* (mutant) only the token is written back
UndoStep_TokenOnly(i) ==
  /\ \/ inst[i].pc = "undo account" /\ Go(i, "undo token") /\ UNCHANGED <<env, served>>
     \/ /\ inst[i].pc = "undo token" /\ Go(i, "undo restart")
        /\ env' = [env EXCEPT ![Prof(i)].tok = inst[i].prev.tok] /\ UNCHANGED served
     \/ inst[i].pc = "undo restart" /\ Go(i, "done") /\ served' = env /\ UNCHANGED env
  /\ UNCHANGED <<sess, req, bounds>>

\* The previous values are written back and the Gateway restarted again
UndoStep(i) ==
  /\ \/ /\ inst[i].pc = "undo account" /\ Go(i, "undo token")
        /\ env' = [env EXCEPT ![Prof(i)].acct = inst[i].prev.acct] /\ UNCHANGED served
     \/ /\ inst[i].pc = "undo token" /\ Go(i, "undo restart")
        /\ env' = [env EXCEPT ![Prof(i)].tok = inst[i].prev.tok] /\ UNCHANGED served
     \/ inst[i].pc = "undo restart" /\ Go(i, "done") /\ served' = env /\ UNCHANGED env
  /\ UNCHANGED <<sess, req, bounds>>

\* The undoing raises too, and is given up.
UndoFails(i) ==
  /\ inst[i].pc \in {"undo account", "undo token", "undo restart"} /\ Fails
  /\ inst' = [inst EXCEPT ![i].pc = "done", ![i].torn = TRUE]
  /\ served' \in IF inst[i].pc = "undo restart" THEN {served, env} ELSE {served}
  /\ UNCHANGED <<sess, req, env, now, crashes>>

\* (mutant) the session takes the backend's word for a confirmed login
InstallEnd_BackendWord(i) ==
  /\ inst[i].pc = "done"
  /\ sess' = [sess EXCEPT ![i].status = IF inst[i].ok THEN "confirmed" ELSE "failed"]
  /\ inst' = [inst EXCEPT ![i] = NoTask]
  /\ UNCHANGED <<req, env, served, bounds>>

\* The session takes the result, under _lock, after the install lock is released
InstallEnd(i) ==
  /\ inst[i].pc = "done"
  /\ sess' = [sess EXCEPT ![i].status = IF inst[i].ok THEN "connected" ELSE "failed"]
  /\ inst' = [inst EXCEPT ![i] = NoTask]
  /\ UNCHANGED <<req, env, served, bounds>>

-----------------------------------------------------------------------------
\* The process dies: sessions and tasks are memory only, the Profiles stay as they are.
Crash ==
  /\ crashes < MaxCrashes /\ crashes' = crashes + 1
  /\ sess' = [i \in Ids |-> IF sess[i].status = "none" THEN sess[i]
                            ELSE [sess[i] EXCEPT !.status = "gone"]]
  /\ req' = [r \in Requests |-> Idle] /\ inst' = [i \in Ids |-> NoTask]
  /\ UNCHANGED <<env, served, now, faults>>

Tick == now < MaxTime /\ now' = now + 1 /\ UNCHANGED <<sess, req, inst, env, served, faults, crashes>>

Init ==
  /\ sess = [i \in Ids |-> NoSession] /\ req = [r \in Requests |-> Idle]
  /\ inst = [i \in Ids |-> NoTask]
  /\ env = [p \in Profiles |-> IF p = "default" THEN [NoChannel EXCEPT !.acct = DefaultAccount]
                               ELSE NoChannel]
  /\ served = env
  /\ now = 0 /\ faults = 0 /\ crashes = 0

StartStep(r) == StartProfile(r) \/ StartCreated(r)
PollStep(r) == PollEnter(r) \/ PollAnswer(r) \/ PollEnd(r)
InstallStep(i) == InstallBegin(i) \/ InstallWrite(i) \/ InstallRestart(i) \/ UndoStep(i) \/ InstallEnd(i)

Next ==
  \/ \E r \in Requests, e \in Employees : StartBegin(r, e)
  \/ \E r \in Requests, i \in Ids : PollBegin(r, i)
  \/ \E r \in Requests : StartStep(r) \/ PollStep(r) \/ Leave(r)
  \/ \E i \in Ids : InstallStep(i) \/ InstallFails(i) \/ UndoFails(i)
  \/ Crash
  \/ Tick

Spec == Init /\ [][Next]_vars

\* The installation threads run on, and a waiting one enters _install_lock when it is free for
\* good: every session installs once.
FairSpec == Spec /\ \A i \in Ids : WF_vars(InstallStep(i))

-----------------------------------------------------------------------------
Channel == [acct : Accounts \cup {"none"}, tok : Ids \cup {"none"}]

\* Every variable has its type, and a request that polls has a session.
TypeOK ==
  /\ sess \in [Ids -> {NoSession} \cup
       [status : Active \cup Ended \cup {"gone"}, emp : Employees, ends : Nat]]
  /\ req \in [Requests -> {Idle} \cup [pc : {"profile", "qr"}, emp : Employees, id : {"none"}]
                \cup [pc : {"queued", "polling", "installing"}, emp : Employees, id : Ids]]
  /\ inst \in [Ids -> {NoTask} \cup [pc : {"queued", "done"} \cup Locked, acct : Accounts,
                                     prev : Channel, ok : BOOLEAN, foundEnv : Channel,
                                     foundServed : Channel, torn : BOOLEAN]]
  /\ env \in [Profiles -> Channel] /\ served \in [Profiles -> Channel]
  /\ now \in 0..MaxTime /\ faults \in 0..MaxFaults /\ crashes \in 0..MaxCrashes

\* However many browser tabs start, poll and are closed, an employee has one login that
\* is open, connecting or connected.
OneLogin ==
  \A i, j \in Ids :
    /\ sess[i].status \in Active \cup {"connected"} /\ sess[j].status \in Active \cup {"connected"}
    /\ sess[i].emp = sess[j].emp
    => i = j

\* Sessions in progress and starts under way never exceed the capacity.
WithinCapacity ==
  Cardinality({i \in Ids : sess[i].status \in Active}) + Cardinality(Starting) <= Capacity

\* No two Profiles are configured with the same channel account, whatever installations
\* overlap, fail and are rolled back.
AccountExclusive ==
  \A p, q \in Profiles : env[p].acct = env[q].acct /\ env[p].acct # "none" => p = q

Rank(status) ==
  IF status = "none" THEN 0 ELSE IF status = "waiting" THEN 1 ELSE IF status = "scanned" THEN 2
  ELSE IF status = "connecting" THEN 3 ELSE IF status = "gone" THEN 5 ELSE 4

\* A late answer never takes a session back: not from scanned to waiting, and never from
\* an end to an installation.
NoRegression ==
  [][\A i \in Ids : sess'[i].status # sess[i].status => Rank(sess'[i].status) > Rank(sess[i].status)]_vars

\* A login shown as connected is the channel that the running Gateway serves for the
\* employee.  One shown as failed left the Profile as it found it, account and token, with
\* the Gateway serving that or what it served before, unless its own undoing raised too.
OutcomeTrue ==
  [][\A i \in Ids : sess[i].status = "connecting" =>
       LET p == sess[i].emp
           t == inst[i]
           mine == [acct |-> t.acct, tok |-> i]
       IN /\ sess'[i].status = "connected" => served[p] = mine /\ env[p] = mine
          /\ sess'[i].status = "failed" /\ ~t.torn =>
               env[p] = t.foundEnv /\ served[p] \in {t.foundEnv, t.foundServed}]_vars

\* An installation ends, whoever waits for it.
ConnectingEnds ==
  \A i \in Ids : sess[i].status = "connecting" ~> sess[i].status # "connecting"
=============================================================================
