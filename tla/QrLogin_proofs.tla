---------------------------- MODULE QrLogin_proofs ----------------------------
(* The sessions of QrLogin, for any number of requests, sessions and employees: *)
(* types, no session goes back, one login for an employee, the capacity.         *)
EXTENDS QrLogin, TLAPS, FiniteSetTheorems

\* A session is connecting exactly while it has an installation task.
Busy == \A i \in Ids : inst[i].pc # "none" <=> sess[i].status = "connecting"

\* The employee of a start under way has no other start and no login.
LoggedIn(i) == sess[i].status \in Active \cup {"connected"}
StartsApart ==
  /\ \A r, v \in Starting : req[r].emp = req[v].emp => r = v
  /\ \A r \in Starting, i \in Ids : LoggedIn(i) => sess[i].emp # req[r].emp

Shape == TypeOK /\ Busy
Sessions == [status : Active \cup Ended \cup {"gone"}, emp : Employees, ends : Nat]

-----------------------------------------------------------------------------
\* A session that was ever created is a record of an employee.
LEMMA SessionShape ==
  ASSUME Shape, NEW i \in Ids
  PROVE  /\ sess[i] = NoSession \/ sess[i] \in Sessions
         /\ sess[i].status # "none" => sess[i] \in Sessions /\ sess[i].emp \in Employees
BY DEF Shape, TypeOK, Sessions, NoSession

\* _prune keeps a session's employee, and leaves a connecting or unused session alone.
LEMMA PruneFacts ==
  ASSUME Shape
  PROVE  /\ Pruned \in [Ids -> {NoSession} \cup Sessions]
         /\ \A i \in Ids :
              /\ Pruned[i].emp = sess[i].emp /\ Pruned[i].ends = sess[i].ends
              /\ Pruned[i].status = "none" <=> sess[i].status = "none"
              /\ Pruned[i].status = "connecting" <=> sess[i].status = "connecting"
              /\ Pruned[i].status \in Active \cup {"connected"} => Pruned[i] = sess[i]
<1>1. SUFFICES ASSUME NEW i \in Ids
      PROVE  /\ Pruned[i] \in {NoSession} \cup Sessions
             /\ Pruned[i].emp = sess[i].emp /\ Pruned[i].ends = sess[i].ends
             /\ Pruned[i].status = "none" <=> sess[i].status = "none"
             /\ Pruned[i].status = "connecting" <=> sess[i].status = "connecting"
             /\ Pruned[i].status \in Active \cup {"connected"} => Pruned[i] = sess[i]
  BY DEF Pruned
<1>2. CASE sess[i] = NoSession
  BY <1>2 DEF Pruned, NoSession, Open, Ended, Active
<1>3. CASE sess[i] \in Sessions
  BY <1>3 DEF Pruned, Open, Ended, Active, Sessions
<1> QED BY <1>2, <1>3, SessionShape

\* What a request that is past its first await remembers.
Requesting == [pc : {"profile", "qr"}, emp : Employees, id : {"none"}]
                \cup [pc : {"queued", "polling", "installing"}, emp : Employees, id : Ids]

\* What an installation remembers.
Tasks == [pc : {"queued", "done"} \cup Locked, acct : Accounts, prev : Channel, ok : BOOLEAN,
          foundEnv : Channel, foundServed : Channel, torn : BOOLEAN]

\* A request past its first await has an employee, and a polling one a session.
LEMMA RequestShape ==
  ASSUME Shape, NEW r \in Requests
  PROVE  /\ req[r].pc # "idle" => req[r] \in Requesting /\ req[r].emp \in Employees
         /\ req[r].pc \in {"queued", "polling", "installing"} => req[r].id \in Ids
         /\ req[r].pc \in {"profile", "qr"} => req[r].id = "none"
<1>1. req[r] = Idle \/ req[r] \in [pc : {"profile", "qr"}, emp : Employees, id : {"none"}]
        \/ req[r] \in [pc : {"queued", "polling", "installing"}, emp : Employees, id : Ids]
  BY DEF Shape, TypeOK
<1>2. CASE req[r] = Idle
  BY <1>2 DEF Idle
<1>3. CASE req[r] \in [pc : {"profile", "qr"}, emp : Employees, id : {"none"}]
  BY <1>3 DEF Requesting
<1>4. CASE req[r] \in [pc : {"queued", "polling", "installing"}, emp : Employees, id : Ids]
  BY <1>4 DEF Requesting
<1> QED BY <1>1, <1>2, <1>3, <1>4

\* A request that goes on to a well-formed await point, or ends, keeps the types.
LEMMA Onward ==
  ASSUME Shape, NEW r \in Requests, NEW x \in {Idle} \cup Requesting, req' = [req EXCEPT ![r] = x]
  PROVE  req' \in [Requests -> {Idle} \cup Requesting]
BY DEF Shape, TypeOK, Requesting

\* The types of the rest, when sessions and tasks keep theirs.
LEMMA ShapeKept ==
  ASSUME Shape, sess' \in [Ids -> {NoSession} \cup Sessions],
         req' \in [Requests -> {Idle} \cup Requesting], Busy',
         UNCHANGED inst, UNCHANGED <<env, served, bounds>>
  PROVE  Shape'
BY DEF Shape, TypeOK, Sessions, Requesting, bounds

\* The initial state.
LEMMA ShapeInit == Init => Shape
BY Bounds DEF Init, Shape, TypeOK, Busy, NoSession, NoTask, NoChannel, Idle, Channel, Profiles

\* start keeps the types.
LEMMA ShapeStart ==
  ASSUME Shape, NEW r \in Requests,
         (\E e \in Employees : StartBegin(r, e)) \/ StartProfile(r) \/ StartCreated(r)
  PROVE  Shape'
<1>1. ASSUME NEW e \in Employees, StartBegin(r, e) PROVE Shape'
  BY <1>1, PruneFacts DEF StartBegin, Await, Shape, TypeOK, Busy, Sessions, bounds
<1>2. CASE StartProfile(r)
  <2>1. [pc |-> "qr", emp |-> req[r].emp, id |-> "none"] \in Requesting
    BY <1>2, RequestShape DEF StartProfile, Requesting
  <2>2. req' \in [Requests -> {Idle} \cup Requesting]
    BY <1>2, <2>1, Onward DEF StartProfile, Await
  <2> QED BY <1>2, <2>2, ShapeKept DEF StartProfile, Shape, TypeOK, Busy, Sessions
<1>3. CASE StartCreated(r)
  <2>1. PICK i \in Ids :
          /\ sess[i].status = "none"
          /\ sess' = [sess EXCEPT ![i] = [status |-> "waiting", emp |-> req[r].emp, ends |-> now + TTL]]
    BY <1>3 DEF StartCreated
  <2>2. req[r].emp \in Employees /\ now + TTL \in Nat
    BY <1>3, Bounds DEF StartCreated, Shape, TypeOK, Idle
  <2>3. [status |-> "waiting", emp |-> req[r].emp, ends |-> now + TTL] \in Sessions
    BY <2>2 DEF Sessions, Active, Open
  <2>4. inst[i].pc = "none"
    BY <2>1 DEF Shape, Busy
  <2> QED BY <1>3, <2>1, <2>3, <2>4 DEF StartCreated, End, Idle, Shape, TypeOK, Busy, Sessions, bounds
<1> QED BY <1>1, <1>2, <1>3

\* poll keeps the types; only a session that is still open gets an installation task.
LEMMA ShapePoll ==
  ASSUME Shape, NEW r \in Requests,
         (\E i \in Ids : PollBegin(r, i)) \/ PollStep(r) \/ Leave(r)
  PROVE  Shape'
<1>1. ASSUME NEW i \in Ids, PollBegin(r, i) PROVE Shape'
  <2>1. Pruned[i].status \notin {"none", "gone"} => sess[i].emp \in Employees
    BY PruneFacts, SessionShape
  <2> QED BY <1>1, <2>1, PruneFacts DEF PollBegin, Await, Shape, TypeOK, Busy, Sessions, bounds
<1>2. CASE PollEnter(r)
  <2>1. [pc |-> "polling", emp |-> req[r].emp, id |-> req[r].id] \in Requesting
    BY <1>2, RequestShape DEF PollEnter, Requesting
  <2>2. req' \in [Requests -> {Idle} \cup Requesting]
    BY <1>2, <2>1, Onward DEF PollEnter, Await, End
  <2>3. Busy'
    BY <1>2, PruneFacts DEF PollEnter, Shape, Busy
  <2> QED BY <1>2, <2>2, <2>3, PruneFacts, ShapeKept DEF PollEnter
<1>3. CASE PollAnswer(r)
  <2> DEFINE i == req[r].id
  <2>1. i \in Ids /\ req[r].emp \in Employees
    BY <1>3, RequestShape DEF PollAnswer
  <2>2. req' \in [Requests -> {Idle} \cup Requesting]
    <3>1. [pc |-> "installing", emp |-> req[r].emp, id |-> i] \in Requesting
      BY <2>1 DEF Requesting
    <3>2. End(r) \/ Await(r, "installing", req[r].emp, i)
      BY <1>3 DEF PollAnswer
    <3> QED BY <3>1, <3>2, Onward DEF Await, End
  <2>3. CASE ~StillOpen(i) /\ sess' = Pruned /\ UNCHANGED inst
    <3>1. Busy'
      BY <2>3, PruneFacts DEF Shape, Busy
    <3> QED BY <1>3, <2>2, <2>3, <3>1, PruneFacts, ShapeKept DEF PollAnswer
  <2>4. ASSUME StillOpen(i), NEW status \in {"waiting", "scanned", "expired"}, UNCHANGED inst,
               sess' = [Pruned EXCEPT ![i].status = status]
        PROVE  Shape'
    <3>1. Pruned[i] \in Sessions /\ sess[i].status # "connecting"
      BY <2>1, <2>4, PruneFacts DEF StillOpen, Open, NoSession
    <3>2. sess' \in [Ids -> {NoSession} \cup Sessions]
      BY <2>1, <2>4, <3>1, PruneFacts DEF Sessions, Active, Open, Ended
    <3>3. Busy'
      BY <2>1, <2>4, <3>1, PruneFacts DEF Shape, Busy
    <3> QED BY <1>3, <2>2, <2>4, <3>2, <3>3, ShapeKept DEF PollAnswer
  <2>5. ASSUME StillOpen(i), NEW a \in Accounts, sess' = [Pruned EXCEPT ![i].status = "connecting"],
               inst' = [inst EXCEPT ![i] = NewTask(i, a)]
        PROVE  Shape'
    <3>1. Pruned[i] \in Sessions
      BY <2>1, <2>5, PruneFacts DEF StillOpen, Open, NoSession
    <3>2. sess' \in [Ids -> {NoSession} \cup Sessions]
      BY <2>1, <2>5, <3>1, PruneFacts DEF Sessions, Active, Open, Ended
    <3>3. NewTask(i, a) \in Tasks
      <4>1. sess[i].emp \in Employees
        BY <2>1, <2>5, PruneFacts, SessionShape DEF StillOpen, Open
      <4>2. env[Prof(i)] \in Channel /\ served[Prof(i)] \in Channel
        BY <4>1 DEF Shape, TypeOK, Prof, Profiles
      <4> QED BY <4>2 DEF NewTask, Tasks, NoTask, NoChannel, Channel
    <3>4. Busy'
      BY <2>1, <2>5, <3>1, PruneFacts DEF Shape, Busy, NewTask, NoTask, TypeOK
    <3>5. inst' \in [Ids -> {NoTask} \cup Tasks]
      BY <2>1, <2>5, <3>3 DEF Shape, TypeOK, Tasks
    <3> QED BY <1>3, <2>2, <3>2, <3>4, <3>5 DEF PollAnswer, Shape, TypeOK, Sessions, Requesting, Tasks,
                                                bounds
  <2>6. StillOpen(i) => Pruned[i].status \in Open
    BY DEF StillOpen
  <2> QED BY <1>3, <2>1, <2>3, <2>4, <2>5, <2>6 DEF PollAnswer, Answered, Open
<1>4. CASE PollEnd(r) \/ Leave(r)
  BY <1>4 DEF PollEnd, Leave, End, Idle, Shape, TypeOK, Busy, bounds
<1> QED BY <1>1, <1>2, <1>3, <1>4 DEF PollStep

\* A task has an account, and its session is connecting and has an employee.
LEMMA TaskShape ==
  ASSUME Shape, NEW i \in Ids, inst[i].pc # "none"
  PROVE  /\ inst[i] \in Tasks /\ sess[i] \in Sessions /\ sess[i].status = "connecting"
         /\ Prof(i) \in Employees /\ Prof(i) \in Profiles /\ env[Prof(i)] \in Channel
<1>1. inst[i] \in Tasks
  BY DEF Shape, TypeOK, NoTask, Tasks
<1>2. sess[i].status = "connecting"
  BY DEF Shape, Busy
<1>3. sess[i] \in Sessions
  BY <1>2, SessionShape
<1> QED BY <1>1, <1>2, <1>3 DEF Prof, Sessions, Profiles, Shape, TypeOK

\* The types after a step of an installation, from the types of what it changes.
LEMMA TaskKept ==
  ASSUME Shape, NEW i \in Ids, inst[i].pc # "none", NEW x \in Tasks, inst' = [inst EXCEPT ![i] = x],
         env' \in [Profiles -> Channel], served' \in [Profiles -> Channel],
         UNCHANGED <<sess, req, now, crashes>>, faults' \in 0..MaxFaults
  PROVE  Shape'
<1>1. x.pc # "none"
  BY DEF Tasks, Locked
<1> QED BY <1>1 DEF Shape, TypeOK, Busy, Tasks

\* An installation step keeps the types.
LEMMA ShapeInstall ==
  ASSUME Shape, NEW i \in Ids, InstallStep(i) \/ InstallFails(i) \/ UndoFails(i)
  PROVE  Shape'
<1> DEFINE t == inst[i]
<1>1. t.pc # "none"
  BY DEF InstallStep, InstallBegin, InstallWrite, InstallRestart, UndoStep, InstallEnd, InstallFails,
         UndoFails
<1>2. t \in Tasks /\ Prof(i) \in Profiles /\ env[Prof(i)] \in Channel
  BY <1>1, TaskShape
<1>3. /\ env \in [Profiles -> Channel] /\ served \in [Profiles -> Channel]
      /\ now \in 0..MaxTime /\ faults \in 0..MaxFaults /\ crashes \in 0..MaxCrashes
      /\ inst \in [Ids -> {NoTask} \cup Tasks]
  BY DEF Shape, TypeOK, Tasks
<1>4. CASE InstallBegin(i)
  <2>1. [t EXCEPT !.pc = "done"] \in Tasks
        /\ [t EXCEPT !.pc = "account", !.prev = env[Prof(i)]] \in Tasks
    BY <1>2 DEF Tasks, Locked
  <2>2. \E x \in Tasks : inst' = [inst EXCEPT ![i] = x]
    BY <1>3, <1>4, <2>1 DEF InstallBegin, Go
  <2> QED BY <1>1, <1>3, <1>4, <2>2, TaskKept DEF InstallBegin, bounds
<1>5. CASE InstallWrite(i) \/ UndoStep(i)
  <2>1. \A pc \in {"token", "restart", "undo token", "undo restart", "done"} :
          [t EXCEPT !.pc = pc] \in Tasks
    BY <1>2 DEF Tasks, Locked
  <2>2. \E x \in Tasks : inst' = [inst EXCEPT ![i] = x]
    BY <1>5, <2>1 DEF InstallWrite, UndoStep, Go
  <2>3. env' \in [Profiles -> Channel] /\ served' \in [Profiles -> Channel]
    <3> DEFINE p == Prof(i)
    <3>1. t.acct \in Accounts /\ t.prev.acct \in Accounts \cup {"none"}
          /\ t.prev.tok \in Ids \cup {"none"}
      BY <1>2 DEF Tasks, Channel
    <3>2. \A a \in Accounts \cup {"none"}, k \in Ids \cup {"none"} :
            [env[p] EXCEPT !.acct = a] \in Channel /\ [env[p] EXCEPT !.tok = k] \in Channel
      BY <1>2 DEF Channel
    <3>3. \/ \E a \in Accounts \cup {"none"} : env' = [env EXCEPT ![p] = [env[p] EXCEPT !.acct = a]]
          \/ \E k \in Ids \cup {"none"} : env' = [env EXCEPT ![p] = [env[p] EXCEPT !.tok = k]]
          \/ env' = env
      BY <1>5, <3>1 DEF InstallWrite, UndoStep
    <3>4. env' \in [Profiles -> Channel]
      BY <1>2, <1>3, <3>2, <3>3
    <3>5. served' = served \/ served' = env
      BY <1>5 DEF InstallWrite, UndoStep
    <3> QED BY <1>3, <3>4, <3>5
  <2> QED BY <1>1, <1>3, <1>5, <2>2, <2>3, TaskKept DEF InstallWrite, UndoStep, bounds
<1>6. CASE InstallRestart(i)
  <2>1. [t EXCEPT !.pc = "done", !.ok = TRUE] \in Tasks
    BY <1>2 DEF Tasks
  <2> QED BY <1>1, <1>3, <1>6, <2>1, TaskKept DEF InstallRestart, bounds
<1>7. CASE InstallFails(i) \/ UndoFails(i)
  <2>1. [t EXCEPT !.pc = "undo account"] \in Tasks
        /\ [t EXCEPT !.pc = "done", !.torn = TRUE] \in Tasks
    BY <1>2 DEF Tasks, Locked
  <2>2. \E x \in Tasks : inst' = [inst EXCEPT ![i] = x]
    BY <1>7, <2>1 DEF InstallFails, UndoFails, Go
  <2>3. served' \in [Profiles -> Channel] /\ UNCHANGED <<env, sess, req, now, crashes>>
    BY <1>3, <1>7 DEF InstallFails, UndoFails
  <2>4. faults' \in 0..MaxFaults
    <3>1. faults < MaxFaults /\ faults' = faults + 1
      BY <1>7 DEF InstallFails, UndoFails, Fails
    <3>2. faults \in 0..MaxFaults /\ MaxFaults \in Nat
      BY <1>3, Bounds
    <3> QED BY <3>1, <3>2
  <2> QED BY <1>1, <1>3, <2>2, <2>3, <2>4, TaskKept
<1>8. CASE InstallEnd(i)
  <2>1. sess[i] \in Sessions
    BY <1>1, TaskShape
  <2>2. \A status \in {"connected", "failed"} : [sess[i] EXCEPT !.status = status] \in Sessions
    BY <2>1 DEF Sessions, Ended
  <2>3. \E status \in {"connected", "failed"} :
          sess' = [sess EXCEPT ![i] = [sess[i] EXCEPT !.status = status]]
    BY <1>8 DEF InstallEnd
  <2>4. sess' \in [Ids -> {NoSession} \cup Sessions]
    BY <2>2, <2>3 DEF Shape, TypeOK, Sessions
  <2>5. inst' \in [Ids -> {NoTask} \cup Tasks]
    BY <1>3, <1>8 DEF InstallEnd
  <2>6. sess'[i].status # "connecting" /\ inst'[i].pc = "none"
        /\ \A j \in Ids \ {i} : sess'[j] = sess[j] /\ inst'[j] = inst[j]
    BY <1>3, <1>8, <2>1, <2>3 DEF InstallEnd, NoTask, Shape, TypeOK, Sessions
  <2>7. Busy'
    BY <2>6 DEF Shape, Busy
  <2> QED BY <1>8, <2>4, <2>5, <2>7 DEF InstallEnd, Shape, TypeOK, Sessions, Tasks, bounds
<1> QED BY <1>4, <1>5, <1>6, <1>7, <1>8 DEF InstallStep

\* The crash and the clock keep the types.
LEMMA ShapeAround ==
  ASSUME Shape, Crash \/ Tick \/ UNCHANGED vars
  PROVE  Shape'
<1>1. CASE Crash
  <2>1. sess' \in [Ids -> {NoSession} \cup Sessions]
    <3>1. SUFFICES ASSUME NEW i \in Ids PROVE sess'[i] \in {NoSession} \cup Sessions
      BY <1>1 DEF Crash
    <3>2. CASE sess[i].status = "none"
      BY <1>1, <3>2, SessionShape DEF Crash
    <3>3. CASE sess[i].status # "none"
      BY <1>1, <3>3, SessionShape DEF Crash, Sessions
    <3> QED BY <3>2, <3>3
  <2>2. \A i \in Ids : sess'[i].status # "connecting"
    BY <1>1, SessionShape DEF Crash, Sessions
  <2>3. Busy'
    BY <1>1, <2>2 DEF Crash, Busy, NoTask
  <2>4. crashes' \in 0..MaxCrashes
    BY <1>1, Bounds DEF Crash, Shape, TypeOK
  <2> QED BY <1>1, <2>1, <2>3, <2>4 DEF Crash, Shape, TypeOK, Sessions, Idle
<1>2. CASE Tick
  <2>1. now' \in 0..MaxTime
    BY <1>2, Bounds DEF Tick, Shape, TypeOK
  <2> QED BY <1>2, <2>1 DEF Tick, Shape, TypeOK, Busy
<1>3. CASE UNCHANGED vars
  BY <1>3 DEF vars, Shape, TypeOK, Busy
<1> QED BY <1>1, <1>2, <1>3

\* Every step keeps the types.
LEMMA ShapeNext == Shape /\ [Next]_vars => Shape'
<1> SUFFICES ASSUME Shape, [Next]_vars PROVE Shape'
  OBVIOUS
<1>1. ASSUME NEW r \in Requests,
             (\E e \in Employees : StartBegin(r, e)) \/ (\E i \in Ids : PollBegin(r, i))
               \/ StartStep(r) \/ PollStep(r) \/ Leave(r)
      PROVE  Shape'
  BY <1>1, ShapeStart, ShapePoll DEF StartStep
<1> QED BY <1>1, ShapeInstall, ShapeAround DEF Next

\* The types of the sessions, requests, tasks and Profiles; a task has its session.
THEOREM QrTypeCorrect == Spec => []TypeOK
<1>1. Shape => TypeOK
  BY DEF Shape
<1> QED BY <1>1, ShapeInit, ShapeNext, PTL DEF Spec

-----------------------------------------------------------------------------
\* Every step of a session's life, except a crash, is a pruning, an answer, the end of
\* an installation or the start of a new one.
LEMMA SessionSteps ==
  ASSUME Shape, [Next]_vars, NEW i \in Ids
  PROVE  \/ sess'[i] = sess[i]
         \/ sess'[i] = Pruned[i]
         \/ /\ Pruned[i].status \in Open
            /\ \E status \in {"scanned", "expired", "connecting"} :
                 sess'[i] = [Pruned[i] EXCEPT !.status = status]
         \/ /\ sess[i].status = "none" /\ sess'[i].status = "waiting"
            /\ \E r \in Starting : StartCreated(r) /\ sess'[i].emp = req[r].emp
         \/ /\ sess[i].status = "connecting"
            /\ \E status \in {"connected", "failed"} :
                 sess'[i] = [sess[i] EXCEPT !.status = status]
         \/ sess[i].status # "none" /\ sess'[i].status = "gone"
<1>1. CASE UNCHANGED vars
  BY <1>1 DEF vars
<1>2. CASE Tick
  BY <1>2 DEF Tick
<1>3. CASE Crash
  BY <1>3, SessionShape DEF Crash, Sessions
<1>4. ASSUME NEW j \in Ids, InstallStep(j) \/ InstallFails(j) \/ UndoFails(j)
      PROVE  \/ sess'[i] = sess[i]
             \/ /\ sess[i].status = "connecting"
                /\ \E status \in {"connected", "failed"} :
                     sess'[i] = [sess[i] EXCEPT !.status = status]
  <2>1. CASE InstallEnd(j)
    <3>1. sess[j].status = "connecting" /\ sess \in [Ids -> {NoSession} \cup Sessions]
      BY <2>1 DEF InstallEnd, Shape, Busy, TypeOK, Sessions
    <3> QED BY <2>1, <3>1 DEF InstallEnd
  <2>2. CASE ~InstallEnd(j)
    BY <1>4, <2>2 DEF InstallStep, InstallBegin, InstallWrite, InstallRestart, UndoStep, InstallFails,
                      UndoFails
  <2> QED BY <2>1, <2>2
<1>5. ASSUME NEW r \in Requests, PollAnswer(r)
      PROVE  \/ sess'[i] = Pruned[i]
             \/ /\ Pruned[i].status \in Open
                /\ \E status \in {"scanned", "expired", "connecting"} :
                     sess'[i] = [Pruned[i] EXCEPT !.status = status]
  <2>1. req[r].id \in Ids
    BY <1>5, RequestShape DEF PollAnswer
  <2>2. \/ sess' = Pruned
        \/ /\ Pruned[req[r].id].status \in Open
           /\ \E status \in {Pruned[req[r].id].status, "scanned", "expired", "connecting"} :
                sess' = [Pruned EXCEPT ![req[r].id].status = status]
    BY <1>5 DEF PollAnswer, StillOpen, Answered
  <2>3. Pruned \in [Ids -> {NoSession} \cup Sessions]
    BY PruneFacts
  <2>4. Pruned[req[r].id] \in Sessions \/ Pruned[req[r].id].status \notin Open
    BY <2>1, <2>3 DEF NoSession, Open
  <2>5. [Pruned EXCEPT ![req[r].id].status = Pruned[req[r].id].status] = Pruned
        \/ Pruned[req[r].id].status \notin Open
    BY <2>1, <2>3, <2>4 DEF Sessions
  <2> QED BY <2>1, <2>2, <2>3, <2>5
<1>6. ASSUME NEW r \in Requests, StartCreated(r)
      PROVE  \/ sess'[i] = sess[i]
             \/ /\ sess[i].status = "none" /\ sess'[i].status = "waiting"
                /\ \E v \in Starting : StartCreated(v) /\ sess'[i].emp = req[v].emp
  <2>1. r \in Starting
    BY <1>6 DEF StartCreated, Starting
  <2>2. PICK j \in Ids :
          /\ sess[j].status = "none"
          /\ sess' = [sess EXCEPT ![j] = [status |-> "waiting", emp |-> req[r].emp, ends |-> now + TTL]]
    BY <1>6 DEF StartCreated
  <2> QED BY <1>6, <2>1, <2>2 DEF Shape, TypeOK
<1>7. ASSUME NEW r \in Requests,
             \/ \E e \in Employees : StartBegin(r, e)
             \/ \E j \in Ids : PollBegin(r, j)
             \/ StartProfile(r) \/ PollEnter(r) \/ PollEnd(r) \/ Leave(r)
      PROVE  sess'[i] \in {sess[i], Pruned[i]}
  BY <1>7 DEF StartBegin, PollBegin, StartProfile, PollEnter, PollEnd, Leave
<1> QED BY <1>1, <1>2, <1>3, <1>4, <1>5, <1>6, <1>7 DEF Next, StartStep, PollStep

\* Pruning only takes a session forward.
LEMMA PruneForward ==
  ASSUME Shape, NEW i \in Ids
  PROVE  Pruned[i].status = sess[i].status \/ Rank(Pruned[i].status) > Rank(sess[i].status)
<1>1. CASE sess[i] = NoSession
  BY <1>1, PruneFacts DEF NoSession
<1>2. CASE sess[i] \in Sessions
  BY <1>2 DEF Pruned, Rank, Open, Ended, Active, Sessions
<1> QED BY <1>1, <1>2, SessionShape

\* A late answer never takes a session back.
THEOREM NeverRegresses == Spec => NoRegression
<1>1. Shape /\ [Next]_vars =>
        \A i \in Ids : sess'[i].status # sess[i].status => Rank(sess'[i].status) > Rank(sess[i].status)
  <2> SUFFICES ASSUME Shape, [Next]_vars, NEW i \in Ids, sess'[i].status # sess[i].status
               PROVE  Rank(sess'[i].status) > Rank(sess[i].status)
    OBVIOUS
  <2>1. sess[i].status \in {"none", "gone"} \cup Active \cup Ended
    BY SessionShape DEF NoSession, Sessions
  <2>2. CASE sess'[i] = Pruned[i]
    BY <2>2, PruneForward
  <2>3. CASE /\ Pruned[i].status \in Open
             /\ \E status \in {"scanned", "expired", "connecting"} :
                  sess'[i] = [Pruned[i] EXCEPT !.status = status]
    <3>1. Pruned[i] = sess[i] /\ sess[i] \in Sessions
      BY <2>3, PruneFacts, SessionShape DEF Open, Active
    <3> QED BY <2>3, <3>1 DEF Rank, Open, Sessions
  <2>4. CASE sess[i].status = "none" /\ sess'[i].status = "waiting"
    BY <2>4 DEF Rank
  <2>5. CASE /\ sess[i].status = "connecting"
             /\ \E status \in {"connected", "failed"} :
                  sess'[i] = [sess[i] EXCEPT !.status = status]
    <3>1. sess[i] \in Sessions
      BY <2>5, SessionShape
    <3> QED BY <2>5, <3>1 DEF Rank, Sessions
  <2>6. CASE sess'[i].status = "gone"
    BY <2>1, <2>6 DEF Rank, Active, Open, Ended
  <2> QED BY <2>2, <2>3, <2>4, <2>5, <2>6, SessionSteps
<1> QED BY <1>1, ShapeInit, ShapeNext, PTL DEF Spec, NoRegression

-----------------------------------------------------------------------------
\* Pruning ends sessions: one that is logged in, or in progress, after it was so before.
LEMMA LoggedInKept ==
  ASSUME Shape, [Next]_vars, NEW i \in Ids, sess[i].status # "none"
  PROVE  /\ sess'[i].status \in Active \cup {"connected"} => LoggedIn(i) /\ sess'[i].emp = sess[i].emp
         /\ sess'[i].status \in Active => sess[i].status \in Active
<1>1. sess[i] \in Sessions /\ Pruned[i] \in {NoSession} \cup Sessions
  BY SessionShape, PruneFacts
<1>2. CASE sess'[i] = sess[i] \/ sess'[i] = Pruned[i]
  BY <1>2, PruneFacts DEF LoggedIn
<1>3. CASE /\ Pruned[i].status \in Open
           /\ \E status \in {"scanned", "expired", "connecting"} :
                sess'[i] = [Pruned[i] EXCEPT !.status = status]
  <2>1. Pruned[i] = sess[i]
    BY <1>3, PruneFacts DEF Active
  <2> QED BY <1>1, <1>3, <2>1 DEF LoggedIn, Active, Sessions
<1>4. CASE /\ sess[i].status = "connecting"
           /\ \E status \in {"connected", "failed"} :
                sess'[i] = [sess[i] EXCEPT !.status = status]
  BY <1>1, <1>4 DEF LoggedIn, Active, Open, Sessions
<1>5. CASE sess'[i].status = "gone"
  BY <1>5 DEF Active, Open
<1> QED BY <1>2, <1>3, <1>4, <1>5, SessionSteps

\* A step that is no start: no login appears, no start begins.
LEMMA NoNewLogin ==
  ASSUME Shape, [Next]_vars, \A r \in Requests, e \in Employees : ~StartBegin(r, e),
         \A r \in Requests : ~StartCreated(r)
  PROVE  /\ \A i \in Ids :
              /\ sess'[i].status \in Active \cup {"connected"} =>
                   LoggedIn(i) /\ sess'[i].emp = sess[i].emp
              /\ sess'[i].status \in Active => sess[i].status \in Active
         /\ \A r \in Starting' : r \in Starting /\ req'[r].emp = req[r].emp
<1>1. ASSUME NEW i \in Ids
      PROVE  /\ sess'[i].status \in Active \cup {"connected"} =>
                  LoggedIn(i) /\ sess'[i].emp = sess[i].emp
             /\ sess'[i].status \in Active => sess[i].status \in Active
  <2>1. CASE sess[i].status # "none"
    BY <2>1, LoggedInKept
  <2>2. CASE sess[i].status = "none"
    <3>1. sess'[i].status = "none"
      <4>1. Pruned[i].status = "none"
        BY <2>2, PruneFacts
      <4>2. ~ \E r \in Starting : StartCreated(r) /\ sess'[i].emp = req[r].emp
        BY DEF Starting
      <4> QED BY <2>2, <4>1, <4>2, SessionSteps DEF Open
    <3> QED BY <3>1 DEF Active, Open
  <2> QED BY <2>1, <2>2
<1>2. ASSUME NEW r \in Starting' PROVE r \in Starting /\ req'[r].emp = req[r].emp
  <2>1. r \in Requests /\ req'[r].pc \in {"profile", "qr"}
    BY DEF Starting
  <2>2. req \in [Requests -> {Idle} \cup Requesting]
    BY DEF Shape, TypeOK, Requesting
  <2>3. CASE req'[r] = req[r]
    BY <2>1, <2>3 DEF Starting
  <2>4. CASE StartProfile(r)
    BY <2>1, <2>2, <2>4 DEF StartProfile, Await, Starting
  <2>5. ASSUME NEW v \in Requests, NEW x, req' = [req EXCEPT ![v] = x], x.pc \notin {"profile", "qr"}
        PROVE  r \in Starting /\ req'[r].emp = req[r].emp
    BY <2>1, <2>2, <2>5 DEF Starting
  <2>6. ASSUME NEW v \in Requests, StartProfile(v), v # r
        PROVE  r \in Starting /\ req'[r].emp = req[r].emp
    BY <2>1, <2>2, <2>6 DEF StartProfile, Await, Starting
  <2>7. ASSUME NEW v \in Requests, End(v)
        PROVE  r \in Starting /\ req'[r].emp = req[r].emp
    BY <2>5, <2>7 DEF End, Idle
  <2>8. ASSUME NEW v \in Requests, NEW pc \in {"queued", "polling", "installing"}, NEW e, NEW i,
               Await(v, pc, e, i)
        PROVE  r \in Starting /\ req'[r].emp = req[r].emp
    <3>1. req' = [req EXCEPT ![v] = [pc |-> pc, emp |-> e, id |-> i]]
      BY <2>8 DEF Await
    <3> QED BY <2>5, <3>1
  <2>9. CASE \E v \in Requests : (\E i \in Ids : PollBegin(v, i)) \/ StartStep(v) \/ PollStep(v) \/ Leave(v)
    <3>1. PICK v \in Requests :
            (\E i \in Ids : PollBegin(v, i)) \/ StartStep(v) \/ PollStep(v) \/ Leave(v)
      BY <2>9
    <3>2. StartProfile(v) \/ req' = req \/ End(v)
            \/ \E pc \in {"queued", "polling", "installing"} : \E e, i : Await(v, pc, e, i)
      BY <3>1 DEF StartStep, PollStep, PollBegin, PollEnter, PollAnswer, PollEnd, Leave
    <3> QED BY <2>3, <2>4, <2>6, <2>7, <2>8, <3>2
  <2>10. CASE \E i \in Ids : InstallStep(i) \/ InstallFails(i) \/ UndoFails(i)
    BY <2>3, <2>10 DEF InstallStep, InstallBegin, InstallWrite, InstallRestart, UndoStep, InstallEnd,
                       InstallFails, UndoFails
  <2>11. CASE Crash
    BY <2>1, <2>11 DEF Crash, Idle
  <2>12. CASE Tick \/ UNCHANGED vars
    BY <2>3, <2>12 DEF Tick, vars
  <2> QED BY <2>9, <2>10, <2>11, <2>12 DEF Next
<1> QED BY <1>1, <1>2

-----------------------------------------------------------------------------
\* A step that is no start keeps the starts apart and the logins unique.
LEMMA LoginsKept ==
  ASSUME StartsApart, OneLogin,
         \A i \in Ids : sess'[i].status \in Active \cup {"connected"} =>
                          LoggedIn(i) /\ sess'[i].emp = sess[i].emp,
         \A r \in Starting' : r \in Starting /\ req'[r].emp = req[r].emp
  PROVE  (StartsApart /\ OneLogin)'
<1>1. OneLogin'
  BY DEF OneLogin, LoggedIn
<1>2. StartsApart'
  BY DEF StartsApart, LoggedIn
<1> QED BY <1>1, <1>2

\* A start begins when its employee has no other and no login.
LEMMA LoginsBegin ==
  ASSUME Shape, StartsApart, OneLogin, NEW r \in Requests, NEW e \in Employees, StartBegin(r, e)
  PROVE  (StartsApart /\ OneLogin)'
<1>1. sess' = Pruned
  BY DEF StartBegin
<1>2. \A i \in Ids : sess'[i].status \in Active \cup {"connected"} =>
                       LoggedIn(i) /\ sess'[i].emp = sess[i].emp
  BY <1>1, PruneFacts DEF LoggedIn
<1>3. CASE req' = req
  BY <1>2, <1>3, LoginsKept DEF Starting
<1>4. CASE Await(r, "profile", e, "none") /\ ~Reusable(Pruned, e)
  <2>1. req \in [Requests -> {Idle} \cup Requesting]
    BY DEF Shape, TypeOK, Requesting
  <2>2. Starting' = Starting \cup {r} /\ req'[r].emp = e
        /\ \A v \in Starting : v # r /\ req'[v].emp = req[v].emp /\ req[v].emp # e
    BY <1>4, <2>1 DEF Starting, Await, StartBegin, StartLock, Idle
  <2>3. \A i \in Ids : sess'[i].status \in Active \cup {"connected"} => sess'[i].emp # e
    BY <1>1, <1>4 DEF Reusable
  <2>4. OneLogin'
    BY <1>2 DEF OneLogin, LoggedIn
  <2>5. StartsApart'
    BY <1>2, <2>2, <2>3 DEF StartsApart, LoggedIn
  <2> QED BY <2>4, <2>5
<1> QED BY <1>3, <1>4 DEF StartBegin

\* A started session belongs to the employee whose start it was.
LEMMA LoginsCreated ==
  ASSUME Shape, StartsApart, OneLogin, NEW r \in Requests, StartCreated(r)
  PROVE  (StartsApart /\ OneLogin)'
<1>1. req \in [Requests -> {Idle} \cup Requesting] /\ r \in Starting
  BY DEF Shape, TypeOK, Requesting, StartCreated, Starting
<1>2. /\ Starting' = Starting \ {r}
      /\ \A v \in Starting' : req'[v] = req[v]
  BY <1>1 DEF StartCreated, End, Idle, Starting
<1>3. PICK j \in Ids :
        /\ sess[j].status = "none"
        /\ sess' = [sess EXCEPT ![j] = [status |-> "waiting", emp |-> req[r].emp, ends |-> now + TTL]]
  BY DEF StartCreated
<1>4. sess'[j].emp = req[r].emp /\ \A i \in Ids \ {j} : sess'[i] = sess[i]
  BY <1>3 DEF Shape, TypeOK
<1>5. \A i \in Ids \ {j} : LoggedIn(i) => sess[i].emp # req[r].emp
  BY <1>1 DEF StartsApart
<1>6. OneLogin'
  BY <1>4, <1>5 DEF OneLogin, LoggedIn
<1>7. \A v \in Starting' : req[v].emp # req[r].emp
  BY <1>1, <1>2 DEF StartsApart
<1>8. StartsApart'
  BY <1>2, <1>4, <1>7 DEF StartsApart, LoggedIn
<1> QED BY <1>6, <1>8

\* The inductive invariant behind OneLogin.
Logins == Shape /\ StartsApart /\ OneLogin

\* It holds when no session was created.
LEMMA LoginsInit == Init => Logins
<1> SUFFICES ASSUME Init PROVE Logins
  OBVIOUS
<1>1. Starting = {} /\ \A i \in Ids : sess[i].status = "none"
  BY DEF Init, Starting, Idle, NoSession
<1> QED BY <1>1, ShapeInit DEF Logins, StartsApart, OneLogin, Active, Open

\* Every step keeps it: the two steps of a start, and the steps that are no start.
LEMMA LoginsNext == Logins /\ [Next]_vars => Logins'
<1> SUFFICES ASSUME Logins, [Next]_vars PROVE Logins'
  OBVIOUS
<1> USE DEF Logins
<1>1. CASE \E r \in Requests, e \in Employees : StartBegin(r, e)
  BY <1>1, ShapeNext, LoginsBegin
<1>2. CASE \E r \in Requests : StartCreated(r)
  BY <1>2, ShapeNext, LoginsCreated
<1>3. CASE ~(\E r \in Requests, e \in Employees : StartBegin(r, e))
           /\ ~(\E r \in Requests : StartCreated(r))
  BY <1>3, ShapeNext, NoNewLogin, LoginsKept
<1> QED BY <1>1, <1>2, <1>3

\* An employee has one login, whatever requests are in flight: start holds the employee's
\* start lock from its check to the session it creates.
THEOREM LoginUnique == Spec => []OneLogin
<1>1. Logins => OneLogin
  BY DEF Logins
<1> QED BY <1>1, LoginsInit, LoginsNext, PTL DEF Spec

-----------------------------------------------------------------------------
\* The sessions that count against the capacity.
InProgress == {i \in Ids : sess[i].status \in Active}

\* With one start per employee, the employees that start are as many as the starts.
LEMMA StartsCounted ==
  ASSUME StartsApart
  PROVE  Cardinality({req[v].emp : v \in Starting}) = Cardinality(Starting)
<1> DEFINE E == {req[v].emp : v \in Starting}
           f == [v \in Starting |-> req[v].emp]
<1>1. IsFiniteSet(Starting)
  BY Bounds, FS_Subset DEF Starting
<1>2. f \in Surjection(Starting, E)
  BY DEF Surjection
<1>3. IsFiniteSet(E)
  BY <1>1, <1>2, FS_Surjection
<1>4. f \in Injection(Starting, E)
  BY DEF Injection, IsInjective, StartsApart
<1> QED BY <1>2, <1>3, <1>4, FS_Injection

\* No session and no start more: the capacity still suffices.
LEMMA CapacityKept ==
  ASSUME WithinCapacity, InProgress' \subseteq InProgress, Starting' \subseteq Starting
  PROVE  WithinCapacity'
<1>1. IsFiniteSet(InProgress) /\ IsFiniteSet(Starting)
  BY Bounds, FS_Subset DEF InProgress, Starting
<1>2. Cardinality(InProgress') <= Cardinality(InProgress) /\ Cardinality(Starting') <= Cardinality(Starting)
  BY <1>1, FS_Subset
<1>3. /\ Cardinality(InProgress) \in Nat /\ Cardinality(Starting) \in Nat
      /\ Cardinality(InProgress') \in Nat /\ Cardinality(Starting') \in Nat
  BY <1>1, FS_Subset, FS_CardinalityType
<1>4. Cardinality(InProgress) + Cardinality(Starting) <= Capacity
  BY DEF WithinCapacity, InProgress
<1>5. Cardinality(InProgress') + Cardinality(Starting') <= Capacity
  BY <1>2, <1>3, <1>4, Bounds
<1> QED BY <1>5 DEF WithinCapacity, InProgress

\* A start begins below the capacity, and the one it adds is counted.
LEMMA CapacityBegin ==
  ASSUME Shape, StartsApart, WithinCapacity, NEW r \in Requests, NEW e \in Employees, StartBegin(r, e)
  PROVE  WithinCapacity'
<1>1. InProgress' = {i \in Ids : Pruned[i].status \in Active} /\ InProgress' \subseteq InProgress
  BY PruneFacts DEF StartBegin, InProgress
<1>2. CASE req' = req
  BY <1>1, <1>2, CapacityKept DEF Starting
<1>3. CASE Await(r, "profile", e, "none") /\ ~Full(Pruned)
  <2>1. req \in [Requests -> {Idle} \cup Requesting]
    BY DEF Shape, TypeOK, Requesting
  <2>2. Starting' = Starting \cup {r} /\ r \notin Starting
    BY <1>3, <2>1 DEF Starting, Await, StartBegin, StartLock, Idle
  <2>3. IsFiniteSet(Starting) /\ IsFiniteSet(InProgress')
    BY <1>1, Bounds, FS_Subset DEF Starting, InProgress
  <2>4. Cardinality(Starting') = Cardinality(Starting) + 1
    BY <2>2, <2>3, FS_AddElement
  <2>5. Cardinality(Starting) \in Nat /\ Cardinality(InProgress') \in Nat
    BY <2>3, FS_CardinalityType
  <2>6. Cardinality(InProgress') + Cardinality(Starting) < Capacity
    BY <1>1, <1>3, <2>5, StartsCounted, Bounds DEF Full
  <2>7. Cardinality(InProgress') + Cardinality(Starting') <= Capacity
    BY <2>4, <2>5, <2>6, Bounds
  <2> QED BY <2>7 DEF WithinCapacity, InProgress
<1> QED BY <1>2, <1>3 DEF StartBegin

\* A created session takes the place of its start.
LEMMA CapacityCreated ==
  ASSUME Shape, WithinCapacity, NEW r \in Requests, StartCreated(r)
  PROVE  WithinCapacity'
<1>1. req \in [Requests -> {Idle} \cup Requesting] /\ r \in Starting
  BY DEF Shape, TypeOK, Requesting, StartCreated, Starting
<1>2. Starting' = Starting \ {r}
  BY <1>1 DEF StartCreated, End, Idle, Starting
<1>3. PICK j \in Ids :
        /\ sess[j].status = "none"
        /\ sess' = [sess EXCEPT ![j] = [status |-> "waiting", emp |-> req[r].emp, ends |-> now + TTL]]
  BY DEF StartCreated
<1>4. InProgress' = InProgress \cup {j} /\ j \notin InProgress
  BY <1>3 DEF Shape, TypeOK, InProgress, Active, Open
<1>5. IsFiniteSet(InProgress) /\ IsFiniteSet(Starting)
  BY Bounds, FS_Subset DEF InProgress, Starting
<1>6. Cardinality(InProgress) \in Nat /\ Cardinality(Starting) \in Nat
  BY <1>5, FS_CardinalityType
<1>7. Cardinality(InProgress') = Cardinality(InProgress) + 1
  BY <1>4, <1>5, FS_AddElement
<1>8. Cardinality(Starting') = Cardinality(Starting) - 1
  BY <1>1, <1>2, <1>5, FS_RemoveElement
<1>9. Cardinality(InProgress) + Cardinality(Starting) <= Capacity
  BY DEF WithinCapacity, InProgress
<1>10. Cardinality(InProgress') + Cardinality(Starting') <= Capacity
  BY <1>6, <1>7, <1>8, <1>9, Bounds
<1> QED BY <1>10 DEF WithinCapacity, InProgress

\* Sessions in progress and starts under way never exceed MAX_ACTIVE_QR_SESSIONS: a start
\* is counted from the check that lets it begin to the session that takes its place.
THEOREM CapacityHeld == Spec => []WithinCapacity
<1> DEFINE IInv == Logins /\ WithinCapacity
<1>1. Init => IInv
  <2> SUFFICES ASSUME Init PROVE WithinCapacity
    BY LoginsInit
  <2>1. Starting = {} /\ {i \in Ids : sess[i].status \in Active} = {}
    BY DEF Init, Starting, Idle, NoSession, Active, Open
  <2>2. Cardinality({}) = 0 /\ Capacity \in Nat
    BY FS_EmptySet, Bounds
  <2>3. Cardinality(Starting) = 0 /\ Cardinality({i \in Ids : sess[i].status \in Active}) = 0
    BY <2>1, <2>2
  <2>4. 0 + 0 <= Capacity
    BY <2>2
  <2> QED BY <2>3, <2>4 DEF WithinCapacity
<1>2. IInv /\ [Next]_vars => IInv'
  <2> SUFFICES ASSUME Logins, WithinCapacity, [Next]_vars PROVE WithinCapacity'
    BY LoginsNext
  <2>1. Shape /\ StartsApart
    BY DEF Logins
  <2>2. CASE \E r \in Requests, e \in Employees : StartBegin(r, e)
    BY <2>1, <2>2, CapacityBegin
  <2>3. CASE \E r \in Requests : StartCreated(r)
    BY <2>1, <2>3, CapacityCreated
  <2>4. CASE ~(\E r \in Requests, e \in Employees : StartBegin(r, e))
             /\ ~(\E r \in Requests : StartCreated(r))
    <3>1. InProgress' \subseteq InProgress /\ Starting' \subseteq Starting
      BY <2>1, <2>4, NoNewLogin DEF InProgress
    <3> QED BY <3>1, CapacityKept
  <2> QED BY <2>2, <2>3, <2>4
<1>3. IInv => WithinCapacity
  OBVIOUS
<1> QED BY <1>1, <1>2, <1>3, PTL DEF Spec
=============================================================================
