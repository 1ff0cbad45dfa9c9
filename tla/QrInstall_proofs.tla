--------------------------- MODULE QrInstall_proofs ---------------------------
(* The installations of QrLogin: no channel account in two Profiles, and the     *)
(* result shown to an employee is the state of the Profile.                      *)
EXTENDS QrLogin_proofs

\* _install_lock: one installation at a time works on the Profiles.
Mutex == \A i, j \in Ids : inst[i].pc \in Locked /\ inst[j].pc \in Locked => i = j

\* What an installation writes, and what it writes back, is in no other Profile.
Clear ==
  \A i \in Ids : inst[i].pc \in Locked =>
    \A p \in Profiles \ {Prof(i)} :
      /\ env[p].acct # inst[i].acct
      /\ env[p].acct = "none" \/ env[p].acct # inst[i].prev.acct

-----------------------------------------------------------------------------
\* A request leaves every installation alone but the one its confirmed login queues.
LEMMA RequestFacts ==
  ASSUME Shape, NEW r \in Requests,
         (\E e \in Employees : StartBegin(r, e)) \/ (\E i \in Ids : PollBegin(r, i))
           \/ StartStep(r) \/ PollStep(r) \/ Leave(r)
  PROVE  /\ UNCHANGED <<env, served, bounds>>
         /\ \A i \in Ids : inst[i].pc # "none" => inst'[i] = inst[i] /\ sess'[i] = sess[i]
         /\ \A i \in Ids : inst[i].pc = "none" =>
              \/ inst'[i] = inst[i]
              \/ /\ sess[i].status \in Open /\ sess'[i].emp = sess[i].emp
                 /\ \E a \in Accounts : inst'[i] = NewTask(i, a)
<1>0. \A i \in Ids : inst[i].pc # "none" => Pruned[i] = sess[i] /\ sess[i].status = "connecting"
  BY PruneFacts DEF Shape, Busy, Active
<1>1. CASE \/ \E e \in Employees : StartBegin(r, e)
           \/ \E i \in Ids : PollBegin(r, i)
           \/ StartProfile(r) \/ PollEnter(r) \/ PollEnd(r) \/ Leave(r)
  <2>1. UNCHANGED <<env, served, bounds, inst>> /\ (sess' = Pruned \/ sess' = sess)
    BY <1>1 DEF StartBegin, PollBegin, StartProfile, PollEnter, PollEnd, Leave
  <2> QED BY <1>0, <2>1
<1>2. CASE StartCreated(r)
  <2>1. \A i \in Ids : inst[i].pc # "none" => sess'[i] = sess[i]
    BY <1>0, <1>2 DEF StartCreated, Shape, TypeOK
  <2> QED BY <1>2, <2>1 DEF StartCreated
<1>3. CASE PollAnswer(r)
  <2> DEFINE k == req[r].id
  <2>1. k \in Ids /\ Pruned \in [Ids -> {NoSession} \cup Sessions]
        /\ inst \in [Ids -> {NoTask} \cup Tasks]
    BY <1>3, RequestShape, PruneFacts DEF PollAnswer, Shape, TypeOK, Tasks
  <2>2. \/ sess' = Pruned /\ inst' = inst
        \/ /\ Pruned[k].status \in Open
           /\ \E status \in {"waiting", "scanned", "expired", "connecting"} :
                sess' = [Pruned EXCEPT ![k].status = status]
           /\ \/ inst' = inst
              \/ \E a \in Accounts : inst' = [inst EXCEPT ![k] = NewTask(k, a)]
    BY <1>3 DEF PollAnswer, StillOpen, Answered, Open
  <2>3. CASE sess' = Pruned /\ inst' = inst
    BY <1>0, <1>3, <2>3 DEF PollAnswer
  <2>4. CASE /\ Pruned[k].status \in Open
             /\ \E status \in {"waiting", "scanned", "expired", "connecting"} :
                  sess' = [Pruned EXCEPT ![k].status = status]
             /\ \/ inst' = inst
                \/ \E a \in Accounts : inst' = [inst EXCEPT ![k] = NewTask(k, a)]
    <3>1. Pruned[k] = sess[k] /\ sess[k] \in Sessions /\ sess[k].status \in Open
      BY <2>1, <2>4, PruneFacts, SessionShape DEF Open, Active
    <3>2. inst[k].pc = "none"
      BY <1>0, <2>1, <3>1 DEF Open
    <3>3. sess'[k].emp = sess[k].emp /\ \A i \in Ids \ {k} : sess'[i] = Pruned[i]
      <4>1. PICK status \in {"waiting", "scanned", "expired", "connecting"} :
              sess' = [Pruned EXCEPT ![k].status = status]
        BY <2>4
      <4>2. sess'[k] = [sess[k] EXCEPT !.status = status]
        BY <2>1, <3>1, <4>1
      <4> QED BY <2>1, <3>1, <4>1, <4>2 DEF Sessions
    <3>6. \A i \in Ids \ {k} : inst'[i] = inst[i]
      BY <2>1, <2>4
    <3>4. inst'[k] = inst[k] \/ \E a \in Accounts : inst'[k] = NewTask(k, a)
      BY <2>1, <2>4
    <3>5. UNCHANGED <<env, served, bounds>>
      BY <1>3 DEF PollAnswer
    <3> QED BY <1>0, <3>1, <3>2, <3>3, <3>4, <3>5, <3>6
  <2> QED BY <2>2, <2>3, <2>4
<1> QED BY <1>1, <1>2, <1>3 DEF StartStep, PollStep

-----------------------------------------------------------------------------
\* A step that changes no Profile's account, and leaves the tasks that hold the lock alone.
LEMMA ExclusiveKept ==
  ASSUME Mutex, Clear, AccountExclusive, \A p \in Profiles : env'[p].acct = env[p].acct,
         \A i \in Ids : inst'[i].pc \in Locked =>
           /\ inst[i].pc \in Locked /\ sess'[i].emp = sess[i].emp
           /\ inst'[i].acct = inst[i].acct /\ inst'[i].prev = inst[i].prev
  PROVE  (Mutex /\ Clear /\ AccountExclusive)'
BY DEF Mutex, Clear, AccountExclusive, Prof

\* What the holder of the lock writes into its own Profile is in no other one.
LEMMA ExclusiveWrite ==
  ASSUME Shape, Mutex, Clear, AccountExclusive, NEW i \in Ids, inst[i].pc \in Locked,
         NEW pc, inst' = [inst EXCEPT ![i].pc = pc], UNCHANGED sess,
         NEW a \in {inst[i].acct, inst[i].prev.acct}, env' = [env EXCEPT ![Prof(i)].acct = a]
  PROVE  (Mutex /\ Clear /\ AccountExclusive)'
<1>1. inst[i].pc # "none" /\ inst \in [Ids -> {NoTask} \cup Tasks] /\ env \in [Profiles -> Channel]
  BY DEF Locked, Shape, TypeOK, Tasks
<1>2. Prof(i) \in Profiles /\ env[Prof(i)] \in Channel /\ inst[i] \in Tasks
  BY <1>1, TaskShape
<1>3. /\ \A j \in Ids \ {i} : inst'[j] = inst[j]
      /\ inst'[i].acct = inst[i].acct /\ inst'[i].prev = inst[i].prev
  BY <1>1, <1>2 DEF Tasks
<1>4. \A j \in Ids : inst'[j].pc \in Locked => j = i
  BY <1>3 DEF Mutex
<1>5. env'[Prof(i)].acct = a /\ \A p \in Profiles \ {Prof(i)} : env'[p] = env[p]
  BY <1>1, <1>2 DEF Channel
<1>6. Mutex' /\ Clear'
  BY <1>3, <1>4, <1>5 DEF Mutex, Clear, Prof
<1>7. AccountExclusive'
  BY <1>5 DEF AccountExclusive, Clear
<1> QED BY <1>6, <1>7

\* A task takes the lock when nobody has it and no other Profile has its account.
LEMMA ExclusiveInstall ==
  ASSUME Shape, Mutex, Clear, AccountExclusive, NEW i \in Ids,
         InstallStep(i) \/ InstallFails(i) \/ UndoFails(i)
  PROVE  (Mutex /\ Clear /\ AccountExclusive)'
<1>1. inst[i].pc # "none"
  BY DEF InstallStep, InstallBegin, InstallWrite, InstallRestart, UndoStep, InstallEnd, InstallFails,
         UndoFails
<1>2. /\ inst \in [Ids -> {NoTask} \cup Tasks] /\ env \in [Profiles -> Channel]
      /\ inst[i] \in Tasks /\ Prof(i) \in Profiles /\ env[Prof(i)] \in Channel
  BY <1>1, TaskShape DEF Shape, TypeOK, Tasks
<1>3. ASSUME NEW pc, inst[i].pc \in Locked \/ pc = "done", Go(i, pc), UNCHANGED sess,
             \A p \in Profiles : env'[p].acct = env[p].acct
      PROVE  (Mutex /\ Clear /\ AccountExclusive)'
  <2>1. \A j \in Ids : inst'[j].pc \in Locked =>
          inst[j].pc \in Locked /\ inst'[j].acct = inst[j].acct /\ inst'[j].prev = inst[j].prev
    BY <1>2, <1>3 DEF Go, Tasks, Locked
  <2> QED BY <1>3, <2>1, ExclusiveKept
<1>4. CASE InstallBegin(i)
  <2>1. CASE Taken(i)
    BY <1>3, <1>4, <2>1 DEF InstallBegin
  <2>2. CASE ~Taken(i)
    <3>1. /\ inst'[i].acct = inst[i].acct /\ inst'[i].prev = env[Prof(i)]
          /\ \A j \in Ids \ {i} : inst'[j] = inst[j] /\ inst[j].pc \notin Locked
          /\ UNCHANGED <<sess, env>>
      BY <1>2, <1>4, <2>2 DEF InstallBegin, InstallLock, Tasks
    <3>2. \A p \in Profiles \ {Prof(i)} : /\ env[p].acct # inst[i].acct
                                          /\ env[p].acct = "none" \/ env[p].acct # env[Prof(i)].acct
      BY <1>2, <2>2 DEF Taken, AccountExclusive
    <3> QED BY <3>1, <3>2 DEF Mutex, Clear, AccountExclusive, Prof
  <2> QED BY <2>1, <2>2
<1>5. CASE InstallWrite(i)
  <2>1. CASE inst[i].pc = "account"
    BY <1>5, <2>1, ExclusiveWrite DEF InstallWrite, Go, Locked
  <2>2. CASE inst[i].pc = "token"
    <3>1. \A p \in Profiles : env'[p].acct = env[p].acct
      BY <1>2, <1>5, <2>2 DEF InstallWrite, Channel
    <3> QED BY <1>3, <1>5, <2>2, <3>1 DEF InstallWrite, Locked
  <2> QED BY <1>5, <2>1, <2>2 DEF InstallWrite
<1>6. CASE UndoStep(i)
  <2>1. CASE inst[i].pc = "undo account"
    BY <1>6, <2>1, ExclusiveWrite DEF UndoStep, Go, Locked
  <2>2. CASE inst[i].pc = "undo token"
    <3>1. env' = [env EXCEPT ![Prof(i)].tok = inst[i].prev.tok] /\ UNCHANGED sess
          /\ Go(i, "undo restart")
      BY <1>6, <2>2 DEF UndoStep
    <3>2. \A p \in Profiles : env'[p].acct = env[p].acct
      BY <1>2, <3>1 DEF Channel
    <3> QED BY <1>3, <2>2, <3>1, <3>2 DEF Locked
  <2>3. CASE inst[i].pc = "undo restart"
    BY <1>3, <1>6, <2>3 DEF UndoStep, Locked
  <2> QED BY <1>6, <2>1, <2>2, <2>3 DEF UndoStep
<1>7. CASE InstallRestart(i)
  <2>1. \A j \in Ids : inst'[j].pc \in Locked => inst'[j] = inst[j]
    BY <1>2, <1>7 DEF InstallRestart, Locked, Tasks
  <2> QED BY <1>7, <2>1, ExclusiveKept DEF InstallRestart
<1>8. CASE InstallFails(i) \/ UndoFails(i)
  <2>1. CASE InstallFails(i)
    BY <1>3, <2>1 DEF InstallFails, Locked
  <2>2. CASE UndoFails(i)
    <3>1. \A j \in Ids : inst'[j].pc \in Locked => inst'[j] = inst[j]
      BY <1>2, <2>2 DEF UndoFails, Locked, Tasks
    <3> QED BY <2>2, <3>1, ExclusiveKept DEF UndoFails
  <2> QED BY <1>8, <2>1, <2>2
<1>9. CASE InstallEnd(i)
  <2>1. \A j \in Ids : inst'[j].pc \in Locked => inst'[j] = inst[j] /\ j # i /\ sess'[j] = sess[j]
    BY <1>2, <1>9 DEF InstallEnd, NoTask, Locked, Shape, TypeOK
  <2> QED BY <1>9, <2>1, ExclusiveKept DEF InstallEnd
<1> QED BY <1>4, <1>5, <1>6, <1>7, <1>8, <1>9 DEF InstallStep

\* The steps of a request change no task that holds the lock, nor the employee of one.
LEMMA ExclusiveRequest ==
  ASSUME Shape, Mutex, Clear, AccountExclusive, NEW r \in Requests,
         (\E e \in Employees : StartBegin(r, e)) \/ (\E i \in Ids : PollBegin(r, i))
           \/ StartStep(r) \/ PollStep(r) \/ Leave(r)
  PROVE  (Mutex /\ Clear /\ AccountExclusive)'
<1>1. env' = env
  BY RequestFacts
<1>2. ASSUME NEW i \in Ids, inst'[i].pc \in Locked
      PROVE  inst'[i] = inst[i] /\ sess'[i] = sess[i]
  <2>1. inst'[i].pc \notin {"none", "queued"}
    BY <1>2 DEF Locked
  <2>2. CASE inst[i].pc # "none"
    BY <2>2, RequestFacts
  <2>3. CASE inst[i].pc = "none"
    <3>1. inst'[i] = inst[i]
          \/ \E a \in Accounts : inst'[i] = NewTask(i, a)
      BY <2>3, RequestFacts
    <3>2. inst'[i].pc \in {"none", "queued"}
      BY <2>3, <3>1 DEF NewTask, NoTask
    <3> QED BY <2>1, <3>2
  <2> QED BY <2>2, <2>3
<1> QED BY <1>1, <1>2, ExclusiveKept

\* No two Profiles are configured with the same channel account: the check and the writes,
\* and their undoing, happen under one installation lock.
THEOREM AccountsExclusive == Spec => []AccountExclusive
<1> DEFINE IInv == Shape /\ Mutex /\ Clear /\ AccountExclusive
<1>1. Init => IInv
  <2> SUFFICES ASSUME Init PROVE IInv
    OBVIOUS
  <2>1. \A i \in Ids : inst[i].pc \notin Locked
    BY DEF Init, NoTask, Locked
  <2>2. AccountExclusive
    BY DEF Init, AccountExclusive, NoChannel
  <2> QED BY <2>1, <2>2, ShapeInit DEF Mutex, Clear
<1>2. IInv /\ [Next]_vars => IInv'
  <2> SUFFICES ASSUME IInv, [Next]_vars PROVE IInv'
    OBVIOUS
  <2>1. Shape'
    BY ShapeNext
  <2>2. ASSUME Crash \/ Tick \/ UNCHANGED vars
        PROVE  (Mutex /\ Clear /\ AccountExclusive)'
    <3>1. CASE Crash
      <4>1. env' = env /\ \A i \in Ids : inst'[i] = NoTask
        BY <3>1 DEF Crash
      <4>2. NoTask.pc \notin Locked
        BY DEF NoTask, Locked
      <4> QED BY <4>1, <4>2, ExclusiveKept
    <3>2. CASE Tick \/ UNCHANGED vars
      <4>1. env' = env /\ inst' = inst /\ sess' = sess
        BY <3>2 DEF Tick, vars
      <4> QED BY <4>1, ExclusiveKept
    <3> QED BY <2>2, <3>1, <3>2
  <2>3. ASSUME NEW r \in Requests,
               (\E e \in Employees : StartBegin(r, e)) \/ (\E i \in Ids : PollBegin(r, i))
                 \/ StartStep(r) \/ PollStep(r) \/ Leave(r)
        PROVE  (Mutex /\ Clear /\ AccountExclusive)'
    BY <2>3, ExclusiveRequest
  <2>4. ASSUME NEW i \in Ids, InstallStep(i) \/ InstallFails(i) \/ UndoFails(i)
        PROVE  (Mutex /\ Clear /\ AccountExclusive)'
    BY <2>4, ExclusiveInstall
  <2> QED BY <2>1, <2>2, <2>3, <2>4 DEF Next
<1>3. IInv => AccountExclusive
  OBVIOUS
<1> QED BY <1>1, <1>2, <1>3, PTL DEF Spec

-----------------------------------------------------------------------------
\* What an installation has made of its employee's Profile, control point by control point.
Mine(i) == [acct |-> inst[i].acct, tok |-> i]

Untouched(i) == inst[i].pc = "queued" \/ (inst[i].pc = "done" /\ ~inst[i].ok /\ ~inst[i].torn)

Result(i) ==
  LET t == inst[i]  p == Prof(i) IN
  /\ t.ok => t.pc = "done" /\ served[p] = Mine(i)
  /\ t.torn => t.pc = "done"
  /\ t.pc = "restart" \/ t.ok => env[p] = Mine(i)
  /\ t.pc \in Locked => t.prev = t.foundEnv
  /\ Untouched(i) \/ t.pc \in {"account", "undo restart"} => env[p] = t.foundEnv
  /\ t.pc = "token" => env[p] = [acct |-> t.acct, tok |-> t.foundEnv.tok]
  /\ t.pc = "undo token" => env[p].acct = t.foundEnv.acct
  /\ Untouched(i) => served[p] \in {t.foundEnv, t.foundServed}
Results == \A i \in Ids : inst[i].pc # "none" => Result(i)

\* An installation that this step leaves alone.
LEMMA ResultKept ==
  ASSUME NEW i \in Ids, Result(i), inst'[i] = inst[i], sess'[i].emp = sess[i].emp,
         env'[Prof(i)] = env[Prof(i)], served'[Prof(i)] \in {served[Prof(i)], env[Prof(i)]}
  PROVE  Result(i)'
<1>1. Prof(i)' = Prof(i) /\ Mine(i)' = Mine(i) /\ Untouched(i)' = Untouched(i)
  BY DEF Prof, Mine, Untouched
<1>2. /\ inst[i].ok => served'[Prof(i)] = Mine(i)
      /\ Untouched(i) => served'[Prof(i)] \in {inst[i].foundEnv, inst[i].foundServed}
  BY DEF Result
<1> QED BY <1>1, <1>2 DEF Result

\* An installation's own step.
LEMMA ResultStep ==
  ASSUME Shape, NEW i \in Ids, Result(i), InstallStep(i) \/ InstallFails(i) \/ UndoFails(i),
         inst'[i].pc # "none"
  PROVE  Result(i)'
<1> DEFINE t == inst[i]
           p == Prof(i)
<1>1. t.pc # "none"
  BY DEF InstallStep, InstallBegin, InstallWrite, InstallRestart, UndoStep, InstallEnd, InstallFails,
         UndoFails
<1>2. /\ t \in Tasks /\ p \in Profiles /\ env[p] \in Channel
      /\ inst \in [Ids -> {NoTask} \cup Tasks] /\ env \in [Profiles -> Channel]
  BY <1>1, TaskShape DEF Shape, TypeOK, Tasks
<1>3. ~InstallEnd(i)
  BY <1>2 DEF InstallEnd, NoTask
<1>4. sess' = sess /\ Prof(i)' = p
  BY <1>3 DEF InstallStep, InstallBegin, InstallWrite, InstallRestart, UndoStep, InstallFails, UndoFails,
              Prof
<1>5. ASSUME NEW pc, Go(i, pc)
      PROVE  /\ inst'[i].pc = pc /\ inst'[i].ok = t.ok /\ inst'[i].torn = t.torn
             /\ inst'[i].prev = t.prev /\ inst'[i].acct = t.acct
             /\ inst'[i].foundEnv = t.foundEnv /\ inst'[i].foundServed = t.foundServed
  BY <1>2, <1>5 DEF Go, Tasks
<1>6. CASE InstallBegin(i)
  <2>1. /\ t.pc = "queued" /\ ~t.ok /\ ~t.torn /\ env[p] = t.foundEnv
        /\ served[p] \in {t.foundEnv, t.foundServed} /\ env' = env /\ served' = served
    BY <1>6 DEF InstallBegin, Result, Untouched
  <2>2. CASE Go(i, "done")
    <3>1. /\ inst'[i].pc = "done" /\ inst'[i].ok = t.ok /\ inst'[i].torn = t.torn
          /\ inst'[i].prev = t.prev /\ inst'[i].acct = t.acct
          /\ inst'[i].foundEnv = t.foundEnv /\ inst'[i].foundServed = t.foundServed
      BY <1>5, <2>2
    <3> QED BY <1>4, <2>1, <3>1 DEF Result, Untouched, Locked
  <2>3. CASE inst' = [inst EXCEPT ![i].pc = "account", ![i].prev = env[Prof(i)]]
    <3>1. /\ inst'[i].pc = "account" /\ inst'[i].prev = env[p] /\ inst'[i].ok = t.ok
          /\ inst'[i].torn = t.torn /\ inst'[i].foundEnv = t.foundEnv
      BY <1>2, <2>3 DEF Tasks
    <3> QED BY <1>4, <2>1, <3>1 DEF Result, Untouched
  <2> QED BY <1>6, <2>2, <2>3 DEF InstallBegin
<1>7. CASE InstallWrite(i)
  <2>1. ~t.ok /\ ~t.torn /\ t.prev = t.foundEnv
    BY <1>7 DEF InstallWrite, Result, Locked
  <2>2. CASE t.pc = "account"
    <3>1. Go(i, "token") /\ env' = [env EXCEPT ![p].acct = t.acct] /\ env[p] = t.foundEnv
      BY <1>7, <2>2 DEF InstallWrite, Result
    <3>2. env'[p] = [acct |-> t.acct, tok |-> t.foundEnv.tok]
      BY <1>2, <3>1 DEF Channel
    <3>3. /\ inst'[i].pc = "token" /\ inst'[i].ok = t.ok /\ inst'[i].torn = t.torn
          /\ inst'[i].prev = t.prev /\ inst'[i].acct = t.acct
          /\ inst'[i].foundEnv = t.foundEnv /\ inst'[i].foundServed = t.foundServed
      BY <1>5, <3>1
    <3> QED BY <1>4, <2>1, <3>2, <3>3 DEF Result, Untouched, Locked
  <2>3. CASE t.pc = "token"
    <3>1. Go(i, "restart") /\ env' = [env EXCEPT ![p].tok = i] /\ env[p].acct = t.acct
      BY <1>7, <2>3 DEF InstallWrite, Result
    <3>2. env'[p] = [acct |-> t.acct, tok |-> i]
      BY <1>2, <3>1 DEF Channel
    <3>3. /\ inst'[i].pc = "restart" /\ inst'[i].ok = t.ok /\ inst'[i].torn = t.torn
          /\ inst'[i].prev = t.prev /\ inst'[i].acct = t.acct
          /\ inst'[i].foundEnv = t.foundEnv /\ inst'[i].foundServed = t.foundServed
      BY <1>5, <3>1
    <3>4. Mine(i)' = env'[p]
      BY <3>2, <3>3 DEF Mine
    <3> QED BY <1>4, <2>1, <3>3, <3>4 DEF Result, Untouched, Locked
  <2> QED BY <1>7, <2>2, <2>3 DEF InstallWrite
<1>8. CASE InstallRestart(i)
  <2>1. env[p] = Mine(i) /\ env' = env /\ served' = env
    BY <1>8 DEF InstallRestart, Result
  <2>2. inst'[i].pc = "done" /\ inst'[i].ok /\ inst'[i].acct = t.acct
    BY <1>2, <1>8 DEF InstallRestart, Tasks
  <2> QED BY <1>4, <2>1, <2>2 DEF Result, Mine, Untouched, Locked
<1>9. CASE UndoStep(i)
  <2>1. ~t.ok /\ ~t.torn /\ t.prev = t.foundEnv /\ t.foundEnv \in Channel
    BY <1>2, <1>9 DEF UndoStep, Result, Locked, Tasks
  <2>2. CASE t.pc = "undo account"
    <3>1. Go(i, "undo token") /\ env' = [env EXCEPT ![p].acct = t.prev.acct]
      BY <1>9, <2>2 DEF UndoStep
    <3>2. env'[p].acct = t.foundEnv.acct
      BY <1>2, <2>1, <3>1 DEF Channel
    <3>3. /\ inst'[i].pc = "undo token" /\ inst'[i].ok = t.ok /\ inst'[i].torn = t.torn
          /\ inst'[i].prev = t.prev /\ inst'[i].acct = t.acct
          /\ inst'[i].foundEnv = t.foundEnv /\ inst'[i].foundServed = t.foundServed
      BY <1>5, <3>1
    <3> QED BY <1>4, <2>1, <3>2, <3>3 DEF Result, Untouched, Locked
  <2>3. CASE t.pc = "undo token"
    <3>1. /\ Go(i, "undo restart") /\ env' = [env EXCEPT ![p].tok = t.prev.tok]
          /\ env[p].acct = t.foundEnv.acct
      BY <1>9, <2>3 DEF UndoStep, Result
    <3>2. env'[p] = t.foundEnv
      BY <1>2, <2>1, <3>1 DEF Channel
    <3>3. /\ inst'[i].pc = "undo restart" /\ inst'[i].ok = t.ok /\ inst'[i].torn = t.torn
          /\ inst'[i].prev = t.prev /\ inst'[i].acct = t.acct
          /\ inst'[i].foundEnv = t.foundEnv /\ inst'[i].foundServed = t.foundServed
      BY <1>5, <3>1
    <3> QED BY <1>4, <2>1, <3>2, <3>3 DEF Result, Untouched, Locked
  <2>4. CASE t.pc = "undo restart"
    <3>1. Go(i, "done") /\ env' = env /\ served' = env /\ env[p] = t.foundEnv
      BY <1>9, <2>4 DEF UndoStep, Result
    <3>2. /\ inst'[i].pc = "done" /\ inst'[i].ok = t.ok /\ inst'[i].torn = t.torn
          /\ inst'[i].prev = t.prev /\ inst'[i].acct = t.acct
          /\ inst'[i].foundEnv = t.foundEnv /\ inst'[i].foundServed = t.foundServed
      BY <1>5, <3>1
    <3>3. env'[p] = t.foundEnv /\ served'[p] = t.foundEnv
      BY <3>1
    <3> QED BY <1>4, <2>1, <3>2, <3>3 DEF Result, Untouched, Locked
  <2> QED BY <1>9, <2>2, <2>3, <2>4 DEF UndoStep
<1>10. CASE InstallFails(i)
  <2>1. ~t.ok /\ ~t.torn /\ t.prev = t.foundEnv /\ Go(i, "undo account")
    BY <1>10 DEF InstallFails, Result, Locked
  <2>2. /\ inst'[i].pc = "undo account" /\ inst'[i].ok = t.ok /\ inst'[i].torn = t.torn
        /\ inst'[i].prev = t.prev /\ inst'[i].acct = t.acct
        /\ inst'[i].foundEnv = t.foundEnv /\ inst'[i].foundServed = t.foundServed
    BY <1>5, <2>1
  <2> QED BY <1>4, <2>1, <2>2 DEF Result, Untouched
<1>11. CASE UndoFails(i)
  <2>1. ~t.ok /\ inst' = [inst EXCEPT ![i].pc = "done", ![i].torn = TRUE]
    BY <1>11 DEF UndoFails, Result
  <2>2. inst'[i].pc = "done" /\ inst'[i].torn /\ inst'[i].ok = t.ok
    BY <1>2, <2>1 DEF Tasks
  <2> QED BY <1>4, <2>1, <2>2 DEF Result, Untouched, Locked
<1> QED BY <1>3, <1>6, <1>7, <1>8, <1>9, <1>10, <1>11 DEF InstallStep

-----------------------------------------------------------------------------
\* An employee has one installation.
LEMMA OneInstall ==
  ASSUME Logins, NEW i \in Ids, NEW j \in Ids, inst[i].pc # "none", inst[j].pc # "none", i # j
  PROVE  Prof(i) # Prof(j)
<1>1. Shape /\ OneLogin
  BY DEF Logins
<1>2. sess[i].status = "connecting" /\ sess[j].status = "connecting"
  BY <1>1, TaskShape
<1> QED BY <1>1, <1>2 DEF OneLogin, Active, Prof

\* An installation writes its own Profile: the other installations stand.
LEMMA OutcomeInstall ==
  ASSUME Logins, Results, [Next]_vars,
         NEW i \in Ids, InstallStep(i) \/ InstallFails(i) \/ UndoFails(i)
  PROVE  Results'
<1> DEFINE t == inst[i]
           p == Prof(i)
<1>0. Shape
  BY DEF Logins
<1>1. t.pc # "none"
  BY DEF InstallStep, InstallBegin, InstallWrite, InstallRestart, UndoStep, InstallEnd, InstallFails,
         UndoFails
<1>2. /\ t \in Tasks /\ p \in Profiles /\ env[p] \in Channel
      /\ inst \in [Ids -> {NoTask} \cup Tasks] /\ env \in [Profiles -> Channel]
  BY <1>0, <1>1, TaskShape DEF Shape, TypeOK, Tasks
<1>3. \/ env' = env
      \/ \E a : env' = [env EXCEPT ![p].acct = a]
      \/ \E k : env' = [env EXCEPT ![p].tok = k]
  BY DEF InstallStep, InstallBegin, InstallWrite, InstallRestart, UndoStep, InstallEnd, InstallFails,
         UndoFails
<1>4. \A q \in Profiles \ {p} : env'[q] = env[q]
  BY <1>2, <1>3
<1>5. served' \in {served, env}
  BY DEF InstallStep, InstallBegin, InstallWrite, InstallRestart, UndoStep, InstallEnd, InstallFails,
         UndoFails
<1>6. \A j \in Ids \ {i} : inst'[j] = inst[j] /\ sess'[j] = sess[j]
  <2>1. CASE InstallEnd(i)
    BY <1>0, <1>2, <2>1 DEF InstallEnd, Shape, TypeOK
  <2>2. CASE ~InstallEnd(i)
    <3>1. sess' = sess /\ \E x : inst' = [inst EXCEPT ![i] = x]
      BY <2>2 DEF InstallStep, InstallBegin, InstallWrite, InstallRestart, UndoStep, InstallFails,
                  UndoFails, Go
    <3> QED BY <1>2, <3>1
  <2> QED BY <2>1, <2>2
<1>7. ASSUME NEW j \in Ids, inst'[j].pc # "none" PROVE Result(j)'
  <2>1. CASE j = i
    BY <1>0, <1>1, <1>7, <2>1, ResultStep DEF Results
  <2>2. CASE j # i
    <3>1. inst[j].pc # "none" /\ Prof(j) # p /\ Prof(j) \in Profiles
      BY <1>0, <1>1, <1>6, <1>7, <2>2, OneInstall, TaskShape
    <3>2. env'[Prof(j)] = env[Prof(j)] /\ served'[Prof(j)] \in {served[Prof(j)], env[Prof(j)]}
      BY <1>4, <1>5, <3>1
    <3> QED BY <1>6, <2>2, <3>1, <3>2, ResultKept DEF Results
  <2> QED BY <2>1, <2>2
<1> QED BY <1>7 DEF Results

\* A request's confirmed login queues an installation that has touched nothing.
LEMMA OutcomeRequest ==
  ASSUME Logins, Results, [Next]_vars, NEW r \in Requests,
         (\E e \in Employees : StartBegin(r, e)) \/ (\E i \in Ids : PollBegin(r, i))
           \/ StartStep(r) \/ PollStep(r) \/ Leave(r)
  PROVE  Results'
<1>0. Shape
  BY DEF Logins
<1>1. /\ UNCHANGED <<env, served, bounds>>
      /\ \A i \in Ids : inst[i].pc # "none" => inst'[i] = inst[i] /\ sess'[i] = sess[i]
      /\ \A i \in Ids : inst[i].pc = "none" =>
           \/ inst'[i] = inst[i]
           \/ /\ sess[i].status \in Open /\ sess'[i].emp = sess[i].emp
              /\ \E a \in Accounts : inst'[i] = NewTask(i, a)
  BY <1>0, RequestFacts
<1>2. ASSUME NEW i \in Ids, inst'[i].pc # "none" PROVE Result(i)'
  <2>1. CASE inst[i].pc # "none"
    BY <1>1, <2>1, ResultKept DEF Results
  <2>2. CASE inst[i].pc = "none"
    <3>1. sess'[i].emp = sess[i].emp /\ \E a \in Accounts : inst'[i] = NewTask(i, a)
      BY <1>1, <1>2, <2>2
    <3>2. /\ inst'[i].pc = "queued" /\ inst'[i].ok = FALSE /\ inst'[i].torn = FALSE
          /\ inst'[i].foundEnv = env[Prof(i)] /\ inst'[i].foundServed = served[Prof(i)]
      BY <3>1 DEF NewTask, NoTask
    <3>3. Prof(i)' = Prof(i)
      BY <3>1 DEF Prof
    <3> QED BY <1>1, <3>2, <3>3 DEF Result, Untouched, Locked
  <2> QED BY <2>1, <2>2
<1> QED BY <1>2 DEF Results

\* The inductive invariant behind the outcome shown to the employee.
Outcome == Logins /\ Results

\* It holds when no session was created.
LEMMA OutcomeInit == Init => Outcome
BY LoginsInit DEF Init, Outcome, Results, NoTask

\* Every step keeps it.
LEMMA OutcomeNext == Outcome /\ [Next]_vars => Outcome'
<1> SUFFICES ASSUME Logins, Results, [Next]_vars PROVE Results'
  BY LoginsNext DEF Outcome
<1>1. ASSUME NEW r \in Requests,
             (\E e \in Employees : StartBegin(r, e)) \/ (\E i \in Ids : PollBegin(r, i))
               \/ StartStep(r) \/ PollStep(r) \/ Leave(r)
      PROVE  Results'
  BY <1>1, OutcomeRequest
<1>2. ASSUME NEW i \in Ids, InstallStep(i) \/ InstallFails(i) \/ UndoFails(i)
      PROVE  Results'
  BY <1>2, OutcomeInstall
<1>3. CASE Crash
  BY <1>3 DEF Crash, Results, NoTask
<1>4. CASE Tick \/ UNCHANGED vars
  <2>1. UNCHANGED <<sess, inst, env, served>>
    BY <1>4 DEF Tick, vars
  <2> QED BY <2>1 DEF Results, Result, Untouched, Prof, Mine
<1> QED BY <1>1, <1>2, <1>3, <1>4 DEF Next

\* The result a session takes is the state of its employee's Profile.
LEMMA OutcomeShown ==
  ASSUME Outcome, [Next]_vars, NEW i \in Ids, sess[i].status = "connecting"
  PROVE  /\ sess'[i].status = "connected" =>
              served[sess[i].emp] = Mine(i) /\ env[sess[i].emp] = Mine(i)
         /\ sess'[i].status = "failed" /\ ~inst[i].torn =>
              /\ env[sess[i].emp] = inst[i].foundEnv
              /\ served[sess[i].emp] \in {inst[i].foundEnv, inst[i].foundServed}
<1>0. Shape
  BY DEF Outcome, Logins
<1>1. CASE InstallEnd(i)
  <2>1. sess \in [Ids -> {NoSession} \cup Sessions] /\ sess[i] \in Sessions
    BY <1>0, SessionShape DEF Shape, TypeOK, Sessions
  <2>2. sess'[i].status = IF inst[i].ok THEN "connected" ELSE "failed"
    BY <1>1, <2>1 DEF InstallEnd, Sessions
  <2>3. inst[i].pc = "done" /\ Result(i)
    BY <1>1 DEF InstallEnd, Outcome, Results
  <2> QED BY <2>2, <2>3 DEF Result, Untouched, Prof
<1>2. CASE ~InstallEnd(i)
  <2>1. sess'[i].status \in {"connecting", "gone"}
    <3>1. ASSUME NEW r \in Requests,
                 (\E e \in Employees : StartBegin(r, e)) \/ (\E k \in Ids : PollBegin(r, k))
                   \/ StartStep(r) \/ PollStep(r) \/ Leave(r)
          PROVE  sess'[i] = sess[i]
      BY <1>0, <3>1, RequestFacts DEF Shape, Busy
    <3>2. ASSUME NEW j \in Ids, InstallStep(j) \/ InstallFails(j) \/ UndoFails(j)
          PROVE  sess'[i] = sess[i]
      <4>1. CASE InstallEnd(j)
        <5>1. j # i
          BY <1>2, <4>1
        <5> QED BY <1>0, <4>1, <5>1 DEF InstallEnd, Shape, TypeOK
      <4>2. CASE ~InstallEnd(j)
        BY <3>2, <4>2 DEF InstallStep, InstallBegin, InstallWrite, InstallRestart, UndoStep,
                          InstallFails, UndoFails
      <4> QED BY <4>1, <4>2
    <3>3. Crash => sess'[i].status = "gone"
      BY <1>0, SessionShape DEF Crash, Sessions
    <3>4. Tick \/ UNCHANGED vars => sess'[i] = sess[i]
      BY DEF Tick, vars
    <3> QED BY <3>1, <3>2, <3>3, <3>4 DEF Next
  <2> QED BY <2>1
<1> QED BY <1>1, <1>2

\* A login shown as connected is what the running Gateway serves for the employee; one
\* shown as failed left account and token of the Profile as it found them, unless its own
\* undoing raised too.
THEOREM OutcomeIsTrue == Spec => OutcomeTrue
<1>1. Outcome /\ [Next]_vars =>
        \A i \in Ids : sess[i].status = "connecting" =>
          LET p == sess[i].emp
              t == inst[i]
              mine == [acct |-> t.acct, tok |-> i]
          IN /\ sess'[i].status = "connected" => served[p] = mine /\ env[p] = mine
             /\ sess'[i].status = "failed" /\ ~t.torn =>
                  env[p] = t.foundEnv /\ served[p] \in {t.foundEnv, t.foundServed}
  BY OutcomeShown DEF Mine
<1> QED BY <1>1, OutcomeInit, OutcomeNext, PTL DEF Spec, OutcomeTrue
=============================================================================
