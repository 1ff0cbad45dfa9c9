--------------------- MODULE AttachmentSafety_proofs ---------------------
(***************************************************************************)
(* What the steps of AttachmentCache never do, for every value of its      *)
(* constants: cleanups, admissions and served requests need only the types *)
(* of the state they start from; ProfileIsolation and OneCaptureTime need  *)
(* invariants of their own.                                                *)
(***************************************************************************)
EXTENDS AttachmentCache_proofs

-----------------------------------------------------------------------------
(* Cleanups. *)

\* A file that a cleanup drops from every slot is a file it deleted: a slot gives up a
\* reference to any other file only while another slot keeps one.
LEMMA LastReferenceIsDeleted ==
  ASSUME NEW st \in [Slots -> Row], NEW c,
         NEW f \in Registered(st), f \notin Registered(CleanStore(st, c))
  PROVE  f \in Deleted(st, c)
<1>1. \A x \in Slots : f \notin Named(CleanStore(st, c)[x])
  BY DEF Registered, Refs
<1>2. \A x \in Refs(st, f) : Dropped(st, c, x, f)
  <2>1. ASSUME NEW x \in Refs(st, f), ~Dropped(st, c, x, f)
        PROVE  FALSE
    <3>1. f \in Named(st[x]) /\ x \in Slots
      BY <2>1 DEF Refs
    <3>2. f \in Named(CleanRow(st, c, x))
      BY <2>1, <3>1, CleanRowType
    <3>3. f \in Named(CleanStore(st, c)[x])
      BY <3>1, <3>2 DEF CleanStore
    <3>4. QED
      BY <1>1, <3>1, <3>3
  <2>2. QED
    BY <2>1
<1>3. PICK x \in Slots : x \in Refs(st, f)
  BY DEF Registered, Refs
<1>4. CASE f \in Deleted(st, c)
  BY <1>4
<1>5. CASE \E y \in Refs(st, f) \ {x} : ~Removable(st, c, y, f)
  BY <1>2, <1>5 DEF Dropped
<1>6. QED
  BY <1>2, <1>3, <1>4, <1>5 DEF Dropped

\* What an outcome was asked to remove.
LEMMA OutcomeFacts ==
  ASSUME NEW st, NEW forced, NEW lru, NEW c \in Outcomes(st, forced, lru)
  PROVE  c.forced = forced /\ c.lru = lru
<1>1. PICK fail, w : c = Plan(forced, lru, fail, w)
  BY DEF Outcomes
<1>2. QED
  BY <1>1 DEF Plan

\* The steps CleanupStep names either run one cleanup or write no store and, if the
\* Gateway dies inside the scan, unlink only files the scan would have unlinked.
LEMMA CleanupStepCleans ==
  ASSUME Shape, [Next]_vars, CleanupStep
  PROVE  \/ \E c : Clean(store, active, {}, c)
         \/ UNCHANGED store /\ \A f \in disk \ disk' : lease[f] = 0
<1>1. CASE Crash
  BY <1>1 DEF Crash, Deleted
<1>2. CASE ~Crash
  <2>1. CASE live' # live \/ mnt' # mnt
    <3>1. \/ \E s \in Sessions : SessionReset(s)
          \/ \E p \in Profiles : MaintSweep(p)
          \/ MaintMeasure \/ MaintScan
      BY <1>2, <2>1
         DEF Next, vars, durable, memory, clock, elsewhere, CaptureBegin, CaptureStep,
             CaptureAdmit, CaptureCommit, TurnBegin, TurnStep, TurnPersist, TurnHandoff,
             ToolResolve, ToolStep, ToolTouch, ToolRefuse, ToolLease, ToolMark, ToolOpen,
             ToolRaise, ToolUploadFails, ToolAnalyzed, ToolActive, ToolConsume, ToolRelease,
             ToolFailMark, ToolCleanup, RequestCleanup, Maintenance, Tick
    <3>2. QED
      BY <3>1 DEF SessionReset, MaintSweep, MaintMeasure, MaintScan, durable
  <2>2. CASE UNCHANGED <<live, mnt>>
    <3>1. PICK u \in Tools : tpc[u] = "cleanup" /\ tpc'[u] = "idle"
      BY <2>2 DEF CleanupStep
    <3>2. tpc' # tpc
      BY <3>1
    <3>3. PICK t \in Tools : ToolStep(t) \/ \E k \in Kinds, s \in Sessions, f \in Files :
                                              ToolResolve(t, k, s, f)
      BY <1>2, <3>2
         DEF Next, vars, durable, memory, clock, CaptureBegin, CaptureStep,
             CaptureAdmit, CaptureCommit, TurnBegin, TurnStep, TurnPersist, TurnHandoff,
             SessionReset, RequestCleanup, Maintenance, MaintSweep, MaintMeasure, MaintScan,
             Tick
    <3>4. \A v \in Tools \ {t} : tpc'[v] = tpc[v]
      <4>1. \E pc : tpc' = [tpc EXCEPT ![t] = pc]
        BY <3>3 DEF End, Goto, ToolResolve, ToolStep, ToolTouch, ToolRefuse, ToolLease,
             ToolMark, ToolOpen, ToolRaise, ToolUploadFails, ToolAnalyzed, ToolActive,
             ToolConsume, ToolRelease, ToolFailMark, ToolCleanup
      <4>2. QED
        BY <4>1 DEF Shape, ToolsOK
    <3>5. tpc[t] = "cleanup"
      BY <3>1, <3>4
    <3>6. ToolCleanup(t)
      BY <3>3, <3>5 DEF ToolResolve, ToolStep, ToolTouch, ToolRefuse, ToolLease,
             ToolMark, ToolOpen, ToolRaise, ToolUploadFails, ToolAnalyzed, ToolActive,
             ToolConsume, ToolRelease, ToolFailMark
    <3>7. QED
      BY <3>6 DEF ToolCleanup
  <2>3. QED
    BY <2>1, <2>2
<1>3. QED
  BY <1>1, <1>2

\* No rotation, maintenance pass, end of an upload or crash inside a scan unlinks a file
\* while a handler holds its lease.
THEOREM CleanupLeavesLeased == Spec => CleanupSparesLeases
<1>1. ASSUME Shape, [Next]_vars, CleanupStep
      PROVE  \A f \in disk \ disk' : lease[f] = 0
  <2>1. CASE \E c : Clean(store, active, {}, c)
    BY <2>1 DEF Clean, Deleted
  <2>2. QED
    BY <1>1, <2>1, CleanupStepCleans
<1>2. Shape /\ [Next]_vars => [CleanupStep => \A f \in disk \ disk' : lease[f] = 0]_vars
  BY <1>1
<1>3. QED
  BY <1>2, ShapeAlways, PTL DEF Spec, CleanupSparesLeases

\* Whatever unlinks and store writes fail in a cleanup, a file that is still on disk
\* afterwards has not lost its last registration to it.
THEOREM CleanupStrandsNothing == Spec => CleanupNeverStrands
<1>1. ASSUME Shape, [Next]_vars, CleanupStep
      PROVE  (Registered(store) \ Registered(store')) \cap disk' = {}
  <2>1. store \in [Slots -> Row]
    BY <1>1 DEF Shape, DurableOK
  <2>2. CASE \E c : Clean(store, active, {}, c)
    <3>1. PICK c : store' = CleanStore(store, c) /\ disk' = (disk \ {}) \ Deleted(store, c)
      BY <2>2 DEF Clean
    <3>2. \A f \in Registered(store) : f \notin Registered(store') => f \in Deleted(store, c)
      BY <2>1, <3>1, LastReferenceIsDeleted
    <3>3. QED
      BY <3>1, <3>2
  <2>3. CASE UNCHANGED store
    BY <2>3
  <2>4. QED
    BY <1>1, <2>2, <2>3, CleanupStepCleans
<1>2. Shape /\ [Next]_vars =>
        [CleanupStep => (Registered(store) \ Registered(store')) \cap disk' = {}]_vars
  BY <1>1
<1>3. QED
  BY <1>2, ShapeAlways, PTL DEF Spec, CleanupNeverStrands

\* A rotation deletes a file only if every slot beside the rotated Session has let it
\* expire.
THEOREM ResetDeletesOwnFiles == Spec => ResetSparesOthers
<1>1. ASSUME Shape, [Next]_vars, NEW s \in live \ live', NEW f \in disk \ disk',
             NEW x \in Slots \ {Chat(s)}, f \in Named(store[x])
      PROVE  Expired(store[x][f])
  <2>1. PICK r \in Sessions : SessionReset(r)
    BY <1>1
       DEF Next, vars, durable, memory, clock, elsewhere, CaptureBegin, CaptureStep,
           CaptureAdmit, CaptureCommit, TurnBegin, TurnStep, TurnPersist, TurnHandoff,
           ToolResolve, ToolStep, ToolTouch, ToolRefuse, ToolLease, ToolMark, ToolOpen,
           ToolRaise, ToolUploadFails, ToolAnalyzed, ToolActive, ToolConsume, ToolRelease,
           ToolFailMark, ToolCleanup, RequestCleanup, Maintenance, MaintSweep, MaintMeasure,
           MaintScan, Crash, Tick
  <2>2. r = s
    BY <1>1, <2>1 DEF SessionReset
  <2>3. PICK c \in Cleanups(store, {Chat(s)}, FALSE) : Clean(store, active, {}, c)
    BY <2>1, <2>2 DEF SessionReset
  <2>4. c.forced = {Chat(s)} /\ c.lru = {}
    <3>1. c \in Outcomes(store, {Chat(s)}, {})
      BY <2>3 DEF Cleanups, Victims
    <3>2. QED
      BY <3>1, OutcomeFacts
  <2>5. f \in Doomed(store, c)
    BY <1>1, <2>3 DEF Clean, Deleted
  <2>6. Removable(store, c, x, f)
    BY <1>1, <2>5 DEF Doomed, Refs
  <2>7. QED
    BY <1>1, <2>4, <2>6 DEF Removable
<1>2. Shape /\ [Next]_vars =>
        [\A s \in live \ live' : \A f \in disk \ disk' : \A x \in Slots \ {Chat(s)} :
           f \in Named(store[x]) => Expired(store[x][f])]_vars
  BY <1>1
<1>3. QED
  BY <1>2, ShapeAlways, PTL DEF Spec, ResetSparesOthers

-----------------------------------------------------------------------------
(* Quotas and requests. *)

\* The bytes of finitely many files are finitely many, and more files have no fewer.
LEMMA BytesGrow ==
  ASSUME NEW T \in SUBSET Files, NEW S \in SUBSET T
  PROVE  Bytes(S) <= Bytes(T) /\ Bytes(S) \in Nat /\ Bytes(T) \in Nat
<1> DEFINE Of(f) == {f} \X (1 .. Size[f])
           Parts == {Of(f) : f \in T}
           Part == [f \in T |-> Of(f)]
<1>1. IsFiniteSet(T)
  BY Bounds, FS_Subset
<1>2. \A f \in T : IsFiniteSet(Of(f))
  <2>1. ASSUME NEW f \in T
        PROVE  IsFiniteSet(Of(f))
    <3>1. IsFiniteSet(1 .. Size[f])
      BY Bounds, FS_Interval
    <3>2. IsFiniteSet({f})
      BY FS_Singleton
    <3>3. QED
      BY <3>1, <3>2, FS_Product
  <2>2. QED
    BY <2>1
<1>3. IsFiniteSet(Parts)
  <2>1. Part \in Surjection(T, Parts)
    BY DEF Surjection
  <2>2. QED
    BY <1>1, <2>1, FS_Surjection
<1>4. IsFiniteSet(UNION Parts)
  BY <1>2, <1>3, FS_UNION
<1>5. UNION {Of(f) : f \in S} \subseteq UNION Parts
  OBVIOUS
<1>6. Bytes(T) = Cardinality(UNION Parts) /\ Bytes(S) = Cardinality(UNION {Of(f) : f \in S})
  BY DEF Bytes
<1> HIDE DEF Of, Parts, Part
<1>7. QED
  BY <1>4, <1>5, <1>6, FS_Subset, FS_CardinalityType

\* The step between a batch's two control points is its admission.
LEMMA AdmissionSteps ==
  ASSUME Shape, [Next]_vars, capture.pc = "admit", capture'.pc = "commit"
  PROVE  CaptureAdmit
<1>1. capture' # capture
  OBVIOUS
<1>2. ~Crash
  BY DEF Crash
<1>3. \A p \in Profiles, B \in SUBSET Files : ~CaptureBegin(p, B)
  BY DEF CaptureBegin
<1>4. ~CaptureCommit
  BY DEF CaptureCommit
<1>5. QED
  BY <1>1, <1>2, <1>3, <1>4
     DEF Next, vars, durable, memory, clock, elsewhere, CaptureStep,
         TurnBegin, TurnStep, TurnPersist, TurnHandoff, SessionReset,
         ToolResolve, ToolStep, ToolTouch, ToolRefuse, ToolLease, ToolMark, ToolOpen,
         ToolRaise, ToolUploadFails, ToolAnalyzed, ToolActive, ToolConsume, ToolRelease,
         ToolFailMark, ToolCleanup, RequestCleanup, Maintenance, MaintSweep, MaintMeasure,
         MaintScan, Tick

\* After an accepted batch what the Profile and all Profiles have registered is within their
\* quotas, also when room was made for it or a slot was pushed out.
THEOREM AdmittedWithinQuota == Spec => AdmissionWithinQuota
<1> DEFINE InProfile(st, p) == {f \in Files : \E x \in SlotsOf(p) : f \in Named(st[x])}
<1>1. ASSUME Shape, [Next]_vars, capture.pc = "admit", capture'.pc = "commit",
             Named(capture'.fresh) # {}
      PROVE  /\ Bytes(InProfile(store', capture.prof)) <= ProfileMaxBytes
             /\ Bytes(Registered(store')) <= RejectBytes
  <2> DEFINE B == Named(capture.fresh)
             x == Pending(capture.prof)
  <2>1. CaptureAdmit
    BY <1>1, AdmissionSteps
  <2>2. capture \in [pc : {"admit", "commit"}, prof : Profiles, fresh : Row, seen : Bridges,
                     note : BOOLEAN]
    BY <1>1, CaptureShape
  <2>3. PICK st, act, dk, after :
          /\ ~OverQuota(st, capture.prof, B, after) /\ Accept(st, act, dk)
    <3>1. \E st, act, dk : (\E states : Decide(st, act, dk, states)) \/ Abort(st, act, dk)
      BY <2>1 DEF CaptureAdmit
    <3>2. \A st, act, dk : ~Abort(st, act, dk)
      BY <1>1 DEF Abort
    <3>3. \A st, act, dk : ~Refuse(st, act, dk)
      <4>1. ASSUME NEW st, NEW act, NEW dk, Refuse(st, act, dk)
            PROVE  FALSE
        <5>1. capture'.fresh = NoRow
          BY <2>2, <4>1 DEF Refuse
        <5>2. QED
          BY <1>1, <5>1 DEF Named, NoRow, NoGrant
      <4>2. QED
        BY <4>1
    <3>4. QED
      BY <3>1, <3>2, <3>3 DEF Decide
  <2>4. PICK row, out :
          /\ row = [f \in Files |-> IF f \in B THEN capture.fresh[f] ELSE st[x][f]]
          /\ store' = Put(st, x, row, out)
    BY <2>3 DEF Accept
  <2>5. \A y \in Slots : Named(store'[y]) \subseteq Named(st[y]) \cup (IF y = x THEN B ELSE {})
    BY <2>4 DEF Put, Named, NoRow, NoGrant
  <2>6. x \in Slots /\ Home(x) = capture.prof /\ B \subseteq Files
    BY <2>2, SlotFacts DEF Named
  <2>7. InProfile(store', capture.prof) \subseteq InProfile(st, capture.prof) \cup B
    BY <2>5 DEF SlotsOf
  <2>8. Registered(store') \subseteq Registered(st) \cup B
    BY <2>5 DEF Registered, Refs
  <2>9. /\ ~(Bytes(Registered(st) \cup B) > RejectBytes)
        /\ ~(Bytes(InProfile(st, capture.prof) \cup B) > ProfileMaxBytes)
    BY <2>3 DEF OverQuota
  <2>10. Registered(st) \cup B \subseteq Files /\ InProfile(st, capture.prof) \cup B \subseteq Files
    BY <2>6 DEF Registered
  <2>11. RejectBytes \in Nat /\ ProfileMaxBytes \in Nat
    BY Bounds
  <2> HIDE DEF InProfile
  <2>12. /\ Bytes(InProfile(store', capture.prof)) <= Bytes(InProfile(st, capture.prof) \cup B)
         /\ Bytes(InProfile(store', capture.prof)) \in Nat
         /\ Bytes(InProfile(st, capture.prof) \cup B) \in Nat
    BY <2>7, <2>10, BytesGrow
  <2>13. /\ Bytes(Registered(store')) <= Bytes(Registered(st) \cup B)
         /\ Bytes(Registered(store')) \in Nat /\ Bytes(Registered(st) \cup B) \in Nat
    BY <2>8, <2>10, BytesGrow
  <2>14. QED
    BY <2>9, <2>11, <2>12, <2>13
<1>2. Shape /\ [Next]_vars =>
        [capture.pc = "admit" /\ capture'.pc = "commit" /\ Named(capture'.fresh) # {} =>
           /\ Bytes({f \in Files : \E x \in SlotsOf(capture.prof) : f \in Named(store'[x])})
                <= ProfileMaxBytes
           /\ Bytes(Registered(store')) <= RejectBytes]_vars
  BY <1>1
<1>3. QED
  BY <1>2, ShapeAlways, PTL DEF Spec, AdmissionWithinQuota

\* A step that takes a request away without ending a turn or a Session is the worker's
\* cleanup of its Profile.
LEMMA RequestsTakenBySweep ==
  ASSUME Shape, [Next]_vars, live' = live, turn' = turn, NEW p \in marker \ marker'
  PROVE  \E c \in Cleanups(store, SlotsOf(p), FALSE) :
           /\ Clean(store, active, {}, c)
           /\ marker' \in Markers(store, c, p)
<1>1. \A s \in Sessions : ~SessionReset(s) /\ ~TurnHandoff(s)
  <2>1. ASSUME NEW s \in Sessions, TurnHandoff(s)
        PROVE  FALSE
    <3>1. turn'[s] = [pc |-> "idle"] /\ turn[s].pc = "handoff"
      BY <2>1 DEF TurnHandoff, Shape, MemoryOK
    <3>2. QED
      BY <3>1
  <2>2. QED
    BY <2>1 DEF SessionReset
<1>2. PICK q \in Profiles : MaintSweep(q)
  BY <1>1
     DEF Next, vars, durable, memory, clock, elsewhere, CaptureBegin, CaptureStep,
         CaptureAdmit, CaptureCommit, TurnBegin, TurnStep, TurnPersist,
         ToolResolve, ToolStep, ToolTouch, ToolRefuse, ToolLease, ToolMark, ToolOpen,
         ToolRaise, ToolUploadFails, ToolAnalyzed, ToolActive, ToolConsume, ToolRelease,
         ToolFailMark, ToolCleanup, RequestCleanup, Maintenance, MaintMeasure,
         MaintScan, Crash, Tick
<1>3. PICK c \in Cleanups(store, SlotsOf(q), FALSE) :
        Clean(store, active, {}, c) /\ marker' \in Markers(store, c, q)
  BY <1>2 DEF MaintSweep
<1>4. p = q
  BY <1>3 DEF Markers
<1>5. QED
  BY <1>3, <1>4

\* A request is only taken away when each of the Profile's slots has been written as the
\* cleanup wants it, so that whatever is still registered there waits for its deletion.
THEOREM RequestsAreServed == Spec => RequestServed
<1>1. ASSUME Shape, [Next]_vars, live' = live, turn' = turn, NEW p \in marker \ marker',
             NEW x \in SlotsOf(p), NEW f \in Named(store'[x])
      PROVE  store'[x][f].del
  <2>1. PICK c \in Cleanups(store, SlotsOf(p), FALSE) :
          Clean(store, active, {}, c) /\ marker' \in Markers(store, c, p)
    BY <1>1, RequestsTakenBySweep
  <2>2. c.forced = SlotsOf(p)
    BY <2>1, OutcomeFacts DEF Cleanups, Victims
  <2>3. Changed(store, c) \cap SlotsOf(p) \subseteq c.written
    BY <1>1, <2>1 DEF Markers
  <2>4. x \in Slots
    BY DEF SlotsOf
  <2>5. store'[x] = CleanRow(store, c, x)
    BY <2>1, <2>3, <2>4 DEF Clean, CleanStore, Changed
  <2>6. store \in [Slots -> Row] /\ f \in Files
    BY <1>1 DEF Shape, DurableOK, Named
  <2>7. f \in Named(store[x]) /\ ~Dropped(store, c, x, f)
    BY <2>4, <2>5, <2>6, CleanRowType
  <2>8. Removable(store, c, x, f)
    BY <2>2, <2>7 DEF Removable
  <2>9. store'[x][f] = [store[x][f] EXCEPT !.del = TRUE]
    BY <2>5, <2>6, <2>7, <2>8 DEF CleanRow
  <2>10. store[x][f] \in Grant
    BY <2>4, <2>6 DEF Row
  <2>11. QED
    BY <2>9, <2>10 DEF Grant
<1>2. Shape /\ [Next]_vars =>
        [live' = live /\ turn' = turn =>
           \A p \in marker \ marker' : \A x \in SlotsOf(p) : \A f \in Named(store'[x]) :
             store'[x][f].del]_vars
  BY <1>1
<1>3. QED
  BY <1>2, ShapeAlways, PTL DEF Spec, RequestServed

-----------------------------------------------------------------------------
(* ProfileIsolation is not inductive alone: a capture and a turn carry files   *)
(* between the bridge and the store, so what they carry is part of the         *)
(* invariant.                                                                  *)

Owned(p, F) == \A f \in F : Owner[f] = p
StoreOwned == \A x \in Slots : Owned(Home(x), Named(store[x])) /\ Owned(Home(x), active[x])
CacheOwned == \A s \in Sessions : Owned(ProfileOf[s], Named(cache[s]))
BridgeOwned == \A p \in Profiles : Owned(p, Named(bridge[p].row))
CallsOwned ==
  \A t \in Tools : tpc[t] # "idle" => Owner[call[t].file] = ProfileOf[call[t].sess]
CarriedOwned ==
  /\ capture.pc # "idle" => /\ Owned(capture.prof, Named(capture.fresh))
                            /\ Owned(capture.prof, Named(capture.seen.row))
  /\ \A s \in Sessions : turn[s].pc # "idle" =>
       Owned(ProfileOf[s], Named(turn[s].entries.row))
Isolated == StoreOwned /\ CacheOwned /\ BridgeOwned /\ CallsOwned /\ CarriedOwned

\* The empty row names no file.
LEMMA NoRowNamesNothing == Named(NoRow) = {} /\ \A p : Owned(p, Named(NoRow))
  BY DEF Named, NoRow, NoGrant, Owned

\* A cut-down row names no more.
LEMMA OnlyNames ==
  ASSUME NEW row, NEW K
  PROVE  Named(Only(row, K)) \subseteq Named(row)
  BY DEF Only, Named, NoGrant

\* Writing a slot with files of its Profile, and dropping others, keeps a store owned.
LEMMA PutOwned ==
  ASSUME NEW st, NEW x \in Slots, NEW row, NEW out, Owned(Home(x), Named(row)),
         \A y \in Slots : Owned(Home(y), Named(st[y]))
  PROVE  \A y \in Slots : Owned(Home(y), Named(Put(st, x, row, out)[y]))
  BY NoRowNamesNothing DEF Put

\* So does a cleanup, which only drops.
LEMMA CleanOwned ==
  ASSUME NEW st \in [Slots -> Row], NEW act \in [Slots -> SUBSET Files], NEW c,
         \A y \in Slots : Owned(Home(y), Named(st[y])) /\ Owned(Home(y), act[y])
  PROVE  \A y \in Slots : /\ Owned(Home(y), Named(CleanStore(st, c)[y]))
                          /\ Owned(Home(y), CleanActive(act, st, c)[y])
<1>1. \A y \in Slots : Named(CleanStore(st, c)[y]) \subseteq Named(st[y])
  BY CleanRowType DEF CleanStore
<1>2. \A y \in Slots : CleanActive(act, st, c)[y] \subseteq act[y]
  BY DEF CleanActive
<1>3. QED
  BY <1>1, <1>2 DEF Owned

\* What a Session loads belongs to its Profile.
LEMMA LoadedOwned ==
  ASSUME Isolated, NEW s \in Sessions, NEW row \in LoadedRows(s)
  PROVE  Owned(ProfileOf[s], Named(row))
<1>1. \E src \in {cache[s], store[Chat(s)]} : \E K : row = Only(src, K)
  BY DEF LoadedRows
<1>2. Owned(ProfileOf[s], Named(cache[s])) /\ Owned(ProfileOf[s], Named(store[Chat(s)]))
  BY SlotFacts DEF Isolated, CacheOwned, StoreOwned
<1>3. QED
  BY <1>1, <1>2, OnlyNames DEF Owned

\* No file changes hands in the first hold of the capture hook: a new batch.
LEMMA IsolatedCaptureBegin ==
  ASSUME Shape, Isolated, NEW p \in Profiles, NEW B \in SUBSET Files, CaptureBegin(p, B)
  PROVE  Isolated'
<1>1. PICK head \in SUBSET B :
        /\ capture'.prof = p
        /\ capture'.fresh = [f \in Files |-> IF f \in head \cap Supported THEN Fresh ELSE NoGrant]
        /\ capture'.seen = bridge[p]
  BY DEF CaptureBegin
<1>2. Owned(p, Named(capture'.fresh))
  BY <1>1 DEF CaptureBegin, Named, NoGrant, Owned
<1>3. Owned(p, Named(capture'.seen.row))
  BY <1>1 DEF Isolated, BridgeOwned
<1>4. CarriedOwned'
  BY <1>1, <1>2, <1>3 DEF CaptureBegin, Isolated, CarriedOwned
<1>5. QED
  BY <1>4 DEF CaptureBegin, Isolated, StoreOwned, CacheOwned, BridgeOwned, CallsOwned

\* No file changes hands in the admission of a batch.
LEMMA IsolatedCaptureAdmit ==
  ASSUME Shape, Isolated, CaptureAdmit
  PROVE  Isolated'
<1>1. /\ capture \in [pc : {"admit", "commit"}, prof : Profiles, fresh : Row, seen : Bridges,
                      note : BOOLEAN]
      /\ capture.pc # "idle"
  BY CaptureShape DEF CaptureAdmit
<1>2. PICK st, act, dk :
        /\ st \in [Slots -> Row] /\ act \in [Slots -> SUBSET Files]
        /\ \A y \in Slots : Owned(Home(y), Named(st[y])) /\ Owned(Home(y), act[y])
        /\ Accept(st, act, dk) \/ Refuse(st, act, dk) \/ Abort(st, act, dk)
  <2>1. store \in [Slots -> Row] /\ active \in [Slots -> SUBSET Files]
    BY DEF Shape, DurableOK
  <2>2. \A y \in Slots : Owned(Home(y), Named(store[y])) /\ Owned(Home(y), active[y])
    BY DEF Isolated, StoreOwned
  <2>3. CASE \E states : Decide(store, active, disk, states)
    BY <2>1, <2>2, <2>3 DEF Decide
  <2>4. ASSUME NEW c, \/ \E states : Decide(CleanStore(store, c),
                           CleanActive(active, store, c), disk \ Deleted(store, c), states)
                      \/ Abort(CleanStore(store, c), CleanActive(active, store, c),
                               disk \ Deleted(store, c))
        PROVE  \E st, act, dk :
                 /\ st \in [Slots -> Row] /\ act \in [Slots -> SUBSET Files]
                 /\ \A y \in Slots : Owned(Home(y), Named(st[y])) /\ Owned(Home(y), act[y])
                 /\ Accept(st, act, dk) \/ Refuse(st, act, dk) \/ Abort(st, act, dk)
    <3>2. /\ CleanStore(store, c) \in [Slots -> Row]
          /\ CleanActive(active, store, c) \in [Slots -> SUBSET Files]
      BY <2>1, CleanType
    <3>3. \A y \in Slots : /\ Owned(Home(y), Named(CleanStore(store, c)[y]))
                           /\ Owned(Home(y), CleanActive(active, store, c)[y])
      BY <2>1, <2>2, CleanOwned
    <3>4. QED
      BY <2>4, <3>2, <3>3 DEF Decide
  <2>5. \/ \E states : Decide(store, active, disk, states)
        \/ \E c : \/ \E states : Decide(CleanStore(store, c),
                       CleanActive(active, store, c), disk \ Deleted(store, c), states)
                  \/ Abort(CleanStore(store, c), CleanActive(active, store, c),
                           disk \ Deleted(store, c))
    BY DEF CaptureAdmit
  <2>6. QED
    BY <2>3, <2>4, <2>5
<1>3. StoreOwned'
  <2>1. CASE Accept(st, act, dk)
    <3> DEFINE x == Pending(capture.prof)
               row == [f \in Files |-> IF f \in Named(capture.fresh) THEN capture.fresh[f]
                                       ELSE st[x][f]]
    <3>1. PICK out : store' = Put(st, x, row, out)
                     /\ active' = [y \in Slots |-> IF y \in out THEN {} ELSE act[y]]
      BY <2>1 DEF Accept
    <3>2. x \in Slots /\ Home(x) = capture.prof
      BY <1>1, SlotFacts
    <3>3. Owned(Home(x), Named(row))
      BY <1>1, <1>2, <3>2 DEF Owned, Named, Isolated, CarriedOwned
    <3>4. \A y \in Slots : Owned(Home(y), Named(store'[y]))
      BY <1>2, <3>1, <3>2, <3>3, PutOwned
    <3>5. \A y \in Slots : Owned(Home(y), active'[y])
      BY <1>2, <3>1 DEF Owned
    <3>6. QED
      BY <3>4, <3>5 DEF StoreOwned
  <2>2. CASE Refuse(st, act, dk) \/ Abort(st, act, dk)
    BY <1>2, <2>2 DEF Refuse, Abort, StoreOwned
  <2>3. QED
    BY <1>2, <2>1, <2>2
<1>4. CarriedOwned'
  <2>1. capture'.pc # "idle" => /\ capture'.prof = capture.prof
                                /\ capture'.fresh \in {capture.fresh, NoRow}
                                /\ capture'.seen = capture.seen
    <3>1. capture' \in {[pc |-> "idle"], [capture EXCEPT !.pc = "commit"],
                        [capture EXCEPT !.pc = "commit", !.fresh = NoRow, !.note = TRUE]}
      BY <1>2 DEF Accept, Refuse, Abort
    <3>2. CASE capture' = [capture EXCEPT !.pc = "commit"]
      BY <1>1, <3>2
    <3>3. CASE capture' = [capture EXCEPT !.pc = "commit", !.fresh = NoRow, !.note = TRUE]
      BY <1>1, <3>3
    <3>4. QED
      BY <3>1, <3>2, <3>3
  <2>2. QED
    BY <1>1, <2>1, NoRowNamesNothing DEF CaptureAdmit, Isolated, CarriedOwned
<1>5. QED
  BY <1>3, <1>4 DEF CaptureAdmit, Isolated, CacheOwned, BridgeOwned, CallsOwned

\* No file changes hands in the last hold of the capture hook.
LEMMA IsolatedCaptureCommit ==
  ASSUME Shape, Isolated, CaptureCommit
  PROVE  Isolated'
<1> DEFINE row == [f \in Files |-> IF f \in Named(capture.fresh) THEN capture.fresh[f]
                                   ELSE capture.seen.row[f]]
<1>1. capture \in [pc : {"admit", "commit"}, prof : Profiles, fresh : Row, seen : Bridges,
                   note : BOOLEAN]
  BY CaptureShape DEF CaptureCommit
<1>2. Owned(capture.prof, Named(row))
  BY DEF CaptureCommit, Owned, Named, Isolated, CarriedOwned
<1>3. bridge' = [bridge EXCEPT ![capture.prof] = [row |-> row, note |-> capture.note]]
  BY DEF CaptureCommit
<1>4. BridgeOwned'
  BY <1>1, <1>2, <1>3 DEF Isolated, BridgeOwned, Shape, MemoryOK
<1>5. QED
  BY <1>4 DEF CaptureCommit, Isolated, StoreOwned, CacheOwned, CallsOwned, CarriedOwned, durable

\* No file changes hands in a turn popping what waits for its Profile.
LEMMA IsolatedTurnBegin ==
  ASSUME Shape, Isolated, NEW s \in Sessions, TurnBegin(s)
  PROVE  Isolated'
<1>1. ProfileOf[s] \in Profiles
  BY Bounds
<1>2. BridgeOwned'
  BY <1>1, NoRowNamesNothing DEF TurnBegin, Isolated, BridgeOwned, NoBridge, Shape, MemoryOK
<1>3. Owned(ProfileOf[s], Named(bridge[ProfileOf[s]].row))
  BY <1>1 DEF Isolated, BridgeOwned
<1>4. /\ turn'[s].entries = bridge[ProfileOf[s]]
      /\ \A r \in Sessions \ {s} : turn'[r] = turn[r]
  BY DEF TurnBegin, Shape, MemoryOK
<1>5. CarriedOwned'
  BY <1>3, <1>4 DEF TurnBegin, Isolated, CarriedOwned
<1>6. QED
  BY <1>2, <1>5 DEF TurnBegin, Isolated, StoreOwned, CacheOwned, CallsOwned, durable

\* What is left of a turn's entries when it moves on or ends.
LEMMA TurnsOwned ==
  ASSUME Shape, Isolated, NEW s \in Sessions, UNCHANGED capture,
         \/ turn' = [turn EXCEPT ![s] = [pc |-> "idle"]]
         \/ turn[s].pc # "idle" /\ turn' = [turn EXCEPT ![s] = [@ EXCEPT !.pc = "handoff"]]
  PROVE  CarriedOwned'
<1>1. \A r \in Sessions \ {s} : turn'[r] = turn[r]
  BY DEF Shape, MemoryOK
<1>2. turn'[s].pc # "idle" => turn[s].pc # "idle" /\ turn'[s].entries = turn[s].entries
  BY TurnShape DEF Shape, MemoryOK
<1>3. QED
  BY <1>1, <1>2 DEF Isolated, CarriedOwned

\* No file changes hands in a turn recording its user message.
LEMMA IsolatedTurnPersist ==
  ASSUME Shape, Isolated, NEW s \in Sessions, TurnPersist(s)
  PROVE  Isolated'
<1>1. CarriedOwned'
  BY TurnsOwned DEF TurnPersist
<1>2. StoreOwned'
  <2>1. CASE UNCHANGED <<store, kept, active>>
    BY <2>1 DEF Isolated, StoreOwned
  <2>2. ASSUME NEW out, store' = Put(store, Chat(s), store[Chat(s)], out),
               active' = [y \in Slots |-> IF y \in out THEN {} ELSE active[y]]
        PROVE  StoreOwned'
    <3>1. \A y \in Slots : Owned(Home(y), Named(store'[y]))
      BY <2>2, PutOwned, SlotFacts DEF Isolated, StoreOwned
    <3>2. \A y \in Slots : Owned(Home(y), active'[y])
      BY <2>2 DEF Isolated, StoreOwned, Owned
    <3>3. QED
      BY <3>1, <3>2 DEF StoreOwned
  <2>3. QED
    BY <2>1, <2>2 DEF TurnPersist
<1>3. QED
  BY <1>1, <1>2 DEF TurnPersist, Isolated, CacheOwned, BridgeOwned, CallsOwned

\* No file changes hands in the handoff of the waiting files to the Session.
LEMMA IsolatedTurnHandoff ==
  ASSUME Shape, Isolated, NEW s \in Sessions, TurnHandoff(s)
  PROVE  Isolated'
<1> DEFINE e == turn[s].entries.row
           G == CurrentIn(e)
<1>1. turn[s] \in [pc : {"persist", "handoff"}, entries : Bridges] /\ turn[s].pc # "idle"
  BY TurnShape DEF TurnHandoff
<1>2. PICK old, out, A, refused :
        /\ old \in LoadedRows(s)
        /\ Rewrite(s, G, [f \in Files |-> IF f \in A THEN e[f] ELSE old[f]], out, refused)
  BY DEF TurnHandoff
<1> DEFINE row == [f \in Files |-> IF f \in A THEN e[f] ELSE old[f]]
           st == IF G = {} THEN store ELSE Put(store, Chat(s), row, out)
           act == IF G = {} THEN active
                  ELSE [y \in Slots |-> IF y \in out THEN {} ELSE active[y]]
<1>3. row \in Row
  BY <1>1, <1>2, LoadedType DEF Row, Bridges
<1>4. Owned(ProfileOf[s], Named(row))
  <2>1. Owned(ProfileOf[s], Named(e)) /\ Owned(ProfileOf[s], Named(old))
    BY <1>1, <1>2, LoadedOwned DEF Isolated, CarriedOwned
  <2>2. QED
    BY <2>1 DEF Owned, Named
<1>5. /\ st \in [Slots -> Row] /\ act \in [Slots -> SUBSET Files]
      /\ \A y \in Slots : Owned(Home(y), Named(st[y])) /\ Owned(Home(y), act[y])
  <2>1. Chat(s) \in Slots /\ Home(Chat(s)) = ProfileOf[s]
    BY SlotFacts
  <2>2. /\ st \in [Slots -> Row] /\ act \in [Slots -> SUBSET Files]
    BY <1>3, PutType DEF Shape, DurableOK
  <2>3. \A y \in Slots : Owned(Home(y), Named(st[y]))
    BY <1>4, <2>1, PutOwned DEF Isolated, StoreOwned
  <2>4. \A y \in Slots : Owned(Home(y), act[y])
    BY DEF Isolated, StoreOwned, Owned
  <2>5. QED
    BY <2>2, <2>3, <2>4
<1>6. StoreOwned'
  <2>1. CASE UNCHANGED <<store, active>>
    BY <2>1 DEF Isolated, StoreOwned
  <2>2. CASE \E c : Clean(st, act, refused, c)
    <3>1. PICK c : store' = CleanStore(st, c) /\ active' = CleanActive(act, st, c)
      BY <2>2 DEF Clean
    <3>2. QED
      BY <1>5, <3>1, CleanOwned DEF StoreOwned
  <2>3. QED
    BY <1>2, <2>1, <2>2 DEF Rewrite
<1>7. CacheOwned'
  <2>1. cache' = cache \/ cache' = [cache EXCEPT ![s] = row]
    BY <1>2 DEF Rewrite
  <2>2. QED
    BY <1>4, <2>1 DEF Isolated, CacheOwned, Shape, MemoryOK
<1>8. CarriedOwned'
  BY TurnsOwned DEF TurnHandoff
<1>9. QED
  BY <1>6, <1>7, <1>8 DEF TurnHandoff, Isolated, BridgeOwned, CallsOwned

\* No file changes hands in a tool call resolving its attachment.
LEMMA IsolatedToolResolve ==
  ASSUME Shape, Isolated, NEW t \in Tools, NEW k \in Kinds, NEW s \in Sessions,
         NEW f \in Files, ToolResolve(t, k, s, f)
  PROVE  Isolated'
<1>1. PICK row \in LoadedRows(s) :
        /\ f \in Named(row) /\ Remember(s, row)
        /\ call' = [call EXCEPT ![t] = [kind |-> k, sess |-> s, file |-> f, grant |-> row[f]]]
  BY DEF ToolResolve
<1>2. Owned(ProfileOf[s], Named(row))
  BY LoadedOwned
<1>3. CacheOwned'
  BY <1>1, <1>2 DEF Remember, Isolated, CacheOwned, Shape, MemoryOK
<1>4. CallsOwned'
  <2>1. \A u \in Tools \ {t} : tpc'[u] = tpc[u] /\ call'[u] = call[u]
    BY <1>1 DEF ToolResolve, Goto, Shape, ToolsOK
  <2>2. Owner[call'[t].file] = ProfileOf[call'[t].sess]
    BY <1>1, <1>2 DEF Owned, Shape, ToolsOK
  <2>3. QED
    BY <2>1, <2>2 DEF Isolated, CallsOwned
<1>5. QED
  BY <1>3, <1>4 DEF ToolResolve, Isolated, StoreOwned, BridgeOwned, CarriedOwned, durable

\* A best-effort update writes a grant the handler holds back to the slot it came from.
LEMMA UpdateOwned ==
  ASSUME Shape, Isolated, NEW s \in Sessions, NEW f \in Files, NEW g,
         BestEffort(s, f, g), Owner[f] = ProfileOf[s]
  PROVE  StoreOwned' /\ CacheOwned'
<1>1. CASE UNCHANGED <<store, kept, active, cache>>
  BY <1>1 DEF Isolated, StoreOwned, CacheOwned
<1>2. CASE Update(s, f, g)
  <2>1. PICK out : /\ store' = Put(store, Chat(s), [store[Chat(s)] EXCEPT ![f] = g], out)
                   /\ active' = [y \in Slots |-> IF y \in out THEN {} ELSE active[y]]
    BY <1>2 DEF Update, Forget
  <2>2. Chat(s) \in Slots /\ Home(Chat(s)) = ProfileOf[s]
    BY SlotFacts
  <2>3. Named([store[Chat(s)] EXCEPT ![f] = g]) \subseteq Named(store[Chat(s)]) \cup {f}
    BY <2>2 DEF Named, Shape, DurableOK, Row
  <2>4. Owned(ProfileOf[s], Named([store[Chat(s)] EXCEPT ![f] = g]))
    BY <2>2, <2>3 DEF Isolated, StoreOwned, Owned
  <2>5. \A y \in Slots : Owned(Home(y), Named(store'[y]))
    BY <2>1, <2>2, <2>4, PutOwned DEF Isolated, StoreOwned
  <2>6. \A y \in Slots : Owned(Home(y), active'[y])
    BY <2>1 DEF Isolated, StoreOwned, Owned
  <2>7. CacheOwned'
    <3>1. cache' = cache \/ cache' = [cache EXCEPT ![s] = [cache[s] EXCEPT ![f] = g]]
      BY <1>2 DEF Update
    <3>2. Named([cache[s] EXCEPT ![f] = g]) \subseteq Named(cache[s]) \cup {f}
      BY DEF Named, Shape, MemoryOK, Row
    <3>3. Owned(ProfileOf[s], Named([cache[s] EXCEPT ![f] = g]))
      BY <3>2 DEF Isolated, CacheOwned, Owned
    <3>4. QED
      BY <3>1, <3>3 DEF Isolated, CacheOwned, Shape, MemoryOK
  <2>8. QED
    BY <2>5, <2>6, <2>7 DEF StoreOwned
<1>3. QED
  BY <1>1, <1>2 DEF BestEffort

\* No step of a tool call changes the Session or the file of a call.
LEMMA CallsStayOwned ==
  ASSUME Shape, Isolated, NEW t \in Tools, ToolStep(t)
  PROVE  CallsOwned'
<1>1. /\ tpc[t] # "idle" /\ call[t] \in Calls
  BY DEF Shape, ToolsOK, ToolStep, ToolTouch, ToolRefuse, ToolLease, ToolMark, ToolOpen,
    ToolRaise, ToolUploadFails, ToolAnalyzed, ToolActive, ToolConsume, ToolRelease,
    ToolFailMark, ToolCleanup
<1>2. \/ End(t)
      \/ /\ \E pc : Goto(t, pc)
         /\ UNCHANGED call \/ \E g : call' = [call EXCEPT ![t].grant = g]
  BY DEF ToolStep, ToolTouch, ToolRefuse, ToolLease, ToolMark, ToolOpen,
    ToolRaise, ToolUploadFails, ToolAnalyzed, ToolActive, ToolConsume, ToolRelease,
    ToolFailMark, ToolCleanup
<1>3. \A u \in Tools \ {t} : tpc'[u] = tpc[u] /\ call'[u] = call[u]
  BY <1>2 DEF End, Goto, Shape, ToolsOK
<1>4. tpc'[t] # "idle" => call'[t].file = call[t].file /\ call'[t].sess = call[t].sess
  BY <1>1, <1>2 DEF End, Goto, Shape, ToolsOK, Calls
<1>5. QED
  BY <1>1, <1>3, <1>4 DEF Isolated, CallsOwned

\* No file changes hands in every later step of a tool call.
LEMMA IsolatedToolStep ==
  ASSUME Shape, Isolated, NEW t \in Tools, ToolStep(t)
  PROVE  Isolated'
<1> DEFINE h == Held(t)
<1>a. tpc[t] # "idle"
  BY DEF ToolStep, ToolTouch, ToolRefuse, ToolLease, ToolMark, ToolOpen,
    ToolRaise, ToolUploadFails, ToolAnalyzed, ToolActive, ToolConsume, ToolRelease,
    ToolFailMark, ToolCleanup
<1>b. /\ h.s \in Sessions /\ h.f \in Files /\ Owner[h.f] = ProfileOf[h.s]
      /\ h.s = call[t].sess /\ h.f = call[t].file
  BY <1>a, HeldType DEF Isolated, CallsOwned, Held
<1>c. CallsOwned'
  BY CallsStayOwned
<1>d. BridgeOwned' /\ CarriedOwned'
  BY DEF elsewhere, Isolated, BridgeOwned, CarriedOwned, ToolStep, ToolTouch, ToolRefuse,
    ToolLease, ToolMark, ToolOpen, ToolRaise, ToolUploadFails, ToolAnalyzed, ToolActive,
    ToolConsume, ToolRelease, ToolFailMark, ToolCleanup
<1>1. CASE ToolTouch(t) \/ ToolMark(t) \/ ToolUploadFails(t) \/ ToolAnalyzed(t) \/ ToolFailMark(t)
  <2>1. \E g : BestEffort(h.s, h.f, g)
    BY <1>1 DEF ToolTouch, ToolMark, ToolUploadFails, ToolAnalyzed, ToolFailMark
  <2>2. StoreOwned' /\ CacheOwned'
    BY <1>b, <2>1, UpdateOwned
  <2>3. QED
    BY <1>c, <1>d, <2>2 DEF Isolated
<1>2. CASE UNCHANGED <<store, active, cache>>
  BY <1>2, <1>c, <1>d DEF Isolated, StoreOwned, CacheOwned
<1>3. CASE ToolActive(t)
  <2>1. ASSUME NEW x, x = Chat(call[t].sess), NEW out,
               store' = Put(store, x, store[x], out),
               active' = [y \in Slots |-> IF y = x THEN {call[t].file}
                                           ELSE IF y \in out THEN {} ELSE active[y]]
        PROVE  StoreOwned'
    <3>1. x \in Slots /\ Home(x) = ProfileOf[call[t].sess]
      BY <1>b, <2>1, SlotFacts
    <3>2. \A y \in Slots : Owned(Home(y), Named(store'[y]))
      BY <2>1, <3>1, PutOwned DEF Isolated, StoreOwned
    <3>3. \A y \in Slots : Owned(Home(y), active'[y])
      BY <1>b, <2>1, <3>1 DEF Isolated, StoreOwned, Owned
    <3>4. QED
      BY <3>2, <3>3 DEF StoreOwned
  <2>2. CASE UNCHANGED <<store, kept, active>>
    BY <1>2, <1>3, <2>2 DEF ToolActive
  <2>3. StoreOwned' \/ UNCHANGED <<store, kept, active>>
    BY <1>3, <2>1 DEF ToolActive
  <2>4. QED
    BY <1>3, <1>c, <1>d, <2>2, <2>3 DEF ToolActive, Isolated, CacheOwned
<1>4. CASE ToolConsume(t)
  <2>1. ASSUME NEW g, NEW out,
               store' = Put(store, Chat(h.s), [store[Chat(h.s)] EXCEPT ![h.f] = g], out),
               Forget(out), cache' = [cache EXCEPT ![h.s][h.f] = NoGrant]
        PROVE  StoreOwned' /\ CacheOwned'
    <3>1. Chat(h.s) \in Slots /\ Home(Chat(h.s)) = ProfileOf[h.s]
      BY <1>b, SlotFacts
    <3>2. Owned(ProfileOf[h.s], Named([store[Chat(h.s)] EXCEPT ![h.f] = g]))
      BY <1>b, <3>1 DEF Named, Owned, Shape, DurableOK, Row, Isolated, StoreOwned
    <3>3. \A y \in Slots : Owned(Home(y), Named(store'[y]))
      BY <2>1, <3>1, <3>2, PutOwned DEF Isolated, StoreOwned
    <3>4. \A y \in Slots : Owned(Home(y), active'[y])
      BY <2>1 DEF Forget, Isolated, StoreOwned, Owned
    <3>5. cache' = [cache EXCEPT ![h.s] = [cache[h.s] EXCEPT ![h.f] = NoGrant]]
      BY <2>1
    <3>6. Owned(ProfileOf[h.s], Named([cache[h.s] EXCEPT ![h.f] = NoGrant]))
      BY <1>b DEF Named, NoGrant, Owned, Shape, MemoryOK, Row, Isolated, CacheOwned
    <3>7. CacheOwned'
      BY <1>b, <3>5, <3>6 DEF Isolated, CacheOwned, Shape, MemoryOK
    <3>8. QED
      BY <3>3, <3>4, <3>7 DEF StoreOwned
  <2>2. CASE UNCHANGED <<store, kept, active, cache>>
    BY <1>2, <2>2
  <2>3. (StoreOwned' /\ CacheOwned') \/ UNCHANGED <<store, kept, active, cache>>
    BY <1>4, <2>1 DEF ToolConsume
  <2>4. QED
    BY <1>c, <1>d, <2>2, <2>3 DEF Isolated
<1>5. CASE ToolCleanup(t)
  <2>1. PICK c : store' = CleanStore(store, c) /\ active' = CleanActive(active, store, c)
    BY <1>5 DEF ToolCleanup, Clean
  <2>2. StoreOwned'
    BY <2>1, CleanOwned DEF Shape, DurableOK, Isolated, StoreOwned
  <2>3. QED
    BY <1>5, <1>c, <1>d, <2>2 DEF ToolCleanup, Isolated, CacheOwned
<1>6. CASE ToolRefuse(t) \/ ToolLease(t) \/ ToolOpen(t) \/ ToolRaise(t) \/ ToolRelease(t)
  BY <1>2, <1>6 DEF ToolRefuse, ToolLease, ToolOpen, ToolRaise, ToolRelease, durable
<1>7. QED
  BY <1>1, <1>3, <1>4, <1>5, <1>6 DEF ToolStep

\* Rotation, maintenance, requests, crash and clock never add a registration.
LEMMA IsolatedOther ==
  ASSUME Shape, Isolated,
         \/ \E s \in Sessions : SessionReset(s)
         \/ \E p \in Profiles : RequestCleanup(p)
         \/ Maintenance \/ Crash \/ Tick \/ UNCHANGED vars
  PROVE  Isolated'
<1>1. \/ UNCHANGED <<store, active>>
      \/ \E c : store' = CleanStore(store, c) /\ active' = CleanActive(active, store, c)
  BY DEF SessionReset, RequestCleanup, Maintenance, MaintSweep, MaintMeasure, MaintScan, Crash,
    Tick, Clean, vars, durable
<1>2. StoreOwned'
  BY <1>1, CleanOwned DEF Shape, DurableOK, Isolated, StoreOwned
<1>3. CASE Crash
  <2>1. CacheOwned' /\ BridgeOwned' /\ CallsOwned' /\ CarriedOwned'
    BY <1>3, NoRowNamesNothing
       DEF Crash, CacheOwned, BridgeOwned, CallsOwned, CarriedOwned, NoBridge
  <2>2. QED
    BY <1>2, <2>1 DEF Isolated
<1>4. CASE UNCHANGED <<cache, bridge, capture, turn, tpc, call>>
  BY <1>2, <1>4 DEF Isolated, CacheOwned, BridgeOwned, CallsOwned, CarriedOwned
<1>5. QED
  BY <1>3, <1>4 DEF SessionReset, RequestCleanup, Maintenance, MaintSweep, MaintMeasure,
    MaintScan, Tick, vars, memory

\* No employee's file is ever registered, active, cached, waiting or processed under
\* another employee's Profile, through every interleaving of captures, turns, tools,
\* rotations, failures and crashes.
THEOREM FilesStayWithTheirEmployee == Spec => []ProfileIsolation
<1>1. Init => Isolated
  BY NoRowNamesNothing
     DEF Init, Isolated, StoreOwned, CacheOwned, BridgeOwned, CallsOwned, CarriedOwned, Owned,
         NoBridge
<1>2. Shape /\ Isolated /\ [Next]_vars => Isolated'
  BY IsolatedCaptureBegin, IsolatedCaptureAdmit, IsolatedCaptureCommit, IsolatedTurnBegin,
     IsolatedTurnPersist, IsolatedTurnHandoff, IsolatedToolResolve, IsolatedToolStep,
     IsolatedOther DEF Next, CaptureStep, TurnStep
<1>3. Isolated => ProfileIsolation
  BY DEF Isolated, StoreOwned, CacheOwned, BridgeOwned, CallsOwned, Owned, ProfileIsolation
<1>4. QED
  BY <1>1, <1>2, <1>3, ShapeAlways, PTL DEF Spec

-----------------------------------------------------------------------------
(* One capture time per file.  The witness of the invariant is the set B of    *)
(* births, pairs of a file and the time it was captured at: every grant, stored *)
(* or carried, is dated by its file's birth, and B grows only when files       *)
(* arrive.                                                                     *)

Births == Files \X (0 .. MaxTime)
Dated(row, B) == \A f \in Named(row) : <<f, row[f].cap>> \in B
OneEach(B) ==
  /\ B \in SUBSET Births /\ \A b \in B : b[1] \in arrived
  /\ \A b, e \in B : b[1] = e[1] => b = e
StoreDated(B) == \A x \in Slots : Dated(store[x], B)
CacheDated(B) == \A s \in Sessions : Dated(cache[s], B)
BridgeDated(B) == \A p \in Profiles : Dated(bridge[p].row, B)
CallsDated(B) ==
  \A t \in Tools : tpc[t] # "idle" => <<call[t].file, call[t].grant.cap>> \in B
CarriedDated(B) ==
  /\ capture.pc # "idle" => Dated(capture.fresh, B) /\ Dated(capture.seen.row, B)
  /\ \A s \in Sessions : turn[s].pc # "idle" => Dated(turn[s].entries.row, B)
Born(B) ==
  OneEach(B) /\ StoreDated(B) /\ CacheDated(B) /\ BridgeDated(B) /\ CallsDated(B) /\ CarriedDated(B)
Dateable == \E B \in SUBSET Births : Born(B)

\* The empty row is dated by any births.
LEMMA NoRowDated == \A B : Dated(NoRow, B)
  BY NoRowNamesNothing DEF Dated

\* Writing a slot with dated grants, and dropping others, keeps a store dated.
LEMMA PutDated ==
  ASSUME NEW st, NEW x \in Slots, NEW row, NEW out, NEW B, Dated(row, B),
         \A y \in Slots : Dated(st[y], B)
  PROVE  \A y \in Slots : Dated(Put(st, x, row, out)[y], B)
  BY NoRowDated DEF Put

\* So does a cleanup: its marks leave the capture time alone.
LEMMA CleanDated ==
  ASSUME NEW st \in [Slots -> Row], NEW c, NEW B, \A y \in Slots : Dated(st[y], B)
  PROVE  \A y \in Slots : Dated(CleanStore(st, c)[y], B)
<1>1. ASSUME NEW y \in Slots
      PROVE  Dated(CleanRow(st, c, y), B)
  <2>1. Named(CleanRow(st, c, y)) = {f \in Named(st[y]) : ~Dropped(st, c, y, f)}
    BY CleanRowType
  <2>2. \A f \in Files : st[y][f] \in Grant
    BY DEF Row
  <2>3. \A f \in Files : ~Dropped(st, c, y, f) => CleanRow(st, c, y)[f].cap = st[y][f].cap
    BY <2>2 DEF CleanRow, Grant
  <2>4. QED
    BY <2>1, <2>3 DEF Dated, Named
<1>2. QED
  BY <1>1 DEF CleanStore

\* A cut-down row is dated like the whole one.
LEMMA OnlyDated ==
  ASSUME NEW row, NEW K, NEW B, Dated(row, B)
  PROVE  Dated(Only(row, K), B)
  BY DEF Only, Named, NoGrant, Dated

\* What a Session loads is dated.
LEMMA LoadedDated ==
  ASSUME NEW B, Born(B), NEW s \in Sessions, NEW row \in LoadedRows(s)
  PROVE  Dated(row, B)
<1>1. \E src \in {cache[s], store[Chat(s)]} : \E K : row = Only(src, K)
  BY DEF LoadedRows
<1>2. Dated(cache[s], B) /\ Dated(store[Chat(s)], B)
  BY SlotFacts DEF Born, CacheDated, StoreDated
<1>3. QED
  BY <1>1, <1>2, OnlyDated

\* More births date what fewer do.
LEMMA MoreBirths ==
  ASSUME NEW row, NEW B, NEW C, B \subseteq C, Dated(row, B)
  PROVE  Dated(row, C)
  BY DEF Dated

\* The files of a new batch are born in the first hold of the capture hook.
LEMMA BornCaptureBegin ==
  ASSUME Shape, NEW B, Born(B), NEW p \in Profiles, NEW N \in SUBSET Files, CaptureBegin(p, N)
  PROVE  \E C : Born(C)'
<1>a. PICK C : C = B \cup {<<f, now>> : f \in N}
  OBVIOUS
<1>1. PICK head \in SUBSET N :
        /\ capture'.fresh = [f \in Files |-> IF f \in head \cap Supported THEN Fresh ELSE NoGrant]
        /\ capture'.seen = bridge[p]
  BY DEF CaptureBegin
<1>2. OneEach(C)'
  <2>1. N \cap arrived = {} /\ arrived' = arrived \cup N
    BY DEF CaptureBegin
  <2>2. B \in SUBSET Births /\ now \in 0 .. MaxTime
    BY DEF Born, OneEach, Shape, ClockOK
  <2>3. \A b \in C : b \in B \/ (b[1] \in N /\ b = <<b[1], now>>)
    BY <1>a
  <2>4. C \in SUBSET Births
    BY <1>a, <2>2 DEF Births
  <2>5. \A b \in C : b[1] \in arrived'
    BY <2>1, <2>3 DEF Born, OneEach
  <2>6. \A b, e \in C : b[1] = e[1] => b = e
    BY <2>1, <2>3 DEF Born, OneEach
  <2>7. QED
    BY <2>4, <2>5, <2>6 DEF OneEach
<1>3. B \subseteq C
  BY <1>a
<1>4. Dated(capture'.fresh, C)
  BY <1>a, <1>1 DEF Dated, Named, NoGrant, Fresh
<1>5. Dated(capture'.seen.row, C)
  BY <1>1, <1>3, MoreBirths DEF Born, BridgeDated
<1>6. CarriedDated(C)'
  BY <1>3, <1>4, <1>5, MoreBirths DEF CaptureBegin, Born, CarriedDated
<1>7. StoreDated(C)' /\ CacheDated(C)' /\ BridgeDated(C)' /\ CallsDated(C)'
  BY <1>3, MoreBirths
     DEF CaptureBegin, Born, StoreDated, CacheDated, BridgeDated, CallsDated
<1>8. Born(C)'
  BY <1>2, <1>6, <1>7 DEF Born
<1>9. QED
  BY <1>8

\* The admission of a batch dates what it writes by the births of its files.
LEMMA BornCaptureAdmit ==
  ASSUME Shape, NEW B, Born(B), CaptureAdmit
  PROVE  Born(B)'
<1>1. /\ capture \in [pc : {"admit", "commit"}, prof : Profiles, fresh : Row, seen : Bridges,
                      note : BOOLEAN]
      /\ capture.pc # "idle"
  BY CaptureShape DEF CaptureAdmit
<1>2. PICK st, act, dk :
        /\ \A y \in Slots : Dated(st[y], B)
        /\ Accept(st, act, dk) \/ Refuse(st, act, dk) \/ Abort(st, act, dk)
  <2>1. store \in [Slots -> Row] /\ \A y \in Slots : Dated(store[y], B)
    BY DEF Shape, DurableOK, Born, StoreDated
  <2>2. \A c : \A y \in Slots : Dated(CleanStore(store, c)[y], B)
    BY <2>1, CleanDated
  <2>3. \/ \E states : Decide(store, active, disk, states)
        \/ \E c : \/ \E states : Decide(CleanStore(store, c),
                       CleanActive(active, store, c), disk \ Deleted(store, c), states)
                  \/ Abort(CleanStore(store, c), CleanActive(active, store, c),
                           disk \ Deleted(store, c))
    BY DEF CaptureAdmit
  <2>4. CASE \E states : Decide(store, active, disk, states)
    BY <2>1, <2>4 DEF Decide
  <2>5. ASSUME NEW c, \/ \E states : Decide(CleanStore(store, c),
                           CleanActive(active, store, c), disk \ Deleted(store, c), states)
                      \/ Abort(CleanStore(store, c), CleanActive(active, store, c),
                               disk \ Deleted(store, c))
        PROVE  \E st, act, dk :
                 /\ \A y \in Slots : Dated(st[y], B)
                 /\ Accept(st, act, dk) \/ Refuse(st, act, dk) \/ Abort(st, act, dk)
    BY <2>2, <2>5 DEF Decide
  <2>6. QED
    BY <2>3, <2>4, <2>5
<1>3. StoreDated(B)'
  <2>1. CASE Accept(st, act, dk)
    <3> DEFINE x == Pending(capture.prof)
               row == [f \in Files |-> IF f \in Named(capture.fresh) THEN capture.fresh[f]
                                       ELSE st[x][f]]
    <3>1. PICK out : store' = Put(st, x, row, out)
      BY <2>1 DEF Accept
    <3>2. x \in Slots
      BY <1>1, SlotFacts
    <3>3. Dated(row, B)
      BY <1>1, <1>2, <3>2 DEF Dated, Named, Born, CarriedDated
    <3>4. QED
      BY <1>2, <3>1, <3>2, <3>3, PutDated DEF StoreDated
  <2>2. CASE Refuse(st, act, dk) \/ Abort(st, act, dk)
    BY <1>2, <2>2 DEF Refuse, Abort, StoreDated
  <2>3. QED
    BY <1>2, <2>1, <2>2
<1>4. CarriedDated(B)'
  <2>1. capture'.pc # "idle" => /\ capture'.fresh \in {capture.fresh, NoRow}
                                /\ capture'.seen = capture.seen
    <3>1. capture' \in {[pc |-> "idle"], [capture EXCEPT !.pc = "commit"],
                        [capture EXCEPT !.pc = "commit", !.fresh = NoRow, !.note = TRUE]}
      BY <1>2 DEF Accept, Refuse, Abort
    <3>2. CASE capture' = [capture EXCEPT !.pc = "commit"]
      BY <1>1, <3>2
    <3>3. CASE capture' = [capture EXCEPT !.pc = "commit", !.fresh = NoRow, !.note = TRUE]
      BY <1>1, <3>3
    <3>4. QED
      BY <3>1, <3>2, <3>3
  <2>2. QED
    BY <1>1, <2>1, NoRowDated DEF CaptureAdmit, Born, CarriedDated
<1>5. QED
  BY <1>3, <1>4 DEF CaptureAdmit, Born, OneEach, CacheDated, BridgeDated, CallsDated

\* The bridge gets grants that the capture carried.
LEMMA BornCaptureCommit ==
  ASSUME Shape, NEW B, Born(B), CaptureCommit
  PROVE  Born(B)'
<1> DEFINE row == [f \in Files |-> IF f \in Named(capture.fresh) THEN capture.fresh[f]
                                   ELSE capture.seen.row[f]]
<1>1. capture \in [pc : {"admit", "commit"}, prof : Profiles, fresh : Row, seen : Bridges,
                   note : BOOLEAN]
  BY CaptureShape DEF CaptureCommit
<1>2. Dated(row, B)
  BY DEF CaptureCommit, Dated, Named, Born, CarriedDated
<1>3. bridge' = [bridge EXCEPT ![capture.prof] = [row |-> row, note |-> capture.note]]
  BY DEF CaptureCommit
<1>4. BridgeDated(B)'
  BY <1>1, <1>2, <1>3 DEF Born, BridgeDated, Shape, MemoryOK
<1>5. QED
  BY <1>4 DEF CaptureCommit, Born, OneEach, StoreDated, CacheDated, CallsDated, CarriedDated,
    durable

\* A turn takes the dated grants of the bridge.
LEMMA BornTurnBegin ==
  ASSUME Shape, NEW B, Born(B), NEW s \in Sessions, TurnBegin(s)
  PROVE  Born(B)'
<1>1. ProfileOf[s] \in Profiles
  BY Bounds
<1>2. BridgeDated(B)'
  BY <1>1, NoRowDated DEF TurnBegin, Born, BridgeDated, NoBridge, Shape, MemoryOK
<1>3. Dated(bridge[ProfileOf[s]].row, B)
  BY <1>1 DEF Born, BridgeDated
<1>4. /\ turn'[s].entries = bridge[ProfileOf[s]]
      /\ \A r \in Sessions \ {s} : turn'[r] = turn[r]
  BY DEF TurnBegin, Shape, MemoryOK
<1>5. CarriedDated(B)'
  BY <1>3, <1>4 DEF TurnBegin, Born, CarriedDated
<1>6. QED
  BY <1>2, <1>5 DEF TurnBegin, Born, OneEach, StoreDated, CacheDated, CallsDated, durable

\* What is left of a turn's entries when it moves on or ends.
LEMMA TurnsDated ==
  ASSUME Shape, NEW B, Born(B), NEW s \in Sessions, UNCHANGED capture,
         \/ turn' = [turn EXCEPT ![s] = [pc |-> "idle"]]
         \/ turn[s].pc # "idle" /\ turn' = [turn EXCEPT ![s] = [@ EXCEPT !.pc = "handoff"]]
  PROVE  CarriedDated(B)'
<1>1. \A r \in Sessions \ {s} : turn'[r] = turn[r]
  BY DEF Shape, MemoryOK
<1>2. turn'[s].pc # "idle" => turn[s].pc # "idle" /\ turn'[s].entries = turn[s].entries
  BY TurnShape DEF Shape, MemoryOK
<1>3. QED
  BY <1>1, <1>2 DEF Born, CarriedDated

\* Recording the user message writes no grant.
LEMMA BornTurnPersist ==
  ASSUME Shape, NEW B, Born(B), NEW s \in Sessions, TurnPersist(s)
  PROVE  Born(B)'
<1>1. CarriedDated(B)'
  BY TurnsDated DEF TurnPersist
<1>2. StoreDated(B)'
  <2>1. CASE UNCHANGED <<store, kept, active>>
    BY <2>1 DEF Born, StoreDated
  <2>2. ASSUME NEW out, store' = Put(store, Chat(s), store[Chat(s)], out)
        PROVE  StoreDated(B)'
    BY <2>2, PutDated, SlotFacts DEF Born, StoreDated
  <2>3. QED
    BY <2>1, <2>2 DEF TurnPersist
<1>3. QED
  BY <1>1, <1>2 DEF TurnPersist, Born, OneEach, CacheDated, BridgeDated, CallsDated

\* The hand-off writes grants the turn carried or the Session had loaded.
LEMMA BornTurnHandoff ==
  ASSUME Shape, NEW B, Born(B), NEW s \in Sessions, TurnHandoff(s)
  PROVE  Born(B)'
<1> DEFINE e == turn[s].entries.row
           G == CurrentIn(e)
<1>1. turn[s] \in [pc : {"persist", "handoff"}, entries : Bridges] /\ turn[s].pc # "idle"
  BY TurnShape DEF TurnHandoff
<1>2. PICK old, out, A, refused :
        /\ old \in LoadedRows(s)
        /\ Rewrite(s, G, [f \in Files |-> IF f \in A THEN e[f] ELSE old[f]], out, refused)
  BY DEF TurnHandoff
<1> DEFINE row == [f \in Files |-> IF f \in A THEN e[f] ELSE old[f]]
           st == IF G = {} THEN store ELSE Put(store, Chat(s), row, out)
           act == IF G = {} THEN active
                  ELSE [y \in Slots |-> IF y \in out THEN {} ELSE active[y]]
<1>3. row \in Row
  BY <1>1, <1>2, LoadedType DEF Row, Bridges
<1>4. Dated(row, B)
  <2>1. Dated(e, B) /\ Dated(old, B)
    BY <1>1, <1>2, LoadedDated DEF Born, CarriedDated
  <2>2. QED
    BY <2>1 DEF Dated, Named
<1>5. st \in [Slots -> Row] /\ \A y \in Slots : Dated(st[y], B)
  <2>1. Chat(s) \in Slots
    BY SlotFacts
  <2>2. st \in [Slots -> Row]
    BY <1>3, PutType DEF Shape, DurableOK
  <2>3. \A y \in Slots : Dated(st[y], B)
    BY <1>4, <2>1, PutDated DEF Born, StoreDated
  <2>4. QED
    BY <2>2, <2>3
<1>6. StoreDated(B)'
  <2>1. CASE UNCHANGED store
    BY <2>1 DEF Born, StoreDated
  <2>2. CASE \E c : Clean(st, act, refused, c)
    BY <1>5, <2>2, CleanDated DEF Clean, StoreDated
  <2>3. QED
    BY <1>2, <2>1, <2>2 DEF Rewrite
<1>7. CacheDated(B)'
  <2>1. cache' = cache \/ cache' = [cache EXCEPT ![s] = row]
    BY <1>2 DEF Rewrite
  <2>2. QED
    BY <1>4, <2>1 DEF Born, CacheDated, Shape, MemoryOK
<1>8. CarriedDated(B)'
  BY TurnsDated DEF TurnHandoff
<1>9. QED
  BY <1>6, <1>7, <1>8 DEF TurnHandoff, Born, OneEach, BridgeDated, CallsDated

\* A tool call takes a copy of a loaded grant.
LEMMA BornToolResolve ==
  ASSUME Shape, NEW B, Born(B), NEW t \in Tools, NEW k \in Kinds, NEW s \in Sessions,
         NEW f \in Files, ToolResolve(t, k, s, f)
  PROVE  Born(B)'
<1>1. PICK row \in LoadedRows(s) :
        /\ f \in Named(row) /\ Remember(s, row)
        /\ call' = [call EXCEPT ![t] = [kind |-> k, sess |-> s, file |-> f, grant |-> row[f]]]
  BY DEF ToolResolve
<1>2. Dated(row, B)
  BY LoadedDated
<1>3. CacheDated(B)'
  BY <1>1, <1>2 DEF Remember, Born, CacheDated, Shape, MemoryOK
<1>4. CallsDated(B)'
  <2>1. \A u \in Tools \ {t} : tpc'[u] = tpc[u] /\ call'[u] = call[u]
    BY <1>1 DEF ToolResolve, Goto, Shape, ToolsOK
  <2>2. call'[t].file = f /\ call'[t].grant = row[f]
    BY <1>1 DEF Shape, ToolsOK
  <2>3. <<call'[t].file, call'[t].grant.cap>> \in B
    BY <1>1, <1>2, <2>2 DEF Dated
  <2>4. QED
    BY <2>1, <2>3 DEF Born, CallsDated
<1>5. QED
  BY <1>3, <1>4 DEF ToolResolve, Born, OneEach, StoreDated, BridgeDated, CarriedDated, durable

\* One grant more, of its file's birth, keeps a row dated.
LEMMA EntryDated ==
  ASSUME NEW row \in Row, NEW f \in Files, NEW g, NEW B, Dated(row, B),
         g.status # "none" => <<f, g.cap>> \in B
  PROVE  Dated([row EXCEPT ![f] = g], B)
<1> DEFINE new == [row EXCEPT ![f] = g]
<1>1. new[f] = g /\ \A e \in Files \ {f} : new[e] = row[e]
  BY DEF Row
<1>2. QED
  BY <1>1 DEF Dated, Named

\* A best-effort update writes back a grant of its file's birth.
LEMMA UpdateDated ==
  ASSUME Shape, NEW B, Born(B), NEW s \in Sessions, NEW f \in Files, NEW g,
         BestEffort(s, f, g), <<f, g.cap>> \in B
  PROVE  StoreDated(B)' /\ CacheDated(B)'
<1>1. CASE UNCHANGED <<store, kept, active, cache>>
  BY <1>1 DEF Born, StoreDated, CacheDated
<1>2. CASE Update(s, f, g)
  <2>1. PICK out : store' = Put(store, Chat(s), [store[Chat(s)] EXCEPT ![f] = g], out)
    BY <1>2 DEF Update
  <2>2. Chat(s) \in Slots /\ store[Chat(s)] \in Row /\ cache[s] \in Row
    BY SlotFacts DEF Shape, DurableOK, MemoryOK
  <2>3. /\ Dated([store[Chat(s)] EXCEPT ![f] = g], B)
        /\ Dated([cache[s] EXCEPT ![f] = g], B)
    BY <2>2, EntryDated DEF Born, StoreDated, CacheDated
  <2>4. StoreDated(B)'
    BY <2>1, <2>2, <2>3, PutDated DEF Born, StoreDated
  <2>5. CacheDated(B)'
    <3>1. cache' = cache \/ cache' = [cache EXCEPT ![s] = [cache[s] EXCEPT ![f] = g]]
      BY <1>2 DEF Update
    <3>2. QED
      BY <2>3, <3>1 DEF Born, CacheDated, Shape, MemoryOK
  <2>6. QED
    BY <2>4, <2>5
<1>3. QED
  BY <1>1, <1>2 DEF BestEffort

\* A call goes on with its file and a grant of the same capture time.
LEMMA CallsStayDated ==
  ASSUME Shape, NEW B, Born(B), NEW t \in Tools, ToolStep(t)
  PROVE  CallsDated(B)'
<1>1. /\ tpc[t] # "idle" /\ call[t] \in Calls /\ call[t].grant \in Grant
  BY HeldType DEF ToolStep, ToolTouch, ToolRefuse, ToolLease, ToolMark, ToolOpen,
    ToolRaise, ToolUploadFails, ToolAnalyzed, ToolActive, ToolConsume, ToolRelease,
    ToolFailMark, ToolCleanup
<1>2. \/ End(t)
      \/ /\ \E pc : Goto(t, pc)
         /\ \/ UNCHANGED call
            \/ \E status : call' = [call EXCEPT ![t].grant = Marked(call[t].grant, status)]
  BY DEF ToolStep, ToolTouch, ToolRefuse, ToolLease, ToolMark, ToolOpen,
    ToolRaise, ToolUploadFails, ToolAnalyzed, ToolActive, ToolConsume, ToolRelease,
    ToolFailMark, ToolCleanup
<1>3. \A u \in Tools \ {t} : tpc'[u] = tpc[u] /\ call'[u] = call[u]
  BY <1>2 DEF End, Goto, Shape, ToolsOK
<1>4. \A status : Marked(call[t].grant, status).cap = call[t].grant.cap
  BY <1>1 DEF Marked, Grant
<1>5. tpc'[t] # "idle" =>
        call'[t].file = call[t].file /\ call'[t].grant.cap = call[t].grant.cap
  BY <1>1, <1>2, <1>4 DEF End, Goto, Shape, ToolsOK, Calls
<1>6. QED
  BY <1>1, <1>3, <1>5 DEF Born, CallsDated

\* Every later step of a tool call writes back grants of the capture time it took them with.
LEMMA BornToolStep ==
  ASSUME Shape, NEW B, Born(B), NEW t \in Tools, ToolStep(t)
  PROVE  Born(B)'
<1> DEFINE h == Held(t)
<1>a. tpc[t] # "idle"
  BY DEF ToolStep, ToolTouch, ToolRefuse, ToolLease, ToolMark, ToolOpen,
    ToolRaise, ToolUploadFails, ToolAnalyzed, ToolActive, ToolConsume, ToolRelease,
    ToolFailMark, ToolCleanup
<1>b. h.s \in Sessions /\ h.f \in Files /\ h.g \in Grant /\ <<h.f, h.g.cap>> \in B
  BY <1>a, HeldType DEF Born, CallsDated, Held
<1>c. CallsDated(B)'
  BY CallsStayDated
<1>d. OneEach(B)' /\ BridgeDated(B)' /\ CarriedDated(B)'
  BY DEF elsewhere, durable, Born, OneEach, BridgeDated, CarriedDated, ToolStep, ToolTouch,
    ToolRefuse, ToolLease, ToolMark, ToolOpen, ToolRaise, ToolUploadFails, ToolAnalyzed,
    ToolActive, ToolConsume, ToolRelease, ToolFailMark, ToolCleanup
<1>e. /\ \A status : Marked(h.g, status).cap = h.g.cap
      /\ [h.g EXCEPT !.acc = now].cap = h.g.cap
      /\ \A status : [Marked(h.g, status) EXCEPT !.del = TRUE].cap = h.g.cap
  BY <1>b DEF Marked, Grant
<1>1. CASE ToolTouch(t) \/ ToolMark(t) \/ ToolUploadFails(t) \/ ToolAnalyzed(t) \/ ToolFailMark(t)
  <2>1. \E g : BestEffort(h.s, h.f, g) /\ g.cap = h.g.cap
    BY <1>1, <1>e DEF ToolTouch, ToolMark, ToolUploadFails, ToolAnalyzed, ToolFailMark
  <2>2. StoreDated(B)' /\ CacheDated(B)'
    BY <1>b, <2>1, UpdateDated
  <2>3. QED
    BY <1>c, <1>d, <2>2 DEF Born
<1>2. CASE UNCHANGED <<store, cache>>
  BY <1>2, <1>c, <1>d DEF Born, StoreDated, CacheDated
<1>3. CASE ToolActive(t)
  <2>1. Chat(call[t].sess) \in Slots
    BY <1>b, SlotFacts DEF Held
  <2>2. StoreDated(B)'
    BY <1>3, <2>1, PutDated DEF ToolActive, Born, StoreDated
  <2>3. QED
    BY <1>3, <1>c, <1>d, <2>2 DEF ToolActive, Born, CacheDated
<1>4. CASE ToolConsume(t)
  <2>1. ASSUME NEW g, g.cap = h.g.cap, NEW out,
               store' = Put(store, Chat(h.s), [store[Chat(h.s)] EXCEPT ![h.f] = g], out),
               cache' = [cache EXCEPT ![h.s][h.f] = NoGrant]
        PROVE  StoreDated(B)' /\ CacheDated(B)'
    <3>1. Chat(h.s) \in Slots /\ store[Chat(h.s)] \in Row /\ cache[h.s] \in Row
      BY <1>b, SlotFacts DEF Shape, DurableOK, MemoryOK
    <3>2. /\ Dated([store[Chat(h.s)] EXCEPT ![h.f] = g], B)
          /\ Dated([cache[h.s] EXCEPT ![h.f] = NoGrant], B)
      BY <1>b, <2>1, <3>1, EntryDated DEF Born, StoreDated, CacheDated, NoGrant
    <3>3. StoreDated(B)'
      BY <2>1, <3>1, <3>2, PutDated DEF Born, StoreDated
    <3>4. cache' = [cache EXCEPT ![h.s] = [cache[h.s] EXCEPT ![h.f] = NoGrant]]
      BY <2>1
    <3>5. CacheDated(B)'
      BY <1>b, <3>2, <3>4 DEF Born, CacheDated, Shape, MemoryOK
    <3>6. QED
      BY <3>3, <3>5
  <2>2. CASE UNCHANGED <<store, kept, active, cache>>
    BY <1>2, <2>2
  <2>3. (StoreDated(B)' /\ CacheDated(B)') \/ UNCHANGED <<store, kept, active, cache>>
    BY <1>4, <1>e, <2>1 DEF ToolConsume
  <2>4. QED
    BY <1>c, <1>d, <2>2, <2>3 DEF Born
<1>5. CASE ToolCleanup(t)
  <2>1. StoreDated(B)'
    BY <1>5, CleanDated DEF ToolCleanup, Clean, Shape, DurableOK, Born, StoreDated
  <2>2. QED
    BY <1>5, <1>c, <1>d, <2>1 DEF ToolCleanup, Born, CacheDated
<1>6. CASE ToolRefuse(t) \/ ToolLease(t) \/ ToolOpen(t) \/ ToolRaise(t) \/ ToolRelease(t)
  BY <1>2, <1>6 DEF ToolRefuse, ToolLease, ToolOpen, ToolRaise, ToolRelease, durable
<1>7. QED
  BY <1>1, <1>3, <1>4, <1>5, <1>6 DEF ToolStep

\* Rotation, maintenance, requests, crash and clock renew nothing.
LEMMA BornOther ==
  ASSUME Shape, NEW B, Born(B),
         \/ \E s \in Sessions : SessionReset(s)
         \/ \E p \in Profiles : RequestCleanup(p)
         \/ Maintenance \/ Crash \/ Tick \/ UNCHANGED vars
  PROVE  Born(B)'
<1>1. UNCHANGED store \/ \E c : store' = CleanStore(store, c)
  BY DEF SessionReset, RequestCleanup, Maintenance, MaintSweep, MaintMeasure, MaintScan, Crash,
    Tick, Clean, vars, durable
<1>2. StoreDated(B)'
  BY <1>1, CleanDated DEF Shape, DurableOK, Born, StoreDated
<1>3. OneEach(B)'
  BY DEF SessionReset, RequestCleanup, Maintenance, MaintSweep, MaintMeasure, MaintScan, Crash,
    Tick, vars, durable, Born, OneEach
<1>4. CASE Crash
  <2>1. CacheDated(B)' /\ BridgeDated(B)' /\ CallsDated(B)' /\ CarriedDated(B)'
    BY <1>4, NoRowDated DEF Crash, CacheDated, BridgeDated, CallsDated, CarriedDated, NoBridge
  <2>2. QED
    BY <1>2, <1>3, <2>1 DEF Born
<1>5. CASE UNCHANGED <<cache, bridge, capture, turn, tpc, call>>
  BY <1>2, <1>3, <1>5 DEF Born, CacheDated, BridgeDated, CallsDated, CarriedDated
<1>6. QED
  BY <1>4, <1>5 DEF SessionReset, RequestCleanup, Maintenance, MaintSweep, MaintMeasure,
    MaintScan, Tick, vars, memory

\* All copies of a file's grant carry the one time it was captured at, however stale the copy
\* a handler writes back: nothing renews the absolute lifetime.
THEOREM LifetimesAreAbsolute == Spec => []OneCaptureTime
<1>1. Init => Dateable
  <2>1. Init => Born({})
    BY NoRowDated
       DEF Init, Born, OneEach, StoreDated, CacheDated, BridgeDated, CallsDated, CarriedDated,
           NoBridge
  <2>2. QED
    BY <2>1 DEF Dateable
<1>2. ASSUME Shape, Dateable, [Next]_vars
      PROVE  Dateable'
  <2>1. PICK B : Born(B)
    BY <1>2 DEF Dateable
  <2>2. \E C : Born(C)'
    BY <1>2, <2>1, BornCaptureBegin, BornCaptureAdmit, BornCaptureCommit, BornTurnBegin,
       BornTurnPersist, BornTurnHandoff, BornToolResolve, BornToolStep, BornOther
       DEF Next, CaptureStep, TurnStep
  <2>3. QED
    BY <2>2 DEF Dateable, Born, OneEach
<1>3. ASSUME Dateable
      PROVE  OneCaptureTime
  <2> PICK B : Born(B)
    BY <1>3 DEF Dateable
  <2>1. ASSUME NEW f \in Files, NEW g \in CopiesOf(f), g.status # "none"
        PROVE  <<f, g.cap>> \in B
    BY <2>1 DEF CopiesOf, Born, StoreDated, CacheDated, BridgeDated, CallsDated,
      CarriedDated, Dated, Named
  <2>2. \A b, e \in B : b[1] = e[1] => b = e
    BY DEF Born, OneEach
  <2>3. QED
    BY <2>1, <2>2 DEF OneCaptureTime
<1>4. QED
  BY <1>1, <1>2, <1>3, ShapeAlways, PTL DEF Spec
=============================================================================
