----------------------- MODULE AttachmentCache_proofs -----------------------
(***************************************************************************)
(* Theorems about AttachmentCache for every value of its constants.        *)
(***************************************************************************)
EXTENDS AttachmentCache, FiniteSetTheorems, TLAPS

\* TypeOK without the sign of the lease counts, which needs LeaseBalance.
Shape == DurableOK /\ MemoryOK /\ ToolsOK /\ ClockOK

-----------------------------------------------------------------------------
(* The operators on rows, slots and stores. *)

\* A slot is the pending slot of a Profile or the chat slot of a Session.
LEMMA SlotFacts ==
  /\ \A p \in Profiles : Pending(p) \in Slots /\ Home(Pending(p)) = p
  /\ \A s \in Sessions : Chat(s) \in Slots /\ Home(Chat(s)) = ProfileOf[s]
  BY DEF Slots, Pending, Chat, Home

\* The empty grant and the empty row have their types.
LEMMA NoRowType == NoGrant \in Grant /\ NoRow \in Row /\ NoBridge \in Bridges
<1>1. NoGrant \in Grant
  BY Bounds DEF NoGrant, Grant, Statuses
<1>2. NoRow \in Row
  BY <1>1 DEF NoRow, Row
<1>3. QED
  BY <1>1, <1>2 DEF NoBridge, Bridges

\* A cut-down row is a row.
LEMMA OnlyType ==
  ASSUME NEW row \in Row, NEW K
  PROVE  Only(row, K) \in Row
  BY NoRowType DEF Only, Row

\* The grant of a file captured now.
LEMMA FreshType ==
  ASSUME ClockOK
  PROVE  Fresh \in Grant
  BY DEF Fresh, Grant, Statuses, ClockOK

\* Marking a grant keeps it a grant.
LEMMA MarkedType ==
  ASSUME ClockOK, NEW g \in Grant
  PROVE  /\ \A status \in Statuses : Marked(g, status) \in Grant
         /\ [g EXCEPT !.acc = now] \in Grant
         /\ [g EXCEPT !.del = TRUE] \in Grant
  BY DEF Marked, Grant, ClockOK

\* Writing one slot keeps a store a store.
LEMMA PutType ==
  ASSUME NEW st \in [Slots -> Row], NEW x, NEW row \in Row, NEW out
  PROVE  Put(st, x, row, out) \in [Slots -> Row]
  BY NoRowType DEF Put

\* A cleaned slot is a row; what it keeps keeps its status.
LEMMA CleanRowType ==
  ASSUME NEW st \in [Slots -> Row], NEW c, NEW x \in Slots
  PROVE  /\ CleanRow(st, c, x) \in Row
         /\ Named(CleanRow(st, c, x)) = {f \in Named(st[x]) : ~Dropped(st, c, x, f)}
<1>1. \A f \in Files : st[x][f] \in Grant
  BY DEF Row
<1>2. \A f \in Files : [st[x][f] EXCEPT !.del = TRUE] \in Grant
                       /\ [st[x][f] EXCEPT !.del = TRUE].status = st[x][f].status
  BY <1>1 DEF Grant
<1>3. CleanRow(st, c, x) \in Row
  BY <1>1, <1>2, NoRowType DEF CleanRow, Row
<1>4. \A f \in Files : CleanRow(st, c, x)[f].status =
        IF Dropped(st, c, x, f) THEN "none" ELSE st[x][f].status
  BY <1>2 DEF CleanRow, NoGrant
<1>5. QED
  BY <1>3, <1>4 DEF Named

\* A cleanup only ever removes cleanup requests.
LEMMA MarkersShrink ==
  ASSUME NEW st, NEW c, NEW p, NEW m \in Markers(st, c, p)
  PROVE  m \subseteq marker
  BY DEF Markers

\* A cleanup keeps the types of what it rewrites.
LEMMA CleanType ==
  ASSUME NEW st \in [Slots -> Row], NEW act \in [Slots -> SUBSET Files], NEW c
  PROVE  /\ CleanStore(st, c) \in [Slots -> Row]
         /\ CleanActive(act, st, c) \in [Slots -> SUBSET Files]
<1>1. CleanStore(st, c) \in [Slots -> Row]
  BY CleanRowType DEF CleanStore
<1>2. CleanActive(act, st, c) \in [Slots -> SUBSET Files]
  BY DEF CleanActive
<1>3. QED
  BY <1>1, <1>2

\* What a Session loads is a row.
LEMMA LoadedType ==
  ASSUME Shape, NEW s \in Sessions, NEW row \in LoadedRows(s)
  PROVE  row \in Row
<1>1. cache[s] \in Row /\ store[Chat(s)] \in Row
  BY SlotFacts DEF Shape, MemoryOK, DurableOK
<1>2. \E src \in {cache[s], store[Chat(s)]} : \E K : row = Only(src, K)
  BY DEF LoadedRows
<1>3. QED
  BY <1>1, <1>2, OnlyType

-----------------------------------------------------------------------------
(* Every step keeps Shape: the event loop and the turns. *)

\* A capture past its first step carries its batch.
LEMMA CaptureShape ==
  ASSUME Shape, capture.pc # "idle"
  PROVE  capture \in [pc : {"admit", "commit"}, prof : Profiles, fresh : Row, seen : Bridges,
                      note : BOOLEAN]
  BY DEF Shape, MemoryOK

\* A turn past its first step carries the entries it took.
LEMMA TurnShape ==
  ASSUME Shape, NEW s \in Sessions, turn[s].pc # "idle"
  PROVE  turn[s] \in [pc : {"persist", "handoff"}, entries : Bridges]
  BY DEF Shape, MemoryOK

\* The types are kept by the first hold of the capture hook: a new batch.
LEMMA ShapeCaptureBegin ==
  ASSUME Shape, NEW p \in Profiles, NEW B \in SUBSET Files, CaptureBegin(p, B)
  PROVE  Shape'
<1>1. PICK head \in SUBSET B, stuck \in May("unlink", B) :
        /\ disk' = disk \cup (B \ (Rejected(B, head) \ stuck))
        /\ capture' =
             [pc |-> IF head \cap Supported = {} THEN "commit" ELSE "admit", prof |-> p,
              fresh |-> [f \in Files |-> IF f \in head \cap Supported THEN Fresh ELSE NoGrant],
              seen |-> bridge[p], note |-> bridge[p].note \/ Rejected(B, head) # {}]
  BY DEF CaptureBegin
<1>2. DurableOK'
  BY <1>1 DEF CaptureBegin, Shape, DurableOK
<1>3. MemoryOK'
  <2>1. [f \in Files |-> IF f \in head \cap Supported THEN Fresh ELSE NoGrant] \in Row
    BY FreshType, NoRowType DEF Row, Shape
  <2>2. bridge[p] \in Bridges /\ bridge[p].note \in BOOLEAN
    BY DEF Shape, MemoryOK, Bridges
  <2>3. (bridge[p].note \/ Rejected(B, head) # {}) \in BOOLEAN
    BY <2>2
  <2>4. capture' \in [pc : {"admit", "commit"}, prof : Profiles, fresh : Row, seen : Bridges,
                      note : BOOLEAN]
    BY <1>1, <2>1, <2>2, <2>3
  <2>5. QED
    BY <2>4 DEF CaptureBegin, Shape, MemoryOK
<1>4. ToolsOK' /\ ClockOK'
  BY DEF CaptureBegin, Shape, ToolsOK, ClockOK, clock
<1>5. QED
  BY <1>2, <1>3, <1>4 DEF Shape

\* The types are kept by the admission of a batch.
LEMMA ShapeCaptureAdmit ==
  ASSUME Shape, CaptureAdmit
  PROVE  Shape'
<1>1. /\ capture \in [pc : {"admit", "commit"}, prof : Profiles, fresh : Row, seen : Bridges,
                      note : BOOLEAN]
      /\ capture.prof \in Profiles /\ capture.fresh \in Row
  BY CaptureShape DEF CaptureAdmit
<1>2. PICK st \in [Slots -> Row], act \in [Slots -> SUBSET Files], dk \in SUBSET disk :
        (\E states : Decide(st, act, dk, states)) \/ Abort(st, act, dk)
  <2>1. store \in [Slots -> Row] /\ active \in [Slots -> SUBSET Files]
    BY DEF Shape, DurableOK
  <2>2. \/ \E states : Decide(store, active, disk, states)
        \/ \E c : LET st == CleanStore(store, c)
                      act == CleanActive(active, store, c)
                      dk == disk \ Deleted(store, c)
                  IN (\E states : Decide(st, act, dk, states)) \/ Abort(st, act, dk)
    BY DEF CaptureAdmit
  <2>3. QED
    BY <2>1, <2>2, CleanType
<1>3. Accept(st, act, dk) \/ Refuse(st, act, dk) \/ Abort(st, act, dk)
  BY <1>2 DEF Decide
<1>4. /\ store' \in [Slots -> Row] /\ active' \in [Slots -> SUBSET Files]
      /\ kept' \in [Slots -> BOOLEAN] /\ disk' \subseteq disk
  <2>1. CASE Accept(st, act, dk)
    <3>1. [f \in Files |-> IF f \in Named(capture.fresh) THEN capture.fresh[f]
                           ELSE st[Pending(capture.prof)][f]] \in Row
      BY <1>1, SlotFacts DEF Row
    <3>2. PICK out :
            /\ store' = Put(st, Pending(capture.prof),
                            [f \in Files |-> IF f \in Named(capture.fresh) THEN capture.fresh[f]
                                             ELSE st[Pending(capture.prof)][f]], out)
            /\ kept' = [y \in Slots |-> kept[y] /\ y \notin out]
            /\ active' = [y \in Slots |-> IF y \in out THEN {} ELSE act[y]]
      BY <2>1 DEF Accept
    <3>3. store' \in [Slots -> Row]
      BY <3>1, <3>2, PutType
    <3>4. QED
      BY <2>1, <3>2, <3>3 DEF Accept, Shape, DurableOK
  <2>2. CASE Refuse(st, act, dk)
    BY <2>2 DEF Refuse, Shape, DurableOK
  <2>3. CASE Abort(st, act, dk)
    BY <2>3 DEF Abort, Shape, DurableOK
  <2>4. QED
    BY <1>3, <2>1, <2>2, <2>3
<1>5. capture' \in [pc : {"idle"}] \cup [pc : {"admit", "commit"}, prof : Profiles,
                    fresh : Row, seen : Bridges, note : BOOLEAN]
  <2>1. capture' \in {[pc |-> "idle"], [capture EXCEPT !.pc = "commit"],
                      [capture EXCEPT !.pc = "commit", !.fresh = NoRow, !.note = TRUE]}
    BY <1>3 DEF Accept, Refuse, Abort
  <2>2. [capture EXCEPT !.pc = "commit"] \in [pc : {"admit", "commit"}, prof : Profiles,
           fresh : Row, seen : Bridges, note : BOOLEAN]
    BY <1>1
  <2>3. [capture EXCEPT !.pc = "commit", !.fresh = NoRow, !.note = TRUE] \in
          [pc : {"admit", "commit"}, prof : Profiles, fresh : Row, seen : Bridges,
           note : BOOLEAN]
    BY <1>1, NoRowType
  <2>4. [pc |-> "idle"] \in [pc : {"idle"}]
    OBVIOUS
  <2>5. QED
    BY <2>1, <2>2, <2>3, <2>4
<1>6. DurableOK' /\ MemoryOK' /\ ToolsOK' /\ ClockOK'
  BY <1>4, <1>5 DEF CaptureAdmit, Shape, DurableOK, MemoryOK, ToolsOK, ClockOK, clock
<1>7. QED
  BY <1>6 DEF Shape

\* The types are kept by the last hold of the capture hook.
LEMMA ShapeCaptureCommit ==
  ASSUME Shape, CaptureCommit
  PROVE  Shape'
<1>1. capture \in [pc : {"admit", "commit"}, prof : Profiles, fresh : Row, seen : Bridges,
                   note : BOOLEAN]
  BY CaptureShape DEF CaptureCommit
<1>2. [f \in Files |-> IF f \in Named(capture.fresh) THEN capture.fresh[f]
                       ELSE capture.seen.row[f]] \in Row
  BY <1>1 DEF Row, Bridges
<1>3. bridge' \in [Profiles -> Bridges]
  BY <1>1, <1>2 DEF CaptureCommit, Shape, MemoryOK, Bridges
<1>4. MemoryOK'
  BY <1>3 DEF CaptureCommit, Shape, MemoryOK
<1>5. DurableOK' /\ ToolsOK' /\ ClockOK'
  BY DEF CaptureCommit, Shape, DurableOK, ToolsOK, ClockOK, clock, durable
<1>6. QED
  BY <1>4, <1>5 DEF Shape

\* The types are kept by a turn popping what waits for its Profile.
LEMMA ShapeTurnBegin ==
  ASSUME Shape, NEW s \in Sessions, TurnBegin(s)
  PROVE  Shape'
<1>1. ProfileOf[s] \in Profiles /\ bridge[ProfileOf[s]] \in Bridges
  BY Bounds DEF Shape, MemoryOK
<1>2. MemoryOK'
  BY <1>1, NoRowType DEF TurnBegin, Shape, MemoryOK
<1>3. DurableOK' /\ ToolsOK' /\ ClockOK'
  BY DEF TurnBegin, Shape, DurableOK, ToolsOK, ClockOK, clock, durable
<1>4. QED
  BY <1>2, <1>3 DEF Shape

\* The types are kept by a turn recording its user message.
LEMMA ShapeTurnPersist ==
  ASSUME Shape, NEW s \in Sessions, TurnPersist(s)
  PROVE  Shape'
<1>1. turn[s] \in [pc : {"persist", "handoff"}, entries : Bridges]
  BY TurnShape DEF TurnPersist
<1>2. turn' \in [Sessions -> [pc : {"idle"}] \cup [pc : {"persist", "handoff"}, entries : Bridges]]
  <2>1. \/ turn' = [turn EXCEPT ![s] = [pc |-> "idle"]]
        \/ turn' = [turn EXCEPT ![s] = [@ EXCEPT !.pc = "handoff"]]
    BY DEF TurnPersist
  <2>2. [turn[s] EXCEPT !.pc = "handoff"] \in [pc : {"persist", "handoff"}, entries : Bridges]
    BY <1>1
  <2>3. QED
    BY <2>1, <2>2 DEF Shape, MemoryOK
<1>3. MemoryOK'
  BY <1>2 DEF TurnPersist, Shape, MemoryOK
<1>4. DurableOK'
  <2>1. CASE UNCHANGED <<store, kept, active>>
    BY <2>1 DEF TurnPersist, Shape, DurableOK
  <2>2. CASE \E out \in Evictions(store, Chat(s)) :
               /\ store' = Put(store, Chat(s), store[Chat(s)], out)
               /\ kept' = [y \in Slots |-> y = Chat(s) \/ (kept[y] /\ y \notin out)]
               /\ active' = [y \in Slots |-> IF y \in out THEN {} ELSE active[y]]
    <3>1. store[Chat(s)] \in Row
      BY SlotFacts DEF Shape, DurableOK
    <3>2. store' \in [Slots -> Row]
      BY <2>2, <3>1, PutType DEF Shape, DurableOK
    <3>3. kept' \in [Slots -> BOOLEAN] /\ active' \in [Slots -> SUBSET Files]
      BY <2>2 DEF Shape, DurableOK
    <3>4. QED
      BY <3>2, <3>3 DEF TurnPersist, Shape, DurableOK
  <2>3. QED
    BY <2>1, <2>2 DEF TurnPersist
<1>5. ToolsOK' /\ ClockOK'
  BY DEF TurnPersist, Shape, ToolsOK, ClockOK, clock
<1>6. QED
  BY <1>3, <1>4, <1>5 DEF Shape

\* The types are kept by the handoff of the waiting files to the Session.
LEMMA ShapeTurnHandoff ==
  ASSUME Shape, NEW s \in Sessions, TurnHandoff(s)
  PROVE  Shape'
<1> DEFINE p == ProfileOf[s]
           e == turn[s].entries.row
           G == CurrentIn(e)
<1>1. /\ turn[s] \in [pc : {"persist", "handoff"}, entries : Bridges]
      /\ e \in Row
  BY TurnShape DEF TurnHandoff, Bridges
<1>2. PICK old, out, A, refused :
        /\ old \in LoadedRows(s)
        /\ Rewrite(s, G, [f \in Files |-> IF f \in A THEN e[f] ELSE old[f]], out, refused)
  BY DEF TurnHandoff
<1> DEFINE row == [f \in Files |-> IF f \in A THEN e[f] ELSE old[f]]
           st == IF G = {} THEN store ELSE Put(store, Chat(s), row, out)
           act == IF G = {} THEN active
                  ELSE [y \in Slots |-> IF y \in out THEN {} ELSE active[y]]
<1>3. row \in Row
  BY <1>1, <1>2, LoadedType DEF Row
<1>4. st \in [Slots -> Row] /\ act \in [Slots -> SUBSET Files]
  BY <1>3, PutType DEF Shape, DurableOK
<1>5. DurableOK'
  <2>1. CASE disk' = disk \ refused /\ UNCHANGED <<store, kept, active, marker>>
    BY <2>1 DEF TurnHandoff, Shape, DurableOK
  <2>2. ASSUME NEW c, Clean(st, act, refused, c),
               marker' \in Markers(st, c, p),
               kept' = IF G = {} THEN kept ELSE [y \in Slots |-> kept[y] /\ y \notin out]
        PROVE  DurableOK'
    <3>1. store' \in [Slots -> Row] /\ active' \in [Slots -> SUBSET Files] /\ disk' \subseteq disk
      BY <1>4, <2>2, CleanType DEF Clean
    <3>2. kept' \in [Slots -> BOOLEAN] /\ marker' \subseteq marker
      BY <2>2, MarkersShrink DEF Shape, DurableOK
    <3>3. QED
      BY <3>1, <3>2 DEF TurnHandoff, Shape, DurableOK
  <2>3. QED
    BY <1>2, <2>1, <2>2 DEF Rewrite
<1>6. MemoryOK'
  <2>1. cache' \in [Sessions -> Row]
    BY <1>2, <1>3 DEF Rewrite, Shape, MemoryOK
  <2>2. turn' \in [Sessions -> [pc : {"idle"}] \cup
                               [pc : {"persist", "handoff"}, entries : Bridges]]
    BY DEF TurnHandoff, Shape, MemoryOK
  <2>3. QED
    BY <2>1, <2>2 DEF TurnHandoff, Shape, MemoryOK
<1>7. ToolsOK' /\ ClockOK'
  BY DEF TurnHandoff, Shape, ToolsOK, ClockOK, clock
<1>8. QED
  BY <1>5, <1>6, <1>7 DEF Shape

-----------------------------------------------------------------------------
(* Every step keeps Shape: the tool calls. *)

\* A handler past its first step holds a Session, a file and a grant.
LEMMA HeldType ==
  ASSUME Shape, NEW t \in Tools, tpc[t] # "idle"
  PROVE  /\ call[t] \in Calls /\ call[t].kind \in Kinds /\ call[t].file \in Files
         /\ call[t].grant \in Grant
         /\ Held(t).s \in Sessions /\ Held(t).f \in Files /\ Held(t).g \in Grant
<1>1. call[t] \in Calls
  BY DEF Shape, ToolsOK
<1>2. QED
  BY <1>1 DEF Calls, Held

\* The durable state and the session cache after a best-effort update.
LEMMA UpdateType ==
  ASSUME Shape, NEW s \in Sessions, NEW f \in Files, NEW g \in Grant, BestEffort(s, f, g)
  PROVE  /\ store' \in [Slots -> Row] /\ kept' \in [Slots -> BOOLEAN]
         /\ active' \in [Slots -> SUBSET Files] /\ cache' \in [Sessions -> Row]
<1>1. CASE UNCHANGED <<store, kept, active, cache>>
  BY <1>1 DEF Shape, DurableOK, MemoryOK
<1>2. CASE Update(s, f, g)
  <2>1. [store[Chat(s)] EXCEPT ![f] = g] \in Row /\ [cache[s] EXCEPT ![f] = g] \in Row
    BY SlotFacts DEF Shape, DurableOK, MemoryOK, Row
  <2>2. PICK out : /\ store' = Put(store, Chat(s), [store[Chat(s)] EXCEPT ![f] = g], out)
                   /\ Forget(out)
    BY <1>2 DEF Update
  <2>3. store' \in [Slots -> Row]
    BY <2>1, <2>2, PutType DEF Shape, DurableOK
  <2>4. kept' \in [Slots -> BOOLEAN] /\ active' \in [Slots -> SUBSET Files]
    BY <2>2 DEF Forget, Shape, DurableOK
  <2>5. cache' \in [Sessions -> Row]
    <3>1. cache' = cache \/ cache' = [cache EXCEPT ![s] = [cache[s] EXCEPT ![f] = g]]
      BY <1>2 DEF Update
    <3>2. QED
      BY <2>1, <3>1 DEF Shape, MemoryOK
  <2>6. QED
    BY <2>3, <2>4, <2>5
<1>3. QED
  BY <1>1, <1>2 DEF BestEffort

PCs == {"idle", "touch", "lease", "failmark", "cleanup"} \cup Holding

\* The tool threads after one of them moved on with its call, a new grant in it, or ended.
LEMMA ToolsType ==
  ASSUME Shape, NEW t \in Tools, lease' \in [Files -> Int],
         \/ End(t)
         \/ \E pc \in PCs : Goto(t, pc) /\ UNCHANGED call /\ tpc[t] # "idle"
         \/ \E pc \in PCs, c \in Calls : Goto(t, pc) /\ call' = [call EXCEPT ![t] = c]
  PROVE  ToolsOK'
<1> USE DEF PCs
<1>1. CASE End(t)
  BY <1>1 DEF End, Goto, Shape, ToolsOK, Holding
<1>2. CASE \E pc \in PCs : Goto(t, pc) /\ UNCHANGED call /\ tpc[t] # "idle"
  BY <1>2 DEF Goto, Shape, ToolsOK, Holding
<1>3. CASE \E pc \in PCs, c \in Calls : Goto(t, pc) /\ call' = [call EXCEPT ![t] = c]
  BY <1>3 DEF Goto, Shape, ToolsOK, Holding
<1>4. QED
  BY <1>1, <1>2, <1>3

\* The lease counts after one of them went up or down by one.
LEMMA LeaseType ==
  ASSUME Shape, NEW t \in Tools,
         UNCHANGED lease \/ Release(t) \/ lease' = [lease EXCEPT ![call[t].file] = @ + 1]
  PROVE  lease' \in [Files -> Int]
  BY DEF Shape, ToolsOK, Release

\* A tool step that writes nothing durable and leaves the session cache alone.
LEMMA QuietToolShape ==
  ASSUME Shape, ToolsOK', UNCHANGED <<durable, cache, bridge, capture, turn, mnt, clock>>
  PROVE  Shape'
  BY DEF Shape, DurableOK, MemoryOK, ClockOK, durable, clock

\* A tool step that writes the store and the session cache.
LEMMA WritingToolShape ==
  ASSUME Shape, ToolsOK', UNCHANGED elsewhere,
         store' \in [Slots -> Row], kept' \in [Slots -> BOOLEAN],
         active' \in [Slots -> SUBSET Files], cache' \in [Sessions -> Row]
  PROVE  Shape'
  BY DEF Shape, DurableOK, MemoryOK, ClockOK, elsewhere, clock

\* The types are kept by a tool call resolving its attachment.
LEMMA ShapeToolResolve ==
  ASSUME Shape, NEW t \in Tools, NEW k \in Kinds, NEW s \in Sessions, NEW f \in Files,
         ToolResolve(t, k, s, f)
  PROVE  Shape'
<1>1. PICK row \in LoadedRows(s) :
        /\ Remember(s, row)
        /\ call' = [call EXCEPT ![t] = [kind |-> k, sess |-> s, file |-> f, grant |-> row[f]]]
  BY DEF ToolResolve
<1>2. row \in Row /\ row[f] \in Grant
  BY LoadedType DEF Row
<1>3. [kind |-> k, sess |-> s, file |-> f, grant |-> row[f]] \in Calls
  BY <1>2 DEF Calls
<1>4. ToolsOK'
  <2>1. lease' \in [Files -> Int]
    BY DEF ToolResolve, Shape, ToolsOK
  <2>2. QED
    BY <1>1, <1>3, <2>1, ToolsType DEF ToolResolve, PCs
<1>5. cache' \in [Sessions -> Row]
  BY <1>1, <1>2 DEF Remember, Shape, MemoryOK
<1>6. DurableOK' /\ MemoryOK' /\ ClockOK'
  BY <1>5 DEF ToolResolve, Shape, DurableOK, MemoryOK, ClockOK, durable, clock
<1>7. QED
  BY <1>4, <1>6 DEF Shape

\* The types are kept by every later step of a tool call.
LEMMA ShapeToolStep ==
  ASSUME Shape, NEW t \in Tools, ToolStep(t)
  PROVE  Shape'
<1>a. tpc[t] # "idle"
  BY DEF ToolStep, ToolTouch, ToolRefuse, ToolLease, ToolMark, ToolOpen, ToolRaise,
    ToolUploadFails, ToolAnalyzed, ToolActive, ToolConsume, ToolRelease, ToolFailMark, ToolCleanup
<1>b. /\ call[t] \in Calls /\ Held(t).s \in Sessions /\ Held(t).f \in Files
      /\ Held(t).g \in Grant /\ call[t].grant \in Grant
  BY <1>a, HeldType
<1>c. \A status \in Statuses : Marked(Held(t).g, status) \in Grant
                               /\ Marked(call[t].grant, status) \in Grant
  BY <1>b, MarkedType DEF Shape
<1>d. \A status \in Statuses : [call[t] EXCEPT !.grant = Marked(@, status)] \in Calls
  BY <1>b, <1>c DEF Calls
<1>1. CASE ToolTouch(t)
  <2>1. [Held(t).g EXCEPT !.acc = now] \in Grant
    BY <1>b, MarkedType DEF Shape
  <2>2. ToolsOK'
    BY <1>1, <1>a, ToolsType, LeaseType DEF ToolTouch, PCs
  <2>3. QED
    BY <1>1, <1>b, <2>1, <2>2, UpdateType, WritingToolShape DEF ToolTouch
<1>2. CASE ToolRefuse(t)
  <2>1. ToolsOK'
    BY <1>2, <1>a, ToolsType, LeaseType DEF ToolRefuse, PCs
  <2>2. QED
    BY <1>2, <2>1, QuietToolShape DEF ToolRefuse
<1>3. CASE ToolLease(t)
  <2>1. lease' \in [Files -> Int]
    BY <1>3, LeaseType DEF ToolLease, Held
  <2>2. ToolsOK'
    BY <1>3, <1>a, <2>1, ToolsType DEF ToolLease, PCs, Holding
  <2>3. QED
    BY <1>3, <2>2, QuietToolShape DEF ToolLease
<1>4. CASE ToolMark(t)
  <2>1. ToolsOK'
    <3>1. call' = [call EXCEPT ![t] = [call[t] EXCEPT !.grant = Marked(@, "processing")]]
      BY <1>4 DEF ToolMark
    <3>2. QED
      BY <1>4, <1>d, <3>1, ToolsType, LeaseType DEF ToolMark, PCs, Holding, Statuses
  <2>2. QED
    BY <1>4, <1>b, <1>c, <2>1, UpdateType, WritingToolShape DEF ToolMark, Statuses
<1>5. CASE ToolOpen(t)
  <2>1. ToolsOK'
    BY <1>5, <1>a, ToolsType, LeaseType DEF ToolOpen, PCs, Holding
  <2>2. QED
    BY <1>5, <2>1, QuietToolShape DEF ToolOpen
<1>6. CASE ToolRaise(t)
  <2>1. ToolsOK'
    BY <1>6, <1>a, ToolsType, LeaseType DEF ToolRaise, PCs
  <2>2. QED
    BY <1>6, <2>1, QuietToolShape DEF ToolRaise
<1>7. CASE ToolUploadFails(t)
  <2>1. ToolsOK'
    BY <1>7, <1>a, ToolsType, LeaseType DEF ToolUploadFails, PCs, Holding
  <2>2. QED
    BY <1>7, <1>b, <1>c, <2>1, UpdateType, WritingToolShape DEF ToolUploadFails, Statuses
<1>8. CASE ToolAnalyzed(t)
  <2>1. ToolsOK'
    <3>1. call' = [call EXCEPT ![t] = [call[t] EXCEPT !.grant = Marked(@, "analyzed")]]
      BY <1>8 DEF ToolAnalyzed
    <3>2. QED
      BY <1>8, <1>d, <3>1, ToolsType, LeaseType DEF ToolAnalyzed, PCs, Holding, Statuses
  <2>2. QED
    BY <1>8, <1>b, <1>c, <2>1, UpdateType, WritingToolShape DEF ToolAnalyzed, Statuses
<1>9. CASE ToolActive(t)
  <2>1. ToolsOK'
    BY <1>9, <1>a, ToolsType, LeaseType DEF ToolActive, PCs, Holding
  <2>2. /\ store' \in [Slots -> Row] /\ kept' \in [Slots -> BOOLEAN]
        /\ active' \in [Slots -> SUBSET Files]
    <3>1. CASE UNCHANGED <<store, kept, active>>
      BY <3>1 DEF Shape, DurableOK
    <3>2. ASSUME NEW x, x = Chat(call[t].sess), NEW out,
                 store' = Put(store, x, store[x], out),
                 kept' = [y \in Slots |-> y = x \/ (kept[y] /\ y \notin out)],
                 active' = [y \in Slots |-> IF y = x THEN {call[t].file}
                                             ELSE IF y \in out THEN {} ELSE active[y]]
          PROVE  /\ store' \in [Slots -> Row] /\ kept' \in [Slots -> BOOLEAN]
                 /\ active' \in [Slots -> SUBSET Files]
      <4>1. x \in Slots /\ call[t].file \in Files /\ store[x] \in Row
        BY <1>b, <3>2, SlotFacts DEF Calls, Shape, DurableOK
      <4>2. store' \in [Slots -> Row]
        BY <3>2, <4>1, PutType DEF Shape, DurableOK
      <4>3. QED
        BY <3>2, <4>1, <4>2 DEF Shape, DurableOK
    <3>3. QED
      BY <1>9, <3>1, <3>2 DEF ToolActive
  <2>3. QED
    BY <1>9, <2>1, <2>2, WritingToolShape DEF ToolActive, Shape, MemoryOK
<1>10. CASE ToolConsume(t)
  <2> DEFINE h == Held(t)
             g == [Marked(h.g, "uploaded") EXCEPT !.del = TRUE]
  <2>1. ToolsOK'
    BY <1>10, <1>a, ToolsType, LeaseType DEF ToolConsume, PCs, Holding
  <2>2. g \in Grant
    BY <1>b, <1>c, MarkedType DEF Shape, Statuses
  <2>3. CASE UNCHANGED <<store, kept, active, cache>>
    BY <1>10, <2>1, <2>3, WritingToolShape DEF ToolConsume, Shape, DurableOK, MemoryOK
  <2>4. ASSUME NEW out,
               store' = Put(store, Chat(h.s), [store[Chat(h.s)] EXCEPT ![h.f] = g], out),
               Forget(out), cache' = [cache EXCEPT ![h.s][h.f] = NoGrant]
        PROVE  Shape'
    <3>1. [store[Chat(h.s)] EXCEPT ![h.f] = g] \in Row
      BY <1>b, <2>2, SlotFacts DEF Shape, DurableOK, Row
    <3>2. store' \in [Slots -> Row]
      BY <2>4, <3>1, PutType DEF Shape, DurableOK
    <3>3. kept' \in [Slots -> BOOLEAN] /\ active' \in [Slots -> SUBSET Files]
      BY <2>4 DEF Forget, Shape, DurableOK
    <3>4. [cache[h.s] EXCEPT ![h.f] = NoGrant] \in Row
      BY <1>b, NoRowType DEF Shape, MemoryOK, Row
    <3>5. cache' = [cache EXCEPT ![h.s] = [cache[h.s] EXCEPT ![h.f] = NoGrant]]
      BY <2>4
    <3>6. cache' \in [Sessions -> Row]
      BY <3>4, <3>5 DEF Shape, MemoryOK
    <3>7. QED
      BY <1>10, <2>1, <3>2, <3>3, <3>6, WritingToolShape DEF ToolConsume
  <2>5. QED
    BY <1>10, <2>3, <2>4 DEF ToolConsume
<1>11. CASE ToolRelease(t)
  <2>1. ToolsOK'
    BY <1>11, <1>a, ToolsType, LeaseType DEF ToolRelease, PCs
  <2>2. QED
    BY <1>11, <2>1, QuietToolShape DEF ToolRelease
<1>12. CASE ToolFailMark(t)
  <2>1. ToolsOK'
    BY <1>12, <1>a, ToolsType, LeaseType DEF ToolFailMark
  <2>2. QED
    BY <1>12, <1>b, <1>c, <2>1, UpdateType, WritingToolShape DEF ToolFailMark, Statuses
<1>13. CASE ToolCleanup(t)
  <2>1. ToolsOK'
    BY <1>13, <1>a, ToolsType, LeaseType DEF ToolCleanup
  <2>2. PICK c : Clean(store, active, {}, c)
    BY <1>13 DEF ToolCleanup
  <2>3. /\ store' \in [Slots -> Row] /\ active' \in [Slots -> SUBSET Files]
        /\ disk' \subseteq disk
    BY <2>2, CleanType DEF Clean, Shape, DurableOK
  <2>4. DurableOK' /\ MemoryOK' /\ ClockOK'
    BY <1>13, <2>3 DEF ToolCleanup, Shape, DurableOK, MemoryOK, ClockOK, clock
  <2>5. QED
    BY <2>1, <2>4 DEF Shape
<1>14. QED
  BY <1>1, <1>2, <1>3, <1>4, <1>5, <1>6, <1>7, <1>8, <1>9, <1>10, <1>11, <1>12, <1>13
     DEF ToolStep

-----------------------------------------------------------------------------
(* Every step keeps Shape: rotation, maintenance, crash, clock; and all of them. *)

\* A step that only cleans, and the rest of the durable state around it.
LEMMA CleaningShape ==
  ASSUME Shape, NEW c, Clean(store, active, {}, c), marker' \subseteq Profiles,
         live' \subseteq live, UNCHANGED <<arrived, kept>>, MemoryOK', ToolsOK', ClockOK'
  PROVE  Shape'
<1>1. /\ store' \in [Slots -> Row] /\ active' \in [Slots -> SUBSET Files]
      /\ disk' \subseteq disk
  BY CleanType DEF Clean, Shape, DurableOK
<1>2. QED
  BY <1>1 DEF Shape, DurableOK

\* The types are kept by the rotation of a Session.
LEMMA ShapeSessionReset ==
  ASSUME Shape, NEW s \in Sessions, SessionReset(s)
  PROVE  Shape'
<1>1. PICK c : /\ Clean(store, active, {}, c)
               /\ marker' \in Markers(store, c, ProfileOf[s])
  BY DEF SessionReset
<1>2. MemoryOK' /\ ToolsOK' /\ ClockOK'
  BY DEF SessionReset, Shape, MemoryOK, ToolsOK, ClockOK, memory, clock
<1>3. QED
  BY <1>1, <1>2, CleaningShape, MarkersShrink DEF SessionReset, Shape, DurableOK

\* The types are kept by the provisioner's cleanup request.
LEMMA ShapeRequestCleanup ==
  ASSUME Shape, NEW p \in Profiles, RequestCleanup(p)
  PROVE  Shape'
<1>1. requests' \in 0..MaxRequests
  BY Bounds DEF RequestCleanup, Shape, ClockOK
<1>2. QED
  BY <1>1 DEF RequestCleanup, Shape, DurableOK, MemoryOK, ToolsOK, ClockOK, memory

\* The types are kept by the worker's sweep over the requests.
LEMMA ShapeMaintSweep ==
  ASSUME Shape, NEW p \in Profiles, MaintSweep(p)
  PROVE  Shape'
<1>1. mnt' \in [todo : SUBSET Profiles, pressure : BOOLEAN, pc : {"sweep", "scan"}]
  <2>1. mnt' \in {[mnt EXCEPT !.todo = @ \ {p}], FirstPass}
    BY DEF MaintSweep
  <2>2. mnt \in [todo : SUBSET Profiles, pressure : BOOLEAN, pc : {"sweep", "scan"}]
    BY DEF Shape, MemoryOK
  <2>3. [mnt EXCEPT !.todo = @ \ {p}] \in
          [todo : SUBSET Profiles, pressure : BOOLEAN, pc : {"sweep", "scan"}]
    BY <2>2
  <2>4. FirstPass \in [todo : SUBSET Profiles, pressure : BOOLEAN, pc : {"sweep", "scan"}]
    BY DEF FirstPass
  <2>5. QED
    BY <2>1, <2>3, <2>4
<1>2. MemoryOK' /\ ToolsOK' /\ ClockOK'
  BY <1>1 DEF MaintSweep, Shape, MemoryOK, ToolsOK, ClockOK, clock
<1>3. CASE UNCHANGED <<store, active, disk, marker>>
  BY <1>2, <1>3 DEF MaintSweep, Shape, DurableOK
<1>4. CASE \E c : /\ Clean(store, active, {}, c)
                  /\ marker' \in Markers(store, c, p)
  BY <1>2, <1>4, CleaningShape, MarkersShrink DEF MaintSweep, Shape, DurableOK
<1>5. QED
  BY <1>3, <1>4 DEF MaintSweep

\* The types are kept by the worker's measurement.
LEMMA ShapeMaintMeasure ==
  ASSUME Shape, MaintMeasure
  PROVE  Shape'
<1>1. mnt' \in [todo : SUBSET Profiles, pressure : BOOLEAN, pc : {"sweep", "scan"}]
  BY DEF MaintMeasure, Pressured, Shape, MemoryOK
<1>2. QED
  BY <1>1 DEF MaintMeasure, Shape, DurableOK, MemoryOK, ToolsOK, ClockOK, durable, clock

\* The types are kept by the worker's scan.
LEMMA ShapeMaintScan ==
  ASSUME Shape, MaintScan
  PROVE  Shape'
<1>1. MemoryOK' /\ ToolsOK' /\ ClockOK'
  BY DEF MaintScan, FirstPass, Shape, MemoryOK, ToolsOK, ClockOK, clock
<1>2. QED
  BY <1>1, CleaningShape DEF MaintScan, Shape, DurableOK

\* The types are kept by a crash of the Gateway.
LEMMA ShapeCrash ==
  ASSUME Shape, Crash
  PROVE  Shape'
<1>1. crashes' \in 0..MaxCrashes
  BY Bounds DEF Crash, Shape, ClockOK
<1>2. DurableOK'
  BY DEF Crash, Shape, DurableOK
<1>3. MemoryOK'
  <2>1. mnt' \in [todo : SUBSET Profiles, pressure : BOOLEAN, pc : {"sweep", "scan"}]
    BY DEF Crash, FirstPass
  <2>2. QED
    BY <2>1, NoRowType DEF Crash, MemoryOK
<1>4. ToolsOK' /\ ClockOK'
  BY <1>1 DEF Crash, Shape, ToolsOK, ClockOK
<1>5. QED
  BY <1>2, <1>3, <1>4 DEF Shape

\* The types are kept by the passing of time.
LEMMA ShapeTick ==
  ASSUME Shape, Tick
  PROVE  Shape'
<1>1. now' \in 0..MaxTime
  BY Bounds DEF Tick, Shape, ClockOK
<1>2. QED
  BY <1>1 DEF Tick, Shape, DurableOK, MemoryOK, ToolsOK, ClockOK, durable, memory

\* The empty cache has its types, and nobody holds a lease.
LEMMA ShapeInit ==
  ASSUME Init
  PROVE  Shape
<1>1. DurableOK
  BY NoRowType DEF Init, DurableOK
<1>2. MemoryOK
  BY NoRowType DEF Init, MemoryOK, FirstPass
<1>3. ToolsOK /\ ClockOK
  BY Bounds DEF Init, ToolsOK, ClockOK
<1>4. QED
  BY <1>1, <1>2, <1>3 DEF Shape

\* Every step keeps the types and the lease counts.
LEMMA ShapeNext ==
  ASSUME Shape, [Next]_vars
  PROVE  Shape'
<1>1. CASE UNCHANGED vars
  BY <1>1 DEF vars, durable, memory, clock, Shape, DurableOK, MemoryOK, ToolsOK, ClockOK
<1>2. CASE Next
  BY <1>2, ShapeCaptureBegin, ShapeCaptureAdmit, ShapeCaptureCommit, ShapeTurnBegin,
     ShapeTurnPersist, ShapeTurnHandoff, ShapeSessionReset, ShapeToolResolve, ShapeToolStep,
     ShapeRequestCleanup, ShapeMaintSweep, ShapeMaintMeasure, ShapeMaintScan, ShapeCrash,
     ShapeTick DEF Next, CaptureStep, TurnStep, Maintenance
<1>3. QED
  BY <1>1, <1>2

\* Every reachable state has its types.
LEMMA ShapeAlways == Spec => []Shape
<1>1. Init => Shape
  BY ShapeInit
<1>2. Shape /\ [Next]_vars => Shape'
  BY ShapeNext
<1>3. QED
  BY <1>1, <1>2, PTL DEF Spec

-----------------------------------------------------------------------------
(* The lease counts. *)

Holders(f) == {t \in Tools : tpc[t] \in Holding /\ call[t].file = f}

\* Only one tool call moves, and it holds the same lease before and after, or none.
LEMMA BalanceStays ==
  ASSUME Shape, LeaseBalance, NEW t \in Tools, UNCHANGED lease,
         \A u \in Tools \ {t} : tpc'[u] = tpc[u] /\ call'[u] = call[u],
         tpc'[t] \in Holding <=> tpc[t] \in Holding,
         tpc[t] \in Holding => call'[t].file = call[t].file
  PROVE  LeaseBalance'
<1>1. \A f \in Files : Holders(f)' = Holders(f)
  BY DEF Holders
<1>2. QED
  BY <1>1 DEF LeaseBalance, Holders

\* A tool call enters the lease of its file.
LEMMA BalanceEnters ==
  ASSUME Shape, LeaseBalance, NEW t \in Tools, tpc[t] = "lease", UNCHANGED call,
         NEW pc \in Holding, Goto(t, pc),
         lease' = [lease EXCEPT ![call[t].file] = @ + 1]
  PROVE  LeaseBalance'
<1>1. tpc \in [Tools -> PCs] /\ lease \in [Files -> Int]
  BY DEF Shape, ToolsOK, PCs
<1>2. t \notin Holders(call[t].file)
  BY DEF Holders, Holding
<1>3. Holders(call[t].file)' = Holders(call[t].file) \cup {t}
  BY <1>1 DEF Holders, Goto
<1>4. \A f \in Files \ {call[t].file} : Holders(f)' = Holders(f)
  BY <1>1 DEF Holders, Goto
<1>5. IsFiniteSet(Holders(call[t].file))
  BY Bounds, FS_Subset DEF Holders
<1>6. Cardinality(Holders(call[t].file)') = Cardinality(Holders(call[t].file)) + 1
  BY <1>2, <1>3, <1>5, FS_AddElement
<1>7. \A f \in Files : lease[f] = Cardinality(Holders(f))
  BY DEF LeaseBalance, Holders
<1>8. \A f \in Files : lease'[f] = Cardinality(Holders(f)')
  BY <1>1, <1>4, <1>6, <1>7
<1>9. QED
  BY <1>8 DEF LeaseBalance, Holders

\* A tool call leaves the lease of its file.
LEMMA BalanceLeaves ==
  ASSUME Shape, LeaseBalance, NEW t \in Tools, tpc[t] \in Holding, Release(t),
         End(t) \/ \E pc \in PCs \ Holding : Goto(t, pc) /\ UNCHANGED call
  PROVE  LeaseBalance'
<1>1. tpc \in [Tools -> PCs] /\ lease \in [Files -> Int] /\ "idle" \notin Holding
  BY DEF Shape, ToolsOK, PCs, Holding
<1>2. PICK F \in Files : F = call[t].file
  BY <1>1, HeldType
<1>3. tpc'[t] \notin Holding /\ \A u \in Tools \ {t} : tpc'[u] = tpc[u] /\ call'[u] = call[u]
  BY <1>1 DEF End, Goto, Shape, ToolsOK
<1>4. t \in Holders(F) /\ Holders(F)' = Holders(F) \ {t}
  BY <1>2, <1>3 DEF Holders
<1>5. \A f \in Files \ {F} : Holders(f)' = Holders(f)
  BY <1>2, <1>3 DEF Holders
<1>6. IsFiniteSet(Holders(F))
  BY Bounds, FS_Subset DEF Holders
<1>7. Cardinality(Holders(F)') = Cardinality(Holders(F)) - 1
  BY <1>4, <1>6, FS_RemoveElement
<1>8. \A f \in Files : lease[f] = Cardinality(Holders(f))
  BY DEF LeaseBalance, Holders
<1>9. lease' = [lease EXCEPT ![F] = @ - 1]
  BY <1>2 DEF Release
<1>10. \A f \in Files : lease'[f] = Cardinality(Holders(f)')
  BY <1>1, <1>5, <1>7, <1>8, <1>9
<1>11. QED
  BY <1>10 DEF LeaseBalance, Holders

\* Each step of a tool call keeps the balance.
LEMMA BalanceToolStep ==
  ASSUME Shape, LeaseBalance, NEW t \in Tools, ToolStep(t)
  PROVE  LeaseBalance'
<1>a. /\ tpc \in [Tools -> PCs] /\ DOMAIN call = Tools
      /\ tpc[t] # "idle" => call[t] \in Calls
  BY DEF Shape, ToolsOK, PCs
<1>b. \A pc : Goto(t, pc) => /\ tpc'[t] = pc
                             /\ \A u \in Tools \ {t} : tpc'[u] = tpc[u]
  BY <1>a DEF Goto
<1>c. End(t) => /\ tpc'[t] = "idle"
                /\ \A u \in Tools \ {t} : tpc'[u] = tpc[u] /\ call'[u] = call[u]
  BY <1>a DEF End, Goto
<1>1. CASE ToolLease(t)
  <2>1. CASE IsCurrent(Held(t).f, Held(t).g)
    <3>1. /\ tpc[t] = "lease" /\ UNCHANGED call
          /\ lease' = [lease EXCEPT ![call[t].file] = @ + 1]
          /\ \E pc \in Holding : Goto(t, pc)
      BY <1>1, <2>1 DEF ToolLease, Held, Holding
    <3>2. QED
      BY <3>1, BalanceEnters
  <2>2. CASE ~IsCurrent(Held(t).f, Held(t).g)
    <3>1. /\ tpc[t] = "lease" /\ UNCHANGED lease
          /\ (Goto(t, "failmark") /\ UNCHANGED call) \/ End(t)
      BY <1>1, <2>2 DEF ToolLease
    <3>2. QED
      BY <1>b, <1>c, <3>1, BalanceStays DEF Holding
  <2>3. QED
    BY <2>1, <2>2
<1>2. CASE ToolRaise(t)
  BY <1>2, BalanceLeaves DEF ToolRaise, Holding, PCs
<1>3. CASE ToolRelease(t)
  BY <1>3, BalanceLeaves DEF ToolRelease, Holding, PCs
<1>4. CASE ToolTouch(t) \/ ToolFailMark(t) \/ ToolCleanup(t)
  <2>1. /\ tpc[t] \in {"touch", "failmark", "cleanup"} /\ UNCHANGED lease
        /\ (Goto(t, "lease") /\ UNCHANGED call) \/ End(t)
    BY <1>4 DEF ToolTouch, ToolFailMark, ToolCleanup
  <2>2. QED
    BY <1>b, <1>c, <2>1, BalanceStays DEF Holding
<1>5. CASE ToolRefuse(t)
  <2>1. /\ tpc[t] = "lease" /\ UNCHANGED lease
        /\ (Goto(t, "failmark") /\ UNCHANGED call) \/ End(t)
    BY <1>5 DEF ToolRefuse
  <2>2. QED
    BY <1>b, <1>c, <2>1, BalanceStays DEF Holding
<1>6. CASE ToolMark(t) \/ ToolAnalyzed(t)
  <2>1. /\ tpc[t] \in {"mark", "work"} /\ UNCHANGED lease
        /\ \E status \in Statuses : call' = [call EXCEPT ![t].grant = Marked(@, status)]
        /\ \E pc \in {"open", "active"} : Goto(t, pc)
    BY <1>6 DEF ToolMark, ToolAnalyzed, Statuses
  <2>2. call'[t].file = call[t].file /\ \A u \in Tools \ {t} : call'[u] = call[u]
    BY <1>a, <2>1 DEF Calls
  <2>3. QED
    BY <1>b, <2>1, <2>2, BalanceStays DEF Holding
<1>7. CASE ToolOpen(t) \/ ToolUploadFails(t) \/ ToolActive(t) \/ ToolConsume(t)
  <2>1. /\ tpc[t] \in {"open", "work", "active"} /\ UNCHANGED <<lease, call>>
        /\ \E pc \in {"work", "release", "consumed"} : Goto(t, pc)
    BY <1>7 DEF ToolOpen, ToolUploadFails, ToolActive, ToolConsume
  <2>2. QED
    BY <1>b, <2>1, BalanceStays DEF Holding
<1>8. QED
  BY <1>1, <1>2, <1>3, <1>4, <1>5, <1>6, <1>7 DEF ToolStep

\* Every other step leaves tpc, call and lease alone, starts a call, or starts afresh.
LEMMA BalanceNext ==
  ASSUME Shape, LeaseBalance, [Next]_vars
  PROVE  LeaseBalance'
<1>1. CASE \E t \in Tools : ToolStep(t)
  BY <1>1, BalanceToolStep
<1>2. CASE \E t \in Tools, k \in Kinds, s \in Sessions, f \in Files : ToolResolve(t, k, s, f)
  <2>1. PICK t \in Tools : /\ tpc[t] = "idle" /\ Goto(t, "touch") /\ UNCHANGED lease
                           /\ \E c : call' = [call EXCEPT ![t] = c]
    BY <1>2 DEF ToolResolve
  <2>2. /\ tpc'[t] \notin Holding /\ tpc[t] \notin Holding
        /\ \A u \in Tools \ {t} : tpc'[u] = tpc[u] /\ call'[u] = call[u]
    BY <2>1 DEF Goto, Shape, ToolsOK, Holding
  <2>3. QED
    BY <2>1, <2>2, BalanceStays
<1>3. CASE Crash
  <2>1. \A f \in Files : {t \in Tools : tpc'[t] \in Holding /\ call'[t].file = f} = {}
    BY <1>3 DEF Crash, Holding
  <2>2. \A f \in Files : lease'[f] = 0
    BY <1>3 DEF Crash
  <2>3. QED
    BY <2>1, <2>2, FS_EmptySet DEF LeaseBalance
<1>4. CASE UNCHANGED <<tpc, call, lease>>
  BY <1>4 DEF LeaseBalance
<1>5. QED
  <2>1. CASE UNCHANGED vars
    BY <1>4, <2>1 DEF vars, memory
  <2>2. CASE Next
    BY <1>1, <1>2, <1>3, <1>4, <2>2
       DEF Next, CaptureBegin, CaptureStep, CaptureAdmit, CaptureCommit, TurnBegin, TurnStep,
           TurnPersist, TurnHandoff, SessionReset, RequestCleanup, Maintenance, MaintSweep,
           MaintMeasure, MaintScan, Tick, memory
  <2>3. QED
    BY <2>1, <2>2

\* However a handler leaves, by a refusal, a failure, success or a crash of the Gateway,
\* the lease count of every file is the number of handlers inside
\* _attachment_processing_lease with it.
THEOREM LeasesBalance == Spec => []LeaseBalance
<1>1. Init => LeaseBalance
  <2>1. ASSUME Init PROVE \A f \in Files : {t \in Tools : tpc[t] \in Holding /\ call[t].file = f} = {}
    BY <2>1 DEF Init, Holding
  <2>2. QED
    BY <2>1, FS_EmptySet DEF Init, LeaseBalance
<1>2. Shape /\ LeaseBalance /\ [Next]_vars => LeaseBalance'
  BY BalanceNext
<1>3. QED
  BY <1>1, <1>2, ShapeAlways, PTL DEF Spec

\* Every variable has its type in every reachable state of every instance, and no lease
\* count goes negative: releases never outnumber acquisitions.
THEOREM TypeCorrect == Spec => []TypeOK
<1>1. Shape /\ LeaseBalance => TypeOK
  <2>1. \A f \in Files : IsFiniteSet({t \in Tools : tpc[t] \in Holding /\ call[t].file = f})
    BY Bounds, FS_Subset
  <2>2. LeaseBalance => \A f \in Files : lease[f] \in Nat
    BY <2>1, FS_CardinalityType DEF LeaseBalance
  <2>3. QED
    BY <2>2 DEF Shape, TypeOK
<1>2. QED
  BY <1>1, ShapeAlways, LeasesBalance, PTL
=============================================================================
