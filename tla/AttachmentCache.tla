--------------------------- MODULE AttachmentCache ---------------------------
(***************************************************************************)
(* The temporary attachment cache of the Profile RAG plugin: the files the *)
(* Weixin adapter leaves on disk, the per-Profile store that registers     *)
(* them, the in-memory bridge and session cache, and the threads that work *)
(* on them: the event loop (capture), the agent threads (turns and         *)
(* attachment tools), the Session hooks (reset), the maintenance worker,   *)
(* and a Gateway crash.  One action is one critical section of the code:   *)
(* everything done under one hold of the governance lock, or of the        *)
(* pending lock, is one step, and what happens between two holds may       *)
(* interleave with every other thread.                                     *)
(***************************************************************************)
EXTENDS Integers, FiniteSetsExt

CONSTANTS
  Files,            \* cached files; one value is one (path, inode, size, mtime)
  Profiles,         \* employee Profiles, one Weixin sender each
  Sessions,         \* chat Sessions
  Tools,            \* concurrent attachment tool calls
  Owner,            \* the Profile whose employee sends a file
  ProfileOf,        \* the Profile a Session belongs to
  Supported,        \* files whose format and size _grant_from_path accepts
  Size,             \* bytes of a file
  BatchMaxFiles, SessionMaxFiles, SessionMaxBytes, ProfileMaxBytes,
  CleanupBytes,     \* global maximum * cleanup percent
  RejectBytes,      \* global maximum * reject percent
  DiskStates,       \* what the cache filesystem may report
  MaxSessions,      \* MAX_ATTACHMENT_SESSIONS
  FreshTTL, IdleTTL, HardTTL,
  Faults,           \* subset of {"write", "unlink"}: which OSErrors may occur
  MaxTime,          \* bound: the last tick of the clock
  Kinds,            \* which attachment handlers are called
  MaxCrashes,       \* bound: Gateway crashes
  MaxRequests       \* bound: cleanup requests of the provisioner

\* A Profile's store keeps, beside its Sessions, one "pending" pseudo-session
\* holding what was captured and not handed to a Session yet.
Pending(p) == <<"pending", p>>
Chat(s) == <<"session", s>>
Slots == {Pending(p) : p \in Profiles} \cup {Chat(s) : s \in Sessions}
Home(x) == IF x[1] = "pending" THEN x[2] ELSE ProfileOf[x[2]]
SlotsOf(p) == {x \in Slots : Home(x) = p}

Statuses == {"none", "pending", "processing", "analyzed", "failed", "uploaded"}
Grant == [status : Statuses, cap : 0..MaxTime, acc : 0..MaxTime, del : BOOLEAN]
NoGrant == [status |-> "none", cap |-> 0, acc |-> 0, del |-> FALSE]
Row == [Files -> Grant]
NoRow == [f \in Files |-> NoGrant]
NoBridge == [row |-> NoRow, note |-> FALSE]

ASSUME Bounds ==
  /\ Owner \in [Files -> Profiles] /\ ProfileOf \in [Sessions -> Profiles]
  /\ Size \in [Files -> Nat \ {0}] /\ Supported \subseteq Files
  /\ {BatchMaxFiles, SessionMaxFiles, SessionMaxBytes, ProfileMaxBytes, CleanupBytes,
      RejectBytes, MaxSessions, FreshTTL, IdleTTL, HardTTL, MaxTime, MaxCrashes,
      MaxRequests} \subseteq Nat
  /\ Kinds \subseteq {"analyze", "upload", "task", "reference"}
  /\ DiskStates \subseteq {"free", "high", "full"} /\ DiskStates # {}
  /\ Faults \subseteq {"write", "unlink"}
  /\ CleanupBytes <= RejectBytes
  /\ IsFiniteSet(Files) /\ IsFiniteSet(Tools)

VARIABLES
  disk,     \* files physically present under the cache root
  arrived,  \* files the adapter has ever written (history: each is sent once)
  store,    \* durable registrations: slot -> file -> grant
  kept,     \* slots with other durable state (user message, intent, active attachment)
  active,   \* the path named by a slot's active_attachment, as a set of at most one
  marker,   \* Profiles with a cleanup request file written by the provisioner
  live,     \* Sessions not yet rotated by the Gateway
  cache,    \* _SESSION_ATTACHMENTS: session -> file -> grant
  bridge,   \* the process-wide pending registry, per Profile
  lease,    \* governance.leases
  capture,  \* the event loop inside _capture_pending_attachments
  turn,     \* each Session's agent thread inside _on_pre_llm_call
  tpc,      \* each tool call's control point
  call,     \* each tool call's kind, Session, file and its copy of the grant
  mnt,      \* the maintenance worker inside _run_attachment_maintenance
  now, crashes, requests

clock == <<now, crashes, requests>>
durable == <<disk, arrived, store, kept, active, marker, live>>
memory  == <<cache, bridge, lease, capture, turn, tpc, call, mnt>>
vars == <<durable, memory, clock>>

\* A slot's registered files, and a row cut down to some files.
Named(row) == {f \in Files : row[f].status # "none"}
Only(row, K) == [f \in Files |-> IF f \in K THEN row[f] ELSE NoGrant]
Refs(st, f) == {x \in Slots : f \in Named(st[x])}
Registered(st) == {f \in Files : Refs(st, f) # {}}
\* The total size of some files, each byte counted as the pair of its file and its place.
Bytes(S) == Cardinality(UNION {{f} \X (1 .. Size[f]) : f \in S})

Fresh == [status |-> "pending", cap |-> now, acc |-> now, del |-> FALSE]

\* _grant_expired
Expired(g) ==
  \/ g.del
  \/ now - g.cap >= HardTTL
  \/ g.status = "analyzed" /\ now - g.acc >= IdleTTL
  \/ g.status \in {"pending", "processing", "failed"} /\ now - g.acc >= FreshTTL

\* _grant_is_current / _leased_grant_is_current: the identity never drifts here
IsCurrent(f, g) == f \in disk /\ ~Expired(g)
CurrentIn(row) == {f \in Named(row) : IsCurrent(f, row[f])}

-----------------------------------------------------------------------------
(* _cleanup_attachment_cache.  `st` is the store it reads; `c` is one outcome: *)
(* the slots selected by force, the files taken under pressure, the files     *)
(* whose unlink raises OSError, and the slots written before a write raises.  *)
Plan(forced, lru, fail, written) ==
  [forced |-> forced, lru |-> lru, fail |-> fail, written |-> written]

\* (mutant) a reset selects the file instead of the Session's reference to it
Removable_ForceByFile(st, c, x, f) ==
  /\ f \in Named(st[x])
  /\ Refs(st, f) \cap c.forced # {} \/ f \in c.lru \/ Expired(st[x][f])

\* remove_refs
Removable(st, c, x, f) ==
  /\ f \in Named(st[x])
  /\ x \in c.forced \/ f \in c.lru \/ Expired(st[x][f])

\* delete_keys: no slot keeps a reference
Doomed(st, c) == {f \in Registered(st) : \A x \in Refs(st, f) : Removable(st, c, x, f)}

\* (mutant) the lease check is dropped
Deleted_IgnoreLease(st, c) == Doomed(st, c) \ c.fail

\* deleted_keys: the unlinked (or already absent) files, never one under a lease
Deleted(st, c) == {f \in Doomed(st, c) : lease[f] = 0 /\ f \notin c.fail}

\* (mutant) a removable reference is dropped although its file was not deleted
Dropped_WithoutDeletion(st, c, x, f) == Removable(st, c, x, f)

\* should_remove: the file is gone, or another slot still keeps it
Dropped(st, c, x, f) ==
  /\ Removable(st, c, x, f)
  /\ \/ f \in Deleted(st, c)
     \/ \E y \in Refs(st, f) \ {x} : ~Removable(st, c, y, f)

CleanRow(st, c, x) ==
  [f \in Files |->
     IF Dropped(st, c, x, f) THEN NoGrant
     ELSE IF Removable(st, c, x, f) THEN [st[x][f] EXCEPT !.del = TRUE]
     ELSE st[x][f]]
Changed(st, c) == {x \in Slots : CleanRow(st, c, x) # st[x]}
Finished(st, c) == c.written = Changed(st, c)

CleanStore(st, c) == [x \in Slots |-> IF x \in c.written THEN CleanRow(st, c, x) ELSE st[x]]

\* _active_attachment_without_source: the path goes with the last removed grant
CleanActive(act, st, c) ==
  [x \in Slots |-> IF x \in c.written THEN {f \in act[x] : ~Dropped(st, c, x, f)} ELSE act[x]]

\* min(access_time) over a file's references, and the LRU prefix that brings the
\* total down: equal access times are taken in either order.
LastAccess(st, f) == Min({st[x][f].acc : x \in Refs(st, f)})
LruChoices(st, forced, reclaim) ==
  LET total == Bytes(Registered(st))
      excess == IF total > CleanupBytes THEN total - CleanupBytes ELSE 0
      goal == IF reclaim > excess THEN reclaim ELSE excess
      cand == {f \in Registered(st) \ Doomed(st, Plan(forced, {}, {}, {})) : lease[f] = 0}
      Older(f, g) == LastAccess(st, f) <= LastAccess(st, g)
  IN {L \in SUBSET cand :
        /\ \A f \in L, g \in cand \ L : Older(f, g)
        /\ L = cand \/ Bytes(L) >= goal
        /\ L = {} \/ \E f \in L : Bytes(L \ {f}) < goal /\ \A g \in L : Older(g, f)}

\* What the filesystem asks for on top of the logical limit (external).
Reclaims == IF DiskStates = {"free"} THEN {0} ELSE 0..Bytes(Files)
Pressured(used, state) == used >= CleanupBytes \/ state # "free"
\* The sets of files one call may take: none unless it runs under pressure.
Victims(st, forced, pressure) ==
  IF pressure THEN UNION {LruChoices(st, forced, r) : r \in Reclaims} ELSE {{}}

May(fault, S) == IF fault \in Faults THEN SUBSET S ELSE {{}}

\* The stores are rewritten one Profile after the other, each slot by slot: a write that
\* raises leaves at most one Profile half written.
Prefixes(all) ==
  LET Cut(w, p) == w \cap SlotsOf(p) # {} /\ ~(all \cap SlotsOf(p) \subseteq w)
  IN {w \in SUBSET all : \A p, q \in Profiles : Cut(w, p) /\ Cut(w, q) => p = q}

\* Every outcome of one call: which unlinks fail, and which writes a failure spares.
Outcomes(st, forced, lru) ==
  LET tried == {f \in Doomed(st, Plan(forced, lru, {}, {})) \cap disk : lease[f] = 0}
      Writes(fail) == LET all == Changed(st, Plan(forced, lru, fail, {}))
                      IN IF "write" \in Faults THEN Prefixes(all) ELSE {all}
  IN UNION {{Plan(forced, lru, fail, w) : w \in Writes(fail)} : fail \in May("unlink", tried)}
Cleanups(st, forced, pressure) ==
  UNION {Outcomes(st, forced, lru) : lru \in Victims(st, forced, pressure)}

\* (mutant) the request file goes before the stores are written
Markers_Before(st, c, p) == {marker \ {p}}

\* The request file of a forced cleanup of p: unlinked once p's slots are written, whether
\* or not another Profile's write raised before or after; its own unlink may fail.
Markers(st, c, p) ==
  LET due == Changed(st, c) \cap SlotsOf(p)
  IN IF ~(due \subseteq c.written) THEN {marker}
     ELSE {marker \ {p}} \cup
          IF "unlink" \in Faults \/ (due = {} /\ ~Finished(st, c)) THEN {marker} ELSE {}

Clean(st, act, gone, c) ==
  /\ store' = CleanStore(st, c)
  /\ active' = CleanActive(act, st, c)
  /\ disk' = (disk \ gone) \ Deleted(st, c)

-----------------------------------------------------------------------------
(* Writing one slot: _persist_session_attachment_state keeps the newest       *)
(* MaxSessions slots of the Profile, so a slot that becomes present may push  *)
(* out another; which one is the oldest is left open.                         *)
Present(st, x) == kept[x] \/ Named(st[x]) # {}
Evictions(st, x) ==
  LET others == {y \in SlotsOf(Home(x)) \ {x} : Present(st, y)}
  IN IF Cardinality(others) >= MaxSessions THEN {{y} : y \in others} ELSE {{}}
Put(st, x, row, out) ==
  [y \in Slots |-> IF y = x THEN row ELSE IF y \in out THEN NoRow ELSE st[y]]
Forget(out) == /\ kept' = [y \in Slots |-> kept[y] /\ y \notin out]
               /\ active' = [y \in Slots |-> IF y \in out THEN {} ELSE active[y]]

-----------------------------------------------------------------------------
(* Capture: the event loop registers the files of one inbound message.        *)

Rejected(B, head) == B \ (head \cap Supported)

\* First hold of the pending lock, and the checks made with no lock at all: the
\* adapter has written the batch, the entries already waiting are read, files
\* beyond the batch limit or of a wrong kind are unlinked at once.
CaptureBegin(p, B) ==
  /\ capture.pc = "idle"
  /\ B # {} /\ B \cap arrived = {} /\ \A f \in B : Owner[f] = p
  /\ now + HardTTL <= MaxTime          \* bound: every lifetime can run out
  /\ LET waiting == Cardinality(Named(bridge[p].row))
         room == IF waiting >= BatchMaxFiles THEN 0 ELSE BatchMaxFiles - waiting
     IN \E head \in SUBSET B, stuck \in May("unlink", B) :
          /\ Cardinality(head) = IF room < Cardinality(B) THEN room ELSE Cardinality(B)
          /\ disk' = disk \cup (B \ (Rejected(B, head) \ stuck))
          /\ capture' =
               [pc |-> IF head \cap Supported = {} THEN "commit" ELSE "admit", prof |-> p,
                fresh |-> [f \in Files |-> IF f \in head \cap Supported THEN Fresh ELSE NoGrant],
                seen |-> bridge[p], note |-> bridge[p].note \/ Rejected(B, head) # {}]
  /\ arrived' = arrived \cup B
  /\ UNCHANGED <<store, kept, active, marker, live, cache, bridge, lease, turn, tpc, call,
                 mnt, clock>>

\* (mutant) the Profile quota counts only what is registered already
OverQuota_Before(st, p, B, state) ==
  \/ state = "full"
  \/ Bytes(Registered(st) \cup B) > RejectBytes
  \/ Bytes({f \in Files : \E x \in SlotsOf(p) : f \in Named(st[x])}) > ProfileMaxBytes

\* _admit_profile_batch's verdict on the usage with the batch added
OverQuota(st, p, B, state) ==
  \/ state = "full"
  \/ Bytes(Registered(st) \cup B) > RejectBytes
  \/ Bytes({f \in Files : \E x \in SlotsOf(p) : f \in Named(st[x])} \cup B) > ProfileMaxBytes

\* The batch joins the pending slot, or is refused and unlinked; `st`, `act` and `dk`
\* are what the pressure cleanup left.
Accept(st, act, dk) ==
  /\ LET x == Pending(capture.prof)
         row == [f \in Files |-> IF f \in Named(capture.fresh) THEN capture.fresh[f] ELSE st[x][f]]
     IN \E out \in Evictions(st, x) :
          /\ store' = Put(st, x, row, out)
          /\ kept' = [y \in Slots |-> kept[y] /\ y \notin out]
          /\ active' = [y \in Slots |-> IF y \in out THEN {} ELSE act[y]]
  /\ disk' = dk
  /\ capture' = [capture EXCEPT !.pc = "commit"]
Refuse(st, act, dk) ==
  /\ store' = st /\ active' = act /\ UNCHANGED kept
  /\ \E stuck \in May("unlink", Named(capture.fresh)) :
       disk' = dk \ (Named(capture.fresh) \ stuck)
  /\ capture' = [capture EXCEPT !.pc = "commit", !.fresh = NoRow, !.note = TRUE]
Decide(st, act, dk, states) ==
  \E after \in states :
    LET over == OverQuota(st, capture.prof, Named(capture.fresh), after)
    IN \/ ~over /\ Accept(st, act, dk)
       \/ (over \/ "write" \in Faults) /\ Refuse(st, act, dk)

\* If the pressure cleanup's store write raises, the exception leaves the hook and the
\* batch stays on disk, neither registered nor handed on.
Abort(st, act, dk) ==
  /\ store' = st /\ active' = act /\ disk' = dk /\ UNCHANGED kept
  /\ capture' = [pc |-> "idle"]

\* One hold of the governance lock: make room if the usage asks for it, then decide
\* on the usage as it is after a cleanup, or as it was measured.
CaptureAdmit ==
  /\ capture.pc = "admit"
  /\ \E before \in DiskStates :
       IF Pressured(Bytes(Registered(store) \cup Named(capture.fresh)), before)
       THEN \E c \in Cleanups(store, {}, TRUE) :
              LET st == CleanStore(store, c)
                  act == CleanActive(active, store, c)
                  dk == disk \ Deleted(store, c)
              IN IF Finished(store, c) THEN Decide(st, act, dk, DiskStates) ELSE Abort(st, act, dk)
       ELSE Decide(store, active, disk, {before})
  /\ UNCHANGED <<arrived, marker, live, cache, bridge, lease, turn, tpc, call, mnt, clock>>

\* Second hold of the pending lock: what was seen at the start plus the new files.
CaptureCommit ==
  /\ capture.pc = "commit"
  /\ bridge' = [bridge EXCEPT ![capture.prof] =
       [row |-> [f \in Files |-> IF f \in Named(capture.fresh) THEN capture.fresh[f]
                                 ELSE capture.seen.row[f]],
        note |-> capture.note]]
  /\ capture' = [pc |-> "idle"]
  /\ UNCHANGED <<durable, cache, lease, turn, tpc, call, mnt, clock>>

-----------------------------------------------------------------------------
(* A turn: _on_pre_llm_call in an agent thread.                               *)

\* (mutant) every waiting file is taken, whoever sent it
TurnBegin_AnyProfile(s) ==
  /\ s \in live /\ turn[s].pc = "idle"
  /\ \E p \in Profiles :
       /\ turn' = [turn EXCEPT ![s] = [pc |-> "persist", entries |-> bridge[p]]]
       /\ bridge' = [bridge EXCEPT ![p] = NoBridge]
  /\ UNCHANGED <<durable, cache, lease, capture, tpc, call, mnt, clock>>

\* pending.pop under the pending lock
TurnBegin(s) ==
  /\ s \in live /\ turn[s].pc = "idle"
  /\ bridge[ProfileOf[s]] # NoBridge \/ ~kept[Chat(s)]   \* bound: later text turns change nothing
  /\ turn' = [turn EXCEPT ![s] = [pc |-> "persist", entries |-> bridge[ProfileOf[s]]]]
  /\ bridge' = [bridge EXCEPT ![ProfileOf[s]] = NoBridge]
  /\ UNCHANGED <<durable, cache, lease, capture, tpc, call, mnt, clock>>

\* _persist_session_turn; a failing write raises out of the hook and the popped
\* entries are lost from memory.
TurnPersist(s) ==
  /\ turn[s].pc = "persist"
  /\ \/ /\ \E out \in Evictions(store, Chat(s)) :
             /\ store' = Put(store, Chat(s), store[Chat(s)], out)
             /\ kept' = [y \in Slots |-> y = Chat(s) \/ (kept[y] /\ y \notin out)]
             /\ active' = [y \in Slots |-> IF y \in out THEN {} ELSE active[y]]
        /\ turn' = [turn EXCEPT ![s] = IF turn[s].entries = NoBridge THEN [pc |-> "idle"]
                                       ELSE [@ EXCEPT !.pc = "handoff"]]
     \/ /\ "write" \in Faults
        /\ turn' = [turn EXCEPT ![s] = [pc |-> "idle"]]
        /\ UNCHANGED <<store, kept, active>>
  /\ UNCHANGED <<disk, arrived, marker, live, cache, bridge, lease, capture, tpc, call, mnt,
                 clock>>

\* The rows _load_session_grants may return: the current cached grants if there are
\* any, else the current stored ones, cut to the Session maximum.
LoadedRows(s) ==
  LET hit == CurrentIn(cache[s])
      stored == CurrentIn(store[Chat(s)])
  IN IF hit # {} THEN {Only(cache[s], hit)}
     ELSE {Only(store[Chat(s)], K) : K \in {J \in SUBSET stored : Cardinality(J) =
             IF Cardinality(stored) < SessionMaxFiles THEN Cardinality(stored) ELSE SessionMaxFiles}}
Remember(s, row) == cache' = IF Named(row) = {} THEN cache ELSE [cache EXCEPT ![s] = row]

\* What a Session with files H admits of the files G, taken in some order.
Admissible(H, G) ==
  LET Fits(A) == /\ Cardinality(H \cup A) <= SessionMaxFiles
                 /\ Bytes(H \cup A) <= SessionMaxBytes
  IN {A \in SUBSET (G \ H) :
        /\ A = {} \/ Fits(A)
        /\ \A f \in (G \ H) \ A : ~Fits(A \cup {f})}

\* The Session's list is rewritten, then the pending slot is cleaned by force, which
\* also removes the Profile's cleanup request file.
Rewrite(s, G, row, out, refused) ==
  LET p == ProfileOf[s]
      st == IF G = {} THEN store ELSE Put(store, Chat(s), row, out)
      act == IF G = {} THEN active ELSE [y \in Slots |-> IF y \in out THEN {} ELSE active[y]]
  IN /\ cache' = IF G = {} THEN cache ELSE [cache EXCEPT ![s] = row]
     /\ \/ /\ \E c \in Cleanups(st, {Pending(p)}, FALSE) :
                /\ Clean(st, act, refused, c)
                /\ marker' \in Markers(st, c, p)
           /\ kept' = IF G = {} THEN kept ELSE [y \in Slots |-> kept[y] /\ y \notin out]
        \/ \* the Session's own store write raises
           /\ "write" \in Faults /\ G # {} /\ disk' = disk \ refused
           /\ UNCHANGED <<store, kept, active, marker>>

\* _handoff_pending_attachments, one hold of the governance lock: the grants still
\* current join what the Session has loaded, and what it refuses is unlinked.
TurnHandoff(s) ==
  /\ turn[s].pc = "handoff"
  /\ LET e == turn[s].entries.row
         G == CurrentIn(e)
     IN \E old \in LoadedRows(s), out \in Evictions(store, Chat(s)) :
        \E A \in Admissible(Named(old), G) :
        \E stuck \in May("unlink", G) :
          Rewrite(s, G, [f \in Files |-> IF f \in A THEN e[f] ELSE old[f]], out,
                  (G \ (Named(old) \cup A)) \ stuck)
  /\ turn' = [turn EXCEPT ![s] = [pc |-> "idle"]]
  /\ UNCHANGED <<arrived, live, bridge, lease, capture, tpc, call, mnt, clock>>

-----------------------------------------------------------------------------
(* Attachment tool calls, each in a worker thread.  call[t].grant is the copy  *)
(* of the grant the handler holds: it is not refreshed when the store changes. *)

\* _update_session_grant: the caller's copy replaces the stored entry, and is
\* appended when the slot has none.
Update(s, f, g) ==
  /\ \E out \in Evictions(store, Chat(s)) :
       /\ store' = Put(store, Chat(s), [store[Chat(s)] EXCEPT ![f] = g], out)
       /\ Forget(out)
  /\ cache' = IF f \in Named(cache[s]) THEN [cache EXCEPT ![s][f] = g] ELSE cache

\* The best-effort callers swallow a failing write.
BestEffort(s, f, g) == \/ Update(s, f, g)
                       \/ ("write" \in Faults) /\ UNCHANGED <<store, kept, active, cache>>

Goto(t, pc) == tpc' = [tpc EXCEPT ![t] = pc]
End(t) == Goto(t, "idle") /\ call' = [call EXCEPT ![t] = [kind |-> "none"]]
Held(t) == [s |-> call[t].sess, f |-> call[t].file, g |-> call[t].grant]
\* (mutant) a mark starts the lifetime of the grant anew
Marked_Renews(g, status) == [g EXCEPT !.status = status, !.cap = now, !.acc = now]

Marked(g, status) == [g EXCEPT !.status = status, !.acc = now]
elsewhere == <<disk, arrived, marker, live, bridge, capture, turn, mnt, clock>>

\* _resolve_authorized_attachment up to the touch: any loaded grant can be the one
\* asked for.  "reference" is the turn's own refresh of its active attachment.
ToolResolve(t, k, s, f) ==
  /\ tpc[t] = "idle"
  /\ \E row \in LoadedRows(s) :
       /\ f \in Named(row) /\ (k = "reference" => f \in active[Chat(s)])
       /\ Remember(s, row)
       /\ call' = [call EXCEPT ![t] = [kind |-> k, sess |-> s, file |-> f, grant |-> row[f]]]
  /\ Goto(t, "touch")
  /\ UNCHANGED <<durable, bridge, lease, capture, turn, mnt, clock>>

\* _touch_session_grant: the handler keeps the untouched copy
ToolTouch(t) ==
  /\ tpc[t] = "touch"
  /\ LET h == Held(t) IN BestEffort(h.s, h.f, [h.g EXCEPT !.acc = now])
  /\ IF call[t].kind = "reference" THEN End(t) ELSE Goto(t, "lease") /\ UNCHANGED call
  /\ UNCHANGED <<elsewhere, lease>>

\* Bad arguments, a video, a task that is not available: return before any lease.
\* A knowledge upload with a wrong image_analysis also marks the grant failed.
ToolRefuse(t) ==
  /\ tpc[t] = "lease"
  /\ \/ End(t)
     \/ call[t].kind = "upload" /\ Goto(t, "failmark") /\ UNCHANGED call
  /\ UNCHANGED <<durable, cache, bridge, lease, capture, turn, mnt, clock>>

\* Entering _attachment_processing_lease
ToolLease(t) ==
  /\ tpc[t] = "lease"
  /\ LET h == Held(t)
     IN IF IsCurrent(h.f, h.g)
        THEN /\ lease' = [lease EXCEPT ![h.f] = @ + 1]
             /\ Goto(t, IF call[t].kind = "task" THEN "open" ELSE "mark")
             /\ UNCHANGED call
        ELSE /\ UNCHANGED lease
             /\ IF call[t].kind = "analyze" THEN Goto(t, "failmark") /\ UNCHANGED call
                                            ELSE End(t)
  /\ UNCHANGED <<durable, cache, bridge, capture, turn, mnt, clock>>

\* _best_effort_mark_grant(..., "processing"): the handler goes on with the marked copy
ToolMark(t) ==
  /\ tpc[t] = "mark"
  /\ LET h == Held(t) IN BestEffort(h.s, h.f, Marked(h.g, "processing"))
  /\ call' = [call EXCEPT ![t].grant = Marked(@, "processing")]
  /\ Goto(t, "open")
  /\ UNCHANGED <<elsewhere, lease>>

\* _GrantPathOpen.__enter__ succeeds
ToolOpen(t) ==
  /\ tpc[t] = "open" /\ IsCurrent(call[t].file, call[t].grant)
  /\ Goto(t, "work")
  /\ UNCHANGED <<durable, cache, bridge, lease, capture, turn, call, mnt, clock>>

Release(t) == lease' = [lease EXCEPT ![call[t].file] = @ - 1]

\* Leaving the lease on an exception: the file changed, or the work raised.  The
\* analysis handler marks the grant failed after the lease is gone.
ToolRaise(t) ==
  /\ \/ tpc[t] = "open" /\ ~IsCurrent(call[t].file, call[t].grant)
     \/ tpc[t] \in {"open", "work"} /\ call[t].kind \in {"analyze", "task"}
  /\ Release(t)
  /\ IF call[t].kind = "analyze" THEN Goto(t, "failmark") /\ UNCHANGED call ELSE End(t)
  /\ UNCHANGED <<durable, cache, bridge, capture, turn, mnt, clock>>

\* A knowledge upload that cannot be prepared, put or finalised marks inside the lease
ToolUploadFails(t) ==
  /\ tpc[t] \in {"open", "work"} /\ call[t].kind = "upload"
  /\ LET h == Held(t) IN BestEffort(h.s, h.f, Marked(h.g, "failed"))
  /\ Goto(t, "release")
  /\ UNCHANGED <<elsewhere, lease, call>>

\* The analysis succeeded: mark it
ToolAnalyzed(t) ==
  /\ tpc[t] = "work" /\ call[t].kind = "analyze"
  /\ LET h == Held(t) IN BestEffort(h.s, h.f, Marked(h.g, "analyzed"))
  /\ call' = [call EXCEPT ![t].grant = Marked(@, "analyzed")]
  /\ Goto(t, "active")
  /\ UNCHANGED <<elsewhere, lease>>

\* _persist_active_attachment
ToolActive(t) ==
  /\ tpc[t] = "active"
  /\ LET x == Chat(call[t].sess)
     IN \/ \E out \in Evictions(store, x) :
             /\ store' = Put(store, x, store[x], out)
             /\ kept' = [y \in Slots |-> y = x \/ (kept[y] /\ y \notin out)]
             /\ active' = [y \in Slots |-> IF y = x THEN {call[t].file}
                                           ELSE IF y \in out THEN {} ELSE active[y]]
        \/ ("write" \in Faults) /\ UNCHANGED <<store, kept, active>>
  /\ Goto(t, "release")
  /\ UNCHANGED <<elsewhere, lease, cache, call>>

\* _consume_attachment after the upload was confirmed; a failing write raises
ToolConsume(t) ==
  /\ tpc[t] = "work" /\ call[t].kind \in {"upload", "task"}
  /\ LET h == Held(t)
         x == Chat(h.s)
         g == [Marked(h.g, "uploaded") EXCEPT !.del = TRUE]
     IN \/ /\ \E out \in Evictions(store, x) :
                /\ store' = Put(store, x, [store[x] EXCEPT ![h.f] = g], out)
                /\ Forget(out)
           /\ cache' = [cache EXCEPT ![h.s][h.f] = NoGrant]
           /\ Goto(t, IF call[t].kind = "upload" THEN "consumed" ELSE "release")
        \/ /\ "write" \in Faults /\ UNCHANGED <<store, kept, active, cache>>
           /\ Goto(t, "release")
  /\ UNCHANGED <<elsewhere, lease, call>>

\* (mutant) the lease survives an early return
ToolRelease_Leaks(t) ==
  /\ tpc[t] \in {"release", "consumed"}
  /\ IF tpc[t] = "consumed" THEN Release(t) /\ Goto(t, "cleanup") /\ UNCHANGED call
     ELSE UNCHANGED lease /\ End(t)
  /\ UNCHANGED <<durable, cache, bridge, capture, turn, mnt, clock>>

\* Leaving the lease normally
ToolRelease(t) ==
  /\ tpc[t] \in {"release", "consumed"}
  /\ Release(t)
  /\ IF tpc[t] = "consumed" THEN Goto(t, "cleanup") /\ UNCHANGED call ELSE End(t)
  /\ UNCHANGED <<durable, cache, bridge, capture, turn, mnt, clock>>

\* (mutant) the failure path leaves the lease a second time
ToolFailMark_ReleasesAgain(t) ==
  /\ tpc[t] = "failmark"
  /\ LET h == Held(t) IN BestEffort(h.s, h.f, Marked(h.g, "failed"))
  /\ Release(t) /\ End(t)
  /\ UNCHANGED elsewhere

\* _best_effort_mark_grant(..., "failed") outside the lease, with the first copy
ToolFailMark(t) ==
  /\ tpc[t] = "failmark"
  /\ LET h == Held(t) IN BestEffort(h.s, h.f, Marked(h.g, "failed"))
  /\ End(t)
  /\ UNCHANGED <<elsewhere, lease>>

\* The cleanup an upload ends with: not forced, so only what has expired goes
ToolCleanup(t) ==
  /\ tpc[t] = "cleanup"
  /\ \E c \in Cleanups(store, {}, FALSE) : Clean(store, active, {}, c)
  /\ End(t)
  /\ UNCHANGED <<arrived, kept, marker, live, cache, bridge, lease, capture, turn, mnt, clock>>

-----------------------------------------------------------------------------
(* Session rotation, the provisioner's request, maintenance, crash, clock.     *)

\* _promote_profile_session: a forced cleanup of one Session, which also removes the
\* Profile's cleanup request file.
SessionReset(s) ==
  /\ s \in live
  /\ live' = live \ {s}
  /\ \E c \in Cleanups(store, {Chat(s)}, FALSE) :
       /\ Clean(store, active, {}, c)
       /\ marker' \in Markers(store, c, ProfileOf[s])
  /\ UNCHANGED <<arrived, kept, memory, clock>>

\* request_profile_attachment_cleanup, by the provisioner's process
RequestCleanup(p) ==
  /\ p \notin marker /\ requests < MaxRequests
  /\ marker' = marker \cup {p} /\ requests' = requests + 1
  /\ UNCHANGED <<disk, arrived, store, kept, active, live, memory, now, crashes>>

FirstPass == [todo |-> Profiles, pressure |-> FALSE, pc |-> "sweep"]

\* One Profile of the sweep over the cleanup requests; an exception ends the pass
MaintSweep(p) ==
  /\ mnt.pc = "sweep" /\ p \in mnt.todo
  /\ \/ /\ p \in marker
        /\ \E c \in Cleanups(store, SlotsOf(p), FALSE) :
             /\ Clean(store, active, {}, c)
             /\ marker' \in Markers(store, c, p)
             /\ mnt' = IF Finished(store, c) THEN [mnt EXCEPT !.todo = @ \ {p}] ELSE FirstPass
     \/ /\ p \notin marker
        /\ mnt' = [mnt EXCEPT !.todo = @ \ {p}]
        /\ UNCHANGED <<store, active, disk, marker>>
  /\ UNCHANGED <<arrived, kept, live, cache, bridge, lease, capture, turn, tpc, call, clock>>

\* The usage is measured in one hold of the lock and acted on in the next
MaintMeasure ==
  /\ mnt.pc = "sweep" /\ mnt.todo = {}
  /\ \E d \in DiskStates :
       mnt' = [mnt EXCEPT !.pc = "scan", !.pressure = Pressured(Bytes(Registered(store)), d)]
  /\ UNCHANGED <<durable, cache, bridge, lease, capture, turn, tpc, call, clock>>

\* (mutant) the scan waits for a request or for pressure
MaintScan_OnlyUnderPressure ==
  /\ mnt.pc = "scan"
  /\ IF mnt.pressure
     THEN \E c \in Cleanups(store, {}, TRUE) : Clean(store, active, {}, c)
     ELSE UNCHANGED <<store, active, disk>>
  /\ mnt' = FirstPass
  /\ UNCHANGED <<arrived, kept, marker, live, cache, bridge, lease, capture, turn, tpc, call,
                 clock>>

MaintScan ==
  /\ mnt.pc = "scan"
  /\ \E c \in Cleanups(store, {}, mnt.pressure) : Clean(store, active, {}, c)
  /\ mnt' = FirstPass
  /\ UNCHANGED <<arrived, kept, marker, live, cache, bridge, lease, capture, turn, tpc, call,
                 clock>>

\* The Gateway process dies and starts again, with nothing of its memory.  If it dies
\* inside the worker's scan, some files are unlinked and no store is rewritten.
Crash ==
  /\ crashes < MaxCrashes
  /\ crashes' = crashes + 1
  /\ cache' = [s \in Sessions |-> NoRow] /\ bridge' = [p \in Profiles |-> NoBridge]
  /\ lease' = [f \in Files |-> 0]
  /\ capture' = [pc |-> "idle"] /\ turn' = [s \in Sessions |-> [pc |-> "idle"]]
  /\ tpc' = [t \in Tools |-> "idle"] /\ call' = [t \in Tools |-> [kind |-> "none"]]
  /\ mnt' = FirstPass
  /\ \E gone \in SUBSET Deleted(store, Plan({}, {}, {}, {})) : disk' = disk \ gone
  /\ UNCHANGED <<arrived, store, kept, active, marker, live, now, requests>>

Tick == now < MaxTime /\ now' = now + 1 /\ UNCHANGED <<durable, memory, crashes, requests>>

-----------------------------------------------------------------------------
Init ==
  /\ disk = {} /\ arrived = {} /\ marker = {} /\ live = Sessions
  /\ store = [x \in Slots |-> NoRow]
  /\ kept = [x \in Slots |-> FALSE] /\ active = [x \in Slots |-> {}]
  /\ cache = [s \in Sessions |-> NoRow] /\ bridge = [p \in Profiles |-> NoBridge]
  /\ lease = [f \in Files |-> 0]
  /\ capture = [pc |-> "idle"] /\ turn = [s \in Sessions |-> [pc |-> "idle"]]
  /\ tpc = [t \in Tools |-> "idle"] /\ call = [t \in Tools |-> [kind |-> "none"]]
  /\ mnt = FirstPass
  /\ now = 0 /\ crashes = 0 /\ requests = 0

CaptureStep == CaptureAdmit \/ CaptureCommit
TurnStep(s) == TurnPersist(s) \/ TurnHandoff(s)
ToolStep(t) ==
  \/ ToolTouch(t) \/ ToolRefuse(t) \/ ToolLease(t) \/ ToolMark(t) \/ ToolOpen(t)
  \/ ToolRaise(t) \/ ToolUploadFails(t) \/ ToolAnalyzed(t) \/ ToolActive(t)
  \/ ToolConsume(t) \/ ToolRelease(t) \/ ToolFailMark(t) \/ ToolCleanup(t)
Maintenance == (\E p \in Profiles : MaintSweep(p)) \/ MaintMeasure \/ MaintScan

Next ==
  \/ \E p \in Profiles, B \in SUBSET Files : CaptureBegin(p, B)
  \/ CaptureStep
  \/ \E s \in Sessions : TurnBegin(s) \/ TurnStep(s) \/ SessionReset(s)
  \/ \E t \in Tools, k \in Kinds, s \in Sessions, f \in Files : ToolResolve(t, k, s, f)
  \/ \E t \in Tools : ToolStep(t)
  \/ \E p \in Profiles : RequestCleanup(p)
  \/ Maintenance
  \/ Crash
  \/ Tick

Spec == Init /\ [][Next]_vars

\* Threads run to the end of their handlers, the worker's timer fires, time passes.
FairSpec ==
  /\ Spec
  /\ WF_vars(CaptureStep) /\ WF_vars(Maintenance) /\ WF_vars(Tick)
  /\ \A s \in Sessions : WF_vars(TurnStep(s))
  /\ \A t \in Tools : WF_vars(ToolStep(t))

-----------------------------------------------------------------------------
Calls == [kind : Kinds, sess : Sessions, file : Files, grant : Grant]
Holding == {"mark", "open", "work", "active", "release", "consumed"}
Bridges == [row : Row, note : BOOLEAN]

DurableOK ==
  /\ disk \subseteq arrived /\ arrived \subseteq Files /\ marker \subseteq Profiles
  /\ live \subseteq Sessions
  /\ store \in [Slots -> Row] /\ kept \in [Slots -> BOOLEAN]
  /\ active \in [Slots -> SUBSET Files]

MemoryOK ==
  /\ cache \in [Sessions -> Row] /\ bridge \in [Profiles -> Bridges]
  /\ capture \in [pc : {"idle"}] \cup
       [pc : {"admit", "commit"}, prof : Profiles, fresh : Row, seen : Bridges, note : BOOLEAN]
  /\ turn \in [Sessions -> [pc : {"idle"}] \cup [pc : {"persist", "handoff"}, entries : Bridges]]
  /\ mnt \in [todo : SUBSET Profiles, pressure : BOOLEAN, pc : {"sweep", "scan"}]

ToolsOK ==
  /\ tpc \in [Tools -> {"idle", "touch", "lease", "failmark", "cleanup"} \cup Holding]
  /\ call \in [Tools -> [kind : {"none"}] \cup Calls]
  /\ \A t \in Tools : tpc[t] # "idle" => call[t] \in Calls
  /\ lease \in [Files -> Int]

ClockOK == now \in 0..MaxTime /\ crashes \in 0..MaxCrashes /\ requests \in 0..MaxRequests

\* Every variable has its type, a handler past its first step knows its attachment, and
\* no lease count is negative: the one type invariant.
TypeOK ==
  /\ DurableOK /\ MemoryOK /\ ToolsOK /\ ClockOK
  /\ \A f \in Files : lease[f] >= 0

\* A file's lease count is the number of handlers inside _attachment_processing_lease
\* with it, whatever path each of them leaves by.
LeaseBalance ==
  \A f \in Files :
    lease[f] = Cardinality({t \in Tools : tpc[t] \in Holding /\ call[t].file = f})

\* Nothing that belongs to one employee is registered, cached, waiting or being
\* processed under another employee's Profile.
ProfileIsolation ==
  /\ \A x \in Slots : \A f \in Named(store[x]) \cup active[x] : Owner[f] = Home(x)
  /\ \A s \in Sessions : \A f \in Named(cache[s]) : Owner[f] = ProfileOf[s]
  /\ \A p \in Profiles : \A f \in Named(bridge[p].row) : Owner[f] = p
  /\ \A t \in Tools : tpc[t] # "idle" => Owner[call[t].file] = ProfileOf[call[t].sess]

\* The critical sections that only clean: rotation, worker, the end of an upload.
CleanupStep ==
  \/ live' # live \/ mnt' # mnt
  \/ \E t \in Tools : tpc[t] = "cleanup" /\ tpc'[t] = "idle"

\* No cleanup, and no crash inside one, unlinks a file a handler is working on.
CleanupSparesLeases ==
  [][CleanupStep => \A f \in disk \ disk' : lease[f] = 0]_vars

\* A cleanup never forgets the last registration of a file that it left on disk, even
\* when an unlink or a store write fails half-way: what it cannot delete it can retry.
CleanupNeverStrands ==
  [][CleanupStep => (Registered(store) \ Registered(store')) \cap disk' = {}]_vars

\* Rotating one Session deletes no file that another slot, of any Profile, still grants.
ResetSparesOthers ==
  [][\A s \in live \ live' : \A f \in disk \ disk' : \A x \in Slots \ {Chat(s)} :
       f \in Named(store[x]) => Expired(store[x][f])]_vars

\* Right after an accepted batch the registered bytes respect both quotas.
AdmissionWithinQuota ==
  [][capture.pc = "admit" /\ capture'.pc = "commit" /\ Named(capture'.fresh) # {} =>
       /\ Bytes({f \in Files : \E x \in SlotsOf(capture.prof) : f \in Named(store'[x])})
            <= ProfileMaxBytes
       /\ Bytes(Registered(store')) <= RejectBytes]_vars

\* A cleanup request that the worker takes away is served: every attachment of the Profile is
\* deleted by then or marked for deletion, whatever raised between the writes of its stores
\* (a rotation or a hand-off takes it away for one Session's sake).
RequestServed ==
  [][live' = live /\ turn' = turn =>
       \A p \in marker \ marker' : \A x \in SlotsOf(p) : \A f \in Named(store'[x]) :
         store'[x][f].del]_vars

\* The copies of a file's grant: registered, cached, waiting, or carried by a capture, a turn
\* or a tool call.
CopiesOf(f) ==
  {store[x][f] : x \in Slots} \cup {cache[s][f] : s \in Sessions}
  \cup {bridge[p].row[f] : p \in Profiles}
  \cup (IF capture.pc = "idle" THEN {} ELSE {capture.fresh[f], capture.seen.row[f]})
  \cup {turn[s].entries.row[f] : s \in {r \in Sessions : turn[r].pc # "idle"}}
  \cup {call[t].grant : t \in {u \in Tools : tpc[u] # "idle" /\ call[u].file = f}}

\* The lifetime is absolute (README.md:124): all copies of a grant agree on when its file was
\* captured, so that none of the stale ones a handler writes back can make it last longer.
OneCaptureTime ==
  \A f \in Files : \A g, h \in {c \in CopiesOf(f) : c.status # "none"} : g.cap = h.cap

\* Every registration ends: whatever marks, touches and leases do meanwhile, the hard
\* lifetime and the worker get every registered file in the end.
RegistrationsEnd ==
  \A x \in Slots, f \in Files : f \in Named(store[x]) ~> f \notin Named(store[x])

-----------------------------------------------------------------------------
(* What the documentation promises and the code does not keep.                 *)

\* README.md:134 "Cleanup skips leased files and retries a pending deletion after the
\* final lease is released": a requested deletion stays requested until it is done.
PendingDeletionKept ==
  [][\A x \in Slots, f \in Files :
       store[x][f].del /\ f \in Named(store'[x]) => store'[x][f].del]_vars

\* README.md:120-124 every temporary file is registered until it is deleted.
NoStrandedFile ==
  \A f \in disk : \/ f \in Registered(store)
                  \/ capture.pc = "admit" /\ f \in Named(capture.fresh)
=============================================================================
