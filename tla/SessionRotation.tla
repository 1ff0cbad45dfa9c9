--------------------------- MODULE SessionRotation ---------------------------
(***************************************************************************)
(* The Sessions of one WeChat chat: the plugin's wrappers around Hermes'   *)
(* SessionStore.  The durable index in the root database names the chat's  *)
(* current Session; its transcript row and its remembered state live in    *)
(* the employee Profile.  A rotation is a split write: Hermes replaces the *)
(* index entry, then the plugin ends the old row in the old Profile,       *)
(* forgets what the Session knew and removes its attachments.  Calls run   *)
(* in threads of their own (asyncio.to_thread), and so do the knowledge    *)
(* searches of a turn, which go on when the Session is rotated.            *)
(***************************************************************************)
EXTENDS Naturals, FiniteSets

CONSTANTS
  Calls,          \* calls that rotate, continue or finalize the chat's Session, made once each
  Profiles,       \* the chat is routed to one of them at a time
  Kinds,          \* the calls made: "message", "reset", "expiry"
  MaxSessions,    \* bound: Sessions of the chat
  MaxEvents       \* bound: rebindings, expiries, removals of a home, steps that raise

ASSUME Bounds ==
  /\ MaxSessions \in Nat \ {0} /\ MaxEvents \in Nat /\ "none" \notin Profiles
  /\ Kinds \subseteq {"message", "reset", "expiry"}

VARIABLES
  root,     \* root state.db: the chat's entry, [sid, prof, due]
  bound,    \* the Profile the chat is routed to
  homes,    \* Profiles whose home exists
  ended,    \* Profile databases: transcript rows marked ended
  state,    \* Profile attachment stores: what each row's Session remembers
  call,     \* each thread's control point and locals
  born,     \* history: the Profile each Session was created in
  lost,     \* history: Sessions whose promotion raised or was refused, or that were
            \*   replaced by a call that still held an older entry
  late,     \* history: rows a turn wrote after their Session was replaced, not forgotten since
  events

vars == <<root, bound, homes, ended, state, call, born, lost, late, events>>

Sids == 1 .. MaxSessions
Row(p, s) == [prof |-> p, sid |-> s]
Rows == [prof : Profiles, sid : Sids]

\* What one Session remembers: the newest message and the search marker.
Forgotten == [latest |-> "none", marker |-> FALSE]
Texts == {"explicit", "refusal", "other"}

\* What a search later asks of a message: whether it refuses one.
Gist(text) == IF text = "refusal" THEN "refusal" ELSE "search"

NewCall == [pc |-> "idle", kind |-> "none", scope |-> "none", prof |-> "none",
            old |-> 0, hint |-> "none", sid |-> 0, text |-> "none"]

Done == [NewCall EXCEPT !.pc = "done"]

Init ==
  \E p \in Profiles :
    /\ root = [sid |-> 1, prof |-> p, due |-> FALSE] /\ bound = p /\ homes = Profiles
    /\ born = [s \in Sids |-> p]
    /\ ended = {} /\ state = [r \in Rows |-> Forgotten]
    /\ call = [c \in Calls |-> NewCall]
    /\ lost = {} /\ late = {} /\ events = 0

At(c, pc) == call[c].pc = pc
Goto(c, pc) == call' = [call EXCEPT ![c].pc = pc]

-----------------------------------------------------------------------------
(* The chat around the plugin: rebound, expired, its Profile removed. *)

Happened ==
  /\ events < MaxEvents /\ events' = events + 1
  /\ UNCHANGED <<ended, state, call, born, lost, late>>

Rebind(p) ==
  /\ bound # p /\ bound' = p
  /\ UNCHANGED <<root, homes>> /\ Happened

Expire ==
  /\ ~root.due /\ root' = [root EXCEPT !.due = TRUE]
  /\ UNCHANGED <<bound, homes>> /\ Happened

RemoveHome(p) ==
  /\ p \in homes /\ p # bound /\ homes' = homes \ {p}
  /\ UNCHANGED <<root, bound>> /\ Happened

-----------------------------------------------------------------------------
(* get_or_create_session, reset_session and set_expiry_finalized *)

\* A message or a reset runs inside the scope of the chat's Profile or outside of any.
Begin(c, kind, scope) ==
  /\ At(c, "idle") /\ kind \in {"message", "reset"} /\ scope \in {"none", bound}
  /\ call' = [call EXCEPT ![c] = [NewCall EXCEPT !.pc = "snapshot", !.kind = kind,
                                                 !.scope = scope, !.prof = bound]]
  /\ UNCHANGED <<root, bound, homes, ended, state, born, lost, late, events>>

\* (mutant) the Profile of the message stands for that of the old entry
Snapshot_SourceProfile(c) ==
  /\ At(c, "snapshot")
  /\ call' = [call EXCEPT ![c].pc = "rotate", ![c].old = root.sid, ![c].hint = call[c].prof]
  /\ UNCHANGED <<root, bound, homes, ended, state, born, lost, late, events>>

\* The entry is read under the store's lock, which is released before the original runs.
Snapshot(c) ==
  /\ At(c, "snapshot")
  /\ call' = [call EXCEPT ![c].pc = "rotate", ![c].old = root.sid, ![c].hint = root.prof]
  /\ UNCHANGED <<root, bound, homes, ended, state, born, lost, late, events>>

\* The watcher finalizes an expired entry it holds, current or replaced since.
Finalize(c) ==
  /\ At(c, "idle") /\ "expiry" \in Kinds /\ root.due
  /\ call' = [call EXCEPT ![c] = [NewCall EXCEPT !.pc = "promote", !.kind = "expiry",
                                                 !.old = root.sid, !.hint = root.prof]]
  /\ UNCHANGED <<root, bound, homes, ended, state, born, lost, late, events>>

\* Where the call goes then: a message on to its turn.
After(c, sid) ==
  call' = [call EXCEPT ![c] =
             IF @.kind # "message" THEN Done
             ELSE [NewCall EXCEPT !.pc = "persist", !.prof = call[c].prof, !.sid = sid]]

\* (mutant) only a reset ends the old row, not a rotation by time
Returned_OnlyResets(c, sid) ==
  IF sid = call[c].old \/ call[c].kind = "message" THEN After(c, sid)
  ELSE call' = [call EXCEPT ![c].pc = "promote", ![c].sid = sid]

\* After the original: the Session of the result, and the promotion when it is a new one.
Returned(c, sid) ==
  IF sid = call[c].old THEN After(c, sid)
  ELSE call' = [call EXCEPT ![c].pc = "promote", ![c].sid = sid]

\* A message continues a Session that is not due.
Continue(c) ==
  /\ At(c, "rotate") /\ call[c].kind = "message" /\ ~root.due /\ Returned(c, root.sid)
  /\ UNCHANGED <<root, bound, homes, ended, state, born, lost, late, events>>

\* (mutant) the new entry gets the Profile of the running task, which may have none
Rotate_TaskProfile(c) ==
  /\ At(c, "rotate") /\ (call[c].kind = "reset" \/ root.due)
  /\ root.sid < MaxSessions
  /\ root' = [sid |-> root.sid + 1, prof |-> call[c].scope, due |-> FALSE]
  /\ Returned(c, root.sid + 1)
  /\ UNCHANGED <<bound, homes, ended, state, born, lost, late, events>>

\* Hermes replaces the entry: for a message that of its own route, for a reset in place.
Rotate(c) ==
  /\ At(c, "rotate") /\ (call[c].kind = "reset" \/ root.due)
  /\ root.sid < MaxSessions
  /\ LET sid == root.sid + 1
         p == IF call[c].kind = "reset" THEN root.prof ELSE call[c].prof
     IN /\ root' = [sid |-> sid, prof |-> p, due |-> FALSE]
        /\ born' = [born EXCEPT ![sid] = p]
        /\ Returned(c, sid)
  /\ lost' = IF call[c].old # root.sid THEN lost \cup {root.sid} ELSE lost
  /\ UNCHANGED <<bound, homes, ended, state, late, events>>

-----------------------------------------------------------------------------
(* _promote_profile_session(old entry); whatever it raises is logged and ends it. *)

\* _profile_home(hint): no other Profile is in scope, and the home is there.
Resolved(c) == call[c].scope \in {"none", call[c].hint} /\ call[c].hint \in homes

Home(c) == call[c].hint

\* (mutant) the entry to end is read after the rotation
Promote_ReadAfter(c) ==
  /\ At(c, "promote") /\ Resolved(c)
  /\ ended' = ended \cup {Row(Home(c), root.sid)} /\ Goto(c, "forget")
  /\ UNCHANGED <<root, bound, homes, state, born, lost, late, events>>

Promote(c) ==
  /\ At(c, "promote") /\ Resolved(c)
  /\ ended' = ended \cup {Row(Home(c), call[c].old)} /\ Goto(c, "forget")
  /\ UNCHANGED <<root, bound, homes, state, born, lost, late, events>>

\* A scope of another Profile, or a home that is gone: no database is updated.
Refuse(c) ==
  /\ At(c, "promote") /\ ~Resolved(c)
  /\ lost' = lost \cup {call[c].old} /\ After(c, call[c].sid)
  /\ UNCHANGED <<root, bound, homes, ended, state, born, late, events>>

\* (mutant) what is forgotten is looked for in the Profile the chat is routed to now
OldRow_Route(c) == Row(bound, call[c].old)

OldRow(c) == Row(Home(c), call[c].old)

\* _clear_session_knowledge_intent, under the attachment lock; the forced cleanup of the
\* Session's attachments that comes next is SessionReset of AttachmentCache.
Forget(c) ==
  /\ At(c, "forget")
  /\ state' = [state EXCEPT ![OldRow(c)] = Forgotten]
  /\ late' = late \ {OldRow(c)} /\ After(c, call[c].sid)
  /\ UNCHANGED <<root, bound, homes, ended, born, lost, events>>

Raise(c) ==
  /\ call[c].pc \in {"promote", "forget"} /\ events < MaxEvents /\ events' = events + 1
  /\ lost' = lost \cup {call[c].old} /\ After(c, call[c].sid)
  /\ UNCHANGED <<root, bound, homes, ended, state, born, late>>

-----------------------------------------------------------------------------
(* The turn of a message: _persist_session_turn, then knowledge searches. *)

TurnRow(c) == Row(call[c].prof, call[c].sid)
Wrote(c) == late' = IF call[c].sid # root.sid THEN late \cup {TurnRow(c)} ELSE late

\* An explicit request for the knowledge base sets the marker, a refusal clears it.
Persist(c, text) ==
  /\ At(c, "persist")
  /\ state' = [state EXCEPT ![TurnRow(c)] =
                 [latest |-> Gist(text),
                  marker |-> text = "explicit" \/ (@.marker /\ text # "refusal")]]
  /\ call' = [call EXCEPT ![c].pc = "agent", ![c].text = Gist(text)] /\ Wrote(c)
  /\ UNCHANGED <<root, bound, homes, ended, born, lost, events>>

\* A search is judged by the message Hermes passes along, else by the Session's newest.
Search(c) ==
  /\ At(c, "agent")
  /\ \E task \in {call[c].text, state[TurnRow(c)].latest} : task = "search"
  /\ Goto(c, "record")
  /\ UNCHANGED <<root, bound, homes, ended, state, born, lost, late, events>>

\* _record_session_knowledge_intent: only a Session whose row still names its sender; a
\* forgotten one does while attachments keep its row.
Record(c) ==
  /\ At(c, "record") /\ Goto(c, "agent")
  /\ \/ state' = [state EXCEPT ![TurnRow(c)].marker = TRUE] /\ Wrote(c)
     \/ state[TurnRow(c)] = Forgotten /\ UNCHANGED <<state, late>>
  /\ UNCHANGED <<root, bound, homes, ended, born, lost, events>>

EndTurn(c) ==
  /\ At(c, "agent") /\ call' = [call EXCEPT ![c] = Done]
  /\ UNCHANGED <<root, bound, homes, ended, state, born, lost, late, events>>

-----------------------------------------------------------------------------
Step(c) ==
  \/ Snapshot(c) \/ Continue(c) \/ Rotate(c)
  \/ Promote(c) \/ Refuse(c) \/ Forget(c) \/ Raise(c)
  \/ \E text \in Texts : Persist(c, text)
  \/ Search(c) \/ Record(c) \/ EndTurn(c)

Next ==
  \/ Expire \/ \E p \in Profiles : Rebind(p) \/ RemoveHome(p)
  \/ \E c \in Calls :
       Step(c) \/ Finalize(c) \/ \E kind \in Kinds, scope \in Profiles \cup {"none"} : Begin(c, kind, scope)

Spec == Init /\ [][Next]_vars

-----------------------------------------------------------------------------
PCs == {"idle", "snapshot", "rotate", "promote", "forget", "persist", "agent", "record",
        "done"}
Named == Profiles \cup {"none"}
Gists == {"none", "search", "refusal"}
Threads == [pc : PCs, kind : Kinds \cup {"none"}, scope : Named, prof : Named,
            old : 0 .. MaxSessions, hint : Named, sid : 0 .. MaxSessions, text : Gists]

TypeOK ==
  /\ root \in [sid : Sids, prof : Profiles, due : BOOLEAN]
  /\ bound \in Profiles /\ homes \subseteq Profiles /\ ended \subseteq Rows
  /\ state \in [Rows -> [latest : Gists, marker : BOOLEAN]]
  /\ call \in [Calls -> Threads]
  /\ born \in [Sids -> Profiles] /\ lost \subseteq Sids /\ late \subseteq Rows
  /\ events \in 0 .. MaxEvents

Promoting(c, s) == call[c].pc \in {"promote", "forget"} /\ call[c].old = s

\* Every transcript row is ended in the Profile its Session was created in and in no other,
\* whatever the chat is bound to when the rotation comes (_promote_profile_session).
EndedWhereItLived == \A r \in ended : r.prof = born[r.sid]

\* A rotation moves the root entry before it ends the row: the Session the chat goes on with
\* is never ended, unless it has expired (docstring of _install_profile_transcript_scope).
CurrentStays == [][\A r \in ended' \ ended : r.sid = root.sid => root.due]_vars

\* No replaced Session is left open in its Profile, but for one whose promotion raised or was
\* refused, or that was replaced by a call holding an older entry.
ReplacedIsEnded ==
  \A s \in 1 .. root.sid - 1 :
    Row(born[s], s) \in ended \/ s \in lost \/ \E c \in Calls : Promoting(c, s)

\* A rotation forgets the search marker: a replaced Session has one only when its promotion
\* failed, or a turn that was still running wrote it afterwards (RUNTIME.md:163-165).
RotationForgets ==
  \A s \in 1 .. root.sid - 1 :
    state[Row(born[s], s)].marker =>
      s \in lost \/ Row(born[s], s) \in late \/ \E c \in Calls : Promoting(c, s)
=============================================================================
