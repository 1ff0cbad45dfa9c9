----------------------- MODULE SessionRotation_proofs -----------------------
(***************************************************************************)
(* Proofs about SessionRotation for any number of calls, Profiles and      *)
(* Sessions.  What makes a rotation sound is what a call carries from its  *)
(* snapshot to its promotion (Carried): the Session it read and the        *)
(* Profile that Session was created in, neither of which the root index    *)
(* still names when the old row is ended.                                  *)
(***************************************************************************)
EXTENDS SessionRotation, TLAPS

\* What the root entry and the ended rows say of the Sessions there have been.
Indexed ==
  /\ root.prof = born[root.sid]
  /\ \A r \in ended : r.sid <= root.sid

\* What a call that has read an entry carries with it.
Carried ==
  \A c \in Calls :
    /\ call[c].pc \in {"rotate", "promote", "forget"} =>
         call[c].old \in 1 .. root.sid /\ call[c].hint = born[call[c].old]
    /\ call[c].pc \in {"promote", "forget"} => call[c].old < root.sid \/ root.due
    /\ call[c].pc = "forget" => Row(call[c].hint, call[c].old) \in ended

\* Whose turn a call is, before and after its rotation.
Turned ==
  \A c \in Calls :
    /\ call[c].pc \in {"snapshot", "rotate", "persist", "agent", "record"} =>
         call[c].prof \in Profiles
    /\ call[c].pc \in {"persist", "agent", "record"} => call[c].sid \in Sids
    /\ call[c].pc \in {"promote", "forget"} /\ call[c].kind = "message" =>
         call[c].prof \in Profiles /\ call[c].sid \in Sids

RotationInv ==
  /\ TypeOK /\ Indexed /\ Carried /\ Turned
  /\ EndedWhereItLived /\ ReplacedIsEnded /\ RotationForgets

-----------------------------------------------------------------------------
(* Type correctness *)

LEMMA NewCallType == NewCall \in Threads /\ Done \in Threads
BY Bounds DEF NewCall, Done, Threads, Named, PCs, Gists

\* A step along one call changes where it is and nothing else of it.
LEMMA GotoCall ==
  ASSUME TypeOK, NEW c \in Calls, NEW pc \in PCs, Goto(c, pc)
  PROVE  /\ call' \in [Calls -> Threads] /\ call'[c].pc = pc
         /\ call'[c].old = call[c].old /\ call'[c].hint = call[c].hint
         /\ call'[c].kind = call[c].kind /\ call'[c].prof = call[c].prof
         /\ call'[c].sid = call[c].sid
         /\ \A k \in Calls : k # c => call'[k] = call[k]
BY DEF Goto, TypeOK, Threads

\* A call that is past its rotation is done, or a message that goes on to its turn.
LEMMA AfterCall ==
  ASSUME TypeOK, NEW c \in Calls, NEW sid \in 0 .. MaxSessions, After(c, sid)
  PROVE  /\ call' \in [Calls -> Threads]
         /\ \/ call'[c].pc = "done"
            \/ /\ call[c].kind = "message" /\ call'[c].pc = "persist"
               /\ call'[c].prof = call[c].prof /\ call'[c].sid = sid
         /\ \A k \in Calls : k # c => call'[k] = call[k]
<1>1. PICK q : q = call[c]
  OBVIOUS
<1>2. q \in Threads
  BY <1>1 DEF TypeOK
<1>3. PICK r : r = IF q.kind # "message" THEN Done
                   ELSE [NewCall EXCEPT !.pc = "persist", !.prof = q.prof, !.sid = sid]
  OBVIOUS
<1>4. /\ r \in Threads
      /\ \/ r.pc = "done"
         \/ q.kind = "message" /\ r.pc = "persist" /\ r.prof = q.prof /\ r.sid = sid
  <2>1. CASE q.kind # "message"
    BY <1>3, <2>1, NewCallType DEF Done, NewCall
  <2>2. CASE q.kind = "message"
    <3>1. r = [NewCall EXCEPT !.pc = "persist", !.prof = q.prof, !.sid = sid]
      BY <1>3, <2>2
    <3>2. r.pc = "persist" /\ r.prof = q.prof /\ r.sid = sid
      BY <3>1 DEF NewCall
    <3>3. r \in Threads
      BY <1>2, <3>1, NewCallType DEF Threads, PCs
    <3> QED BY <2>2, <3>2, <3>3
  <2> QED BY <2>1, <2>2
<1>5. call' = [call EXCEPT ![c] = r]
  BY <1>1, <1>3 DEF After
<1> QED BY <1>1, <1>4, <1>5 DEF TypeOK

\* A call whose original has returned another Session than it read promotes the one it read.
LEMMA ReturnedCall ==
  ASSUME TypeOK, NEW c \in Calls, NEW sid \in Sids, Returned(c, sid)
  PROVE  /\ call' \in [Calls -> Threads]
         /\ \/ call'[c].pc = "done" /\ sid = call[c].old
            \/ /\ sid = call[c].old /\ call[c].kind = "message" /\ call'[c].pc = "persist"
               /\ call'[c].prof = call[c].prof /\ call'[c].sid = sid
            \/ /\ sid # call[c].old /\ call'[c].pc = "promote" /\ call'[c].sid = sid
               /\ call'[c].old = call[c].old /\ call'[c].hint = call[c].hint
               /\ call'[c].kind = call[c].kind /\ call'[c].prof = call[c].prof
         /\ \A k \in Calls : k # c => call'[k] = call[k]
<1>1. sid \in 0 .. MaxSessions
  BY Bounds DEF Sids
<1>2. CASE sid = call[c].old
  BY <1>1, <1>2, AfterCall DEF Returned
<1>3. CASE sid # call[c].old
  <2>1. call' = [call EXCEPT ![c].pc = "promote", ![c].sid = sid]
    BY <1>3 DEF Returned
  <2>2. PICK q : q = call[c]
    OBVIOUS
  <2>3. PICK r : r = [q EXCEPT !.pc = "promote", !.sid = sid]
    OBVIOUS
  <2>4. q \in Threads
    BY <2>2 DEF TypeOK
  <2>5. /\ r \in Threads /\ r.pc = "promote" /\ r.sid = sid
        /\ r.old = q.old /\ r.hint = q.hint /\ r.kind = q.kind /\ r.prof = q.prof
    BY <1>1, <2>3, <2>4 DEF Threads, PCs
  <2>6. call' = [call EXCEPT ![c] = r]
    BY <2>1, <2>2, <2>3
  <2> QED BY <1>3, <2>2, <2>5, <2>6 DEF TypeOK
<1> QED BY <1>2, <1>3

LEMMA InitType == Init => TypeOK
<1> SUFFICES ASSUME NEW p \in Profiles,
                    root = [sid |-> 1, prof |-> p, due |-> FALSE], bound = p, homes = Profiles,
                    born = [s \in Sids |-> p], ended = {}, state = [r \in Rows |-> Forgotten],
                    call = [c \in Calls |-> NewCall], lost = {}, late = {}, events = 0
             PROVE  TypeOK
  BY DEF Init
<1>1. 1 \in Sids /\ 0 \in 0 .. MaxEvents
  BY Bounds DEF Sids
<1>2. root \in [sid : Sids, prof : Profiles, due : BOOLEAN]
  BY <1>1
<1>3. Forgotten \in [latest : Gists, marker : BOOLEAN]
  BY DEF Forgotten, Gists
<1> QED BY <1>1, <1>2, <1>3, NewCallType DEF TypeOK

\* What the calls of one thread write.
LEMMA CallType ==
  ASSUME TypeOK, NEW c \in Calls, Step(c) \/ Finalize(c)
           \/ \E kind \in Kinds, scope \in Profiles \cup {"none"} : Begin(c, kind, scope)
  PROVE  call' \in [Calls -> Threads]
<1>1. PICK q : q = call[c]
  OBVIOUS
<1>2. q \in Threads /\ q.old \in 0 .. MaxSessions /\ q.hint \in Named /\ q.prof \in Named
      /\ q.sid \in 0 .. MaxSessions
  BY <1>1 DEF TypeOK, Threads
<1>3. root.sid \in Sids /\ root.prof \in Named /\ bound \in Named /\ root.sid \in 0 .. MaxSessions
  BY DEF TypeOK, Named, Sids
<1>4. ASSUME NEW r \in Threads, call' = [call EXCEPT ![c] = r] PROVE call' \in [Calls -> Threads]
  BY <1>4 DEF TypeOK
<1>5. CASE \E kind \in Kinds, scope \in Profiles \cup {"none"} : Begin(c, kind, scope)
  <2>1. PICK kind \in Kinds : \E scope \in Profiles \cup {"none"} : Begin(c, kind, scope)
    BY <1>5
  <2>2. PICK scope \in Profiles \cup {"none"} : Begin(c, kind, scope)
    BY <2>1
  <2>3. PICK r : r = [NewCall EXCEPT !.pc = "snapshot", !.kind = kind, !.scope = scope, !.prof = bound]
    OBVIOUS
  <2>4. r \in Threads
    BY <1>3, <2>3, NewCallType DEF Threads, PCs, Named
  <2> QED BY <1>4, <2>2, <2>3, <2>4 DEF Begin
<1>6. CASE Snapshot(c)
  <2>1. PICK r : r = [q EXCEPT !.pc = "rotate", !.old = root.sid, !.hint = root.prof]
    OBVIOUS
  <2>2. r \in Threads
    BY <1>2, <1>3, <2>1 DEF Threads, PCs
  <2>3. call' = [call EXCEPT ![c] = r]
    BY <1>1, <1>6, <2>1 DEF Snapshot
  <2> QED BY <1>4, <2>2, <2>3
<1>7. CASE Finalize(c)
  <2>1. PICK r : r = [NewCall EXCEPT !.pc = "promote", !.kind = "expiry", !.old = root.sid,
                                     !.hint = root.prof]
    OBVIOUS
  <2>2. r \in Threads
    BY <1>3, <1>7, <2>1, NewCallType DEF Finalize, Threads, PCs
  <2> QED BY <1>4, <1>7, <2>1, <2>2 DEF Finalize
<1>8. CASE Continue(c)
  BY <1>3, <1>8, ReturnedCall DEF Continue
<1>9. CASE Rotate(c)
  <2>1. root.sid + 1 \in Sids
    BY <1>3, <1>9, Bounds DEF Rotate, Sids
  <2>2. Returned(c, root.sid + 1)
    BY <1>9 DEF Rotate
  <2> QED BY <2>1, <2>2, ReturnedCall
<1>10. CASE Promote(c)
  BY <1>10, GotoCall DEF Promote, PCs
<1>11. CASE Refuse(c) \/ Forget(c) \/ Raise(c)
  <2>1. After(c, call[c].sid)
    BY <1>11 DEF Refuse, Forget, Raise
  <2> QED BY <1>1, <1>2, <2>1, AfterCall
<1>12. ASSUME NEW text \in Texts, Persist(c, text) PROVE call' \in [Calls -> Threads]
  <2>1. Gist(text) \in Gists
    BY DEF Gist, Gists
  <2>2. call' = [call EXCEPT ![c] = [q EXCEPT !.pc = "agent", !.text = Gist(text)]]
    BY <1>1, <1>12 DEF Persist
  <2>3. [q EXCEPT !.pc = "agent", !.text = Gist(text)] \in Threads
    BY <1>2, <2>1 DEF Threads, PCs
  <2> QED BY <1>4, <2>2, <2>3
<1>13. CASE Search(c) \/ Record(c)
  BY <1>13, GotoCall DEF Search, Record, PCs
<1>14. CASE EndTurn(c)
  BY <1>14, NewCallType DEF EndTurn, TypeOK
<1> QED BY <1>5, <1>6, <1>7, <1>8, <1>9, <1>10, <1>11, <1>12, <1>13, <1>14 DEF Step


-----------------------------------------------------------------------------
(* The actions of Next, for a split into cases. *)

Chat == Expire \/ \E p \in Profiles : Rebind(p) \/ RemoveHome(p)

Call(c) ==
  Step(c) \/ Finalize(c) \/ \E kind \in Kinds, scope \in Profiles \cup {"none"} : Begin(c, kind, scope)

LEMMA NextCases == Next => Chat \/ \E c \in Calls : Call(c)
BY DEF Next, Chat, Call

\* Beside the rotation itself only the expiry touches the root entry, and only to mark it due.
LEMMA ChatStep ==
  ASSUME TypeOK, Chat
  PROVE  /\ UNCHANGED <<ended, state, call, born, lost, late>>
         /\ root'.sid = root.sid /\ root'.prof = root.prof /\ (root.due => root'.due)
BY DEF Chat, Expire, Rebind, RemoveHome, Happened, TypeOK

\* Every step of a call but Rotate leaves the entry and the Sessions' Profiles alone, and
\* every step but Promote the ended rows.
LEMMA CallStep ==
  ASSUME NEW c \in Calls, Call(c)
  PROVE  /\ Rotate(c) \/ UNCHANGED <<root, born>>
         /\ Promote(c) \/ UNCHANGED ended
         /\ UNCHANGED <<bound, homes>>
<1>1. CASE Finalize(c) \/ \E kind \in Kinds, scope \in Profiles \cup {"none"} : Begin(c, kind, scope)
  BY <1>1 DEF Finalize, Begin
<1>2. CASE Step(c)
  BY <1>2 DEF Step, Snapshot, Continue, Rotate, Promote, Refuse, Forget, Raise, Persist, Search,
              Record, EndTurn
<1> QED BY <1>1, <1>2 DEF Call

\* A rotation appends a Session to those there are and leaves the entry of the others.
LEMMA RotateStep ==
  ASSUME RotationInv, NEW c \in Calls, Rotate(c)
  PROVE  /\ root.sid \in Sids /\ root.sid + 1 \in Sids /\ call[c].pc = "rotate"
         /\ \E p \in Profiles : /\ root' = [sid |-> root.sid + 1, prof |-> p, due |-> FALSE]
                                /\ born' = [born EXCEPT ![root.sid + 1] = p]
         /\ Returned(c, root.sid + 1)
         /\ call[c].old # root.sid => lost' = lost \cup {root.sid}
         /\ call[c].old = root.sid => lost' = lost
         /\ UNCHANGED <<ended, state, late, events>>
<1>1. root.sid \in Sids /\ root.sid + 1 \in Sids /\ root.prof \in Profiles
  BY Bounds DEF RotationInv, TypeOK, Rotate, Sids
<1>2. call[c].pc = "rotate"
  BY DEF Rotate, At
<1>3. PICK p : p = IF call[c].kind = "reset" THEN root.prof ELSE call[c].prof
  OBVIOUS
<1>4. /\ root' = [sid |-> root.sid + 1, prof |-> p, due |-> FALSE]
      /\ born' = [born EXCEPT ![root.sid + 1] = p]
  BY <1>3 DEF Rotate
<1>5. p \in Profiles
  BY <1>1, <1>2, <1>3 DEF RotationInv, Turned
<1> QED BY <1>1, <1>2, <1>4, <1>5 DEF Rotate

\* What a call writes to the rows and the histories stays among the rows and Sessions.
LEMMA CallWrites ==
  ASSUME RotationInv, NEW c \in Calls, Call(c)
  PROVE  /\ state' \in [Rows -> [latest : Gists, marker : BOOLEAN]]
         /\ ended' \subseteq Rows /\ lost' \subseteq Sids /\ late' \subseteq Rows
         /\ events' \in 0 .. MaxEvents
<1> DEFINE Writes == /\ state' \in [Rows -> [latest : Gists, marker : BOOLEAN]]
                     /\ ended' \subseteq Rows /\ lost' \subseteq Sids /\ late' \subseteq Rows
                     /\ events' \in 0 .. MaxEvents
<1> USE DEF RotationInv
<1>1. UNCHANGED <<state, ended, lost, late, events>> => Writes
  BY DEF TypeOK
<1>2. ASSUME call[c].pc \in {"rotate", "promote", "forget"} PROVE call[c].old \in Sids
  BY <1>2, Bounds DEF Carried, TypeOK, Sids
<1>3. CASE Finalize(c) \/ \E kind \in Kinds, scope \in Profiles \cup {"none"} : Begin(c, kind, scope)
  BY <1>1, <1>3 DEF Finalize, Begin
<1>4. CASE Snapshot(c) \/ Continue(c) \/ Search(c) \/ EndTurn(c)
  BY <1>1, <1>4 DEF Snapshot, Continue, Search, EndTurn
<1>5. CASE Rotate(c)
  <2>1. lost' \subseteq Sids /\ UNCHANGED <<ended, state, late, events>>
    BY <1>5, RotateStep DEF TypeOK
  <2> QED BY <2>1 DEF TypeOK
<1>6. CASE Promote(c)
  <2>1. call[c].pc = "promote" /\ call[c].hint \in Profiles
    BY <1>6 DEF Promote, At, Resolved, TypeOK
  <2>2. Row(call[c].hint, call[c].old) \in Rows
    BY <1>2, <2>1 DEF Row, Rows
  <2>3. ended' \subseteq Rows /\ UNCHANGED <<state, lost, late, events>>
    BY <1>6, <2>2 DEF Promote, Home, TypeOK
  <2> QED BY <2>3 DEF TypeOK
<1>7. CASE Refuse(c)
  <2>1. lost' \subseteq Sids /\ UNCHANGED <<state, ended, late, events>>
    BY <1>2, <1>7 DEF Refuse, At, TypeOK
  <2> QED BY <2>1 DEF TypeOK
<1>8. CASE Forget(c)
  <2>1. Forgotten \in [latest : Gists, marker : BOOLEAN]
    BY DEF Forgotten, Gists
  <2>2. PICK r : r = OldRow(c)
    OBVIOUS
  <2>3. state' = [state EXCEPT ![r] = Forgotten] /\ late' = late \ {r} /\ UNCHANGED <<ended, lost, events>>
    BY <1>8, <2>2 DEF Forget
  <2> QED BY <2>1, <2>3 DEF TypeOK
<1>9. CASE Raise(c)
  <2>1. events' \in 0 .. MaxEvents
    BY <1>9, Bounds DEF Raise, TypeOK
  <2>2. lost' \subseteq Sids /\ UNCHANGED <<state, ended, late>>
    BY <1>2, <1>9 DEF Raise, TypeOK
  <2> QED BY <2>1, <2>2 DEF TypeOK
<1>10. ASSUME NEW text \in Texts, Persist(c, text) \/ Record(c) PROVE Writes
  <2>1. call[c].pc \in {"persist", "record"}
    BY <1>10 DEF Persist, Record, At
  <2>2. PICK r : r = TurnRow(c)
    OBVIOUS
  <2>3. r \in Rows
    BY <2>1, <2>2 DEF Turned, TurnRow, Row, Rows
  <2>4. late' \subseteq Rows
    BY <1>10, <2>2, <2>3 DEF Persist, Record, Wrote, TypeOK
  <2>5. state' \in [Rows -> [latest : Gists, marker : BOOLEAN]]
    <3>1. CASE Persist(c, text)
      <4>1. PICK flag : flag = (text = "explicit" \/ (state[r].marker /\ text # "refusal"))
        OBVIOUS
      <4>2. flag \in BOOLEAN
        BY <4>1
      <4>3. [latest |-> Gist(text), marker |-> flag] \in [latest : Gists, marker : BOOLEAN]
        BY <4>2 DEF Gist, Gists
      <4>4. state' = [state EXCEPT ![r] = [latest |-> Gist(text), marker |-> flag]]
        BY <2>2, <3>1, <4>1 DEF Persist
      <4> QED BY <2>3, <4>3, <4>4 DEF TypeOK
    <3>2. CASE Record(c)
      <4>1. state' = state \/ state' = [state EXCEPT ![r].marker = TRUE]
        BY <2>2, <3>2 DEF Record
      <4>2. PICK entry : entry = [state[r] EXCEPT !.marker = TRUE]
        OBVIOUS
      <4>3. state[r] \in [latest : Gists, marker : BOOLEAN]
        BY <2>3 DEF TypeOK
      <4>4. entry \in [latest : Gists, marker : BOOLEAN]
        BY <4>2, <4>3
      <4>5. state' = state \/ state' = [state EXCEPT ![r] = entry]
        BY <4>1, <4>2
      <4> QED BY <2>3, <4>4, <4>5 DEF TypeOK
    <3> QED BY <1>10, <3>1, <3>2
  <2>6. UNCHANGED <<ended, lost, events>>
    BY <1>10 DEF Persist, Record
  <2> QED BY <2>4, <2>5, <2>6 DEF TypeOK
<1>11. "other" \in Texts
  BY DEF Texts
<1> QED BY <1>3, <1>4, <1>5, <1>6, <1>7, <1>8, <1>9, <1>10, <1>11 DEF Call, Step

LEMMA TypeStep == RotationInv /\ [Next]_vars => TypeOK'
<1> SUFFICES ASSUME RotationInv, [Next]_vars PROVE TypeOK'
  OBVIOUS
<1> USE DEF RotationInv
<1>1. CASE UNCHANGED vars
  BY <1>1 DEF vars, TypeOK
<1>2. CASE Chat
  <2>1. root' \in [sid : Sids, prof : Profiles, due : BOOLEAN]
    BY <1>2 DEF Chat, Expire, Rebind, RemoveHome, TypeOK
  <2>2. bound' \in Profiles /\ homes' \subseteq Profiles
    BY <1>2 DEF Chat, Expire, Rebind, RemoveHome, TypeOK
  <2>3. events' \in 0 .. MaxEvents
    BY <1>2, Bounds DEF Chat, Expire, Rebind, RemoveHome, Happened, TypeOK
  <2> QED BY <1>2, <2>1, <2>2, <2>3, ChatStep DEF TypeOK
<1>3. ASSUME NEW c \in Calls, Call(c) PROVE TypeOK'
  <2>1. call' \in [Calls -> Threads]
    BY <1>3, CallType DEF Call
  <2>2. root' \in [sid : Sids, prof : Profiles, due : BOOLEAN] /\ born' \in [Sids -> Profiles]
    <3>1. CASE Rotate(c)
      <4>1. PICK p \in Profiles : /\ root' = [sid |-> root.sid + 1, prof |-> p, due |-> FALSE]
                                  /\ born' = [born EXCEPT ![root.sid + 1] = p]
        BY <3>1, RotateStep
      <4>2. root.sid + 1 \in Sids
        BY <3>1, RotateStep
      <4>3. [sid |-> root.sid + 1, prof |-> p, due |-> FALSE] \in [sid : Sids, prof : Profiles, due : BOOLEAN]
        BY <4>2
      <4>4. born' \in [Sids -> Profiles]
        BY <4>1 DEF TypeOK
      <4> QED BY <4>1, <4>3, <4>4
    <3>2. CASE UNCHANGED <<root, born>>
      BY <3>2 DEF TypeOK
    <3> QED BY <1>3, <3>1, <3>2, CallStep
  <2> QED BY <1>3, <2>1, <2>2, CallStep, CallWrites DEF TypeOK
<1> QED BY <1>1, <1>2, <1>3, NextCases

-----------------------------------------------------------------------------
(* What a call carries *)

\* How a call comes by an entry to promote, and keeps it.
LEMMA CallMoves ==
  ASSUME RotationInv, NEW c \in Calls, Call(c)
  PROVE  /\ \A k \in Calls : k # c => call'[k] = call[k]
         /\ \/ call'[c].pc \notin {"rotate", "promote", "forget"}
            \/ /\ Snapshot(c) /\ call'[c].pc = "rotate"
               /\ call'[c].old = root.sid /\ call'[c].hint = root.prof
            \/ /\ Finalize(c) /\ root.due /\ call'[c].pc = "promote"
               /\ call'[c].old = root.sid /\ call'[c].hint = root.prof
            \/ /\ Continue(c) \/ Rotate(c)
               /\ call[c].pc = "rotate" /\ call'[c].pc = "promote" /\ call'[c].old # root'.sid
               /\ call'[c].old = call[c].old /\ call'[c].hint = call[c].hint
            \/ /\ Promote(c) /\ call[c].pc = "promote" /\ call'[c].pc = "forget"
               /\ call'[c].old = call[c].old /\ call'[c].hint = call[c].hint
<1> USE DEF RotationInv
<1>1. call \in [Calls -> Threads]
  BY DEF TypeOK
<1>2. CASE \E kind \in Kinds, scope \in Profiles \cup {"none"} : Begin(c, kind, scope)
  <2>1. PICK kind \in Kinds : \E scope \in Profiles \cup {"none"} : Begin(c, kind, scope)
    BY <1>2
  <2>2. PICK scope \in Profiles \cup {"none"} : Begin(c, kind, scope)
    BY <2>1
  <2>3. PICK r : r = [NewCall EXCEPT !.pc = "snapshot", !.kind = kind, !.scope = scope, !.prof = bound]
    OBVIOUS
  <2>4. r.pc = "snapshot"
    BY <2>3 DEF NewCall
  <2>5. call' = [call EXCEPT ![c] = r]
    BY <2>2, <2>3 DEF Begin
  <2> QED BY <1>1, <2>4, <2>5
<1>3. CASE Snapshot(c)
  <2>1. call' = [call EXCEPT ![c] = [call[c] EXCEPT !.pc = "rotate", !.old = root.sid, !.hint = root.prof]]
    BY <1>3 DEF Snapshot
  <2> QED BY <1>1, <1>3, <2>1 DEF Threads
<1>4. CASE Finalize(c)
  <2>1. PICK r : r = [NewCall EXCEPT !.pc = "promote", !.kind = "expiry", !.old = root.sid,
                                     !.hint = root.prof]
    OBVIOUS
  <2>2. r.pc = "promote" /\ r.old = root.sid /\ r.hint = root.prof
    BY <2>1 DEF NewCall
  <2>3. call' = [call EXCEPT ![c] = r] /\ root.due
    BY <1>4, <2>1 DEF Finalize
  <2> QED BY <1>1, <1>4, <2>2, <2>3
<1>5. CASE Continue(c)
  <2>1. call[c].pc = "rotate" /\ root' = root /\ Returned(c, root.sid) /\ root.sid \in Sids
    BY <1>5 DEF Continue, At, TypeOK
  <2> QED BY <1>5, <2>1, ReturnedCall
<1>6. CASE Rotate(c)
  <2>1. call[c].pc = "rotate" /\ Returned(c, root.sid + 1) /\ root.sid + 1 \in Sids
    BY <1>6, RotateStep
  <2>2. root'.sid = root.sid + 1
    BY <1>6, RotateStep
  <2> QED BY <1>6, <2>1, <2>2, ReturnedCall
<1>7. CASE Promote(c)
  BY <1>7, GotoCall DEF Promote, At, PCs
<1>8. CASE Refuse(c) \/ Forget(c) \/ Raise(c)
  <2>1. After(c, call[c].sid) /\ call[c].sid \in 0 .. MaxSessions
    BY <1>1, <1>8 DEF Refuse, Forget, Raise, Threads
  <2> QED BY <2>1, AfterCall
<1>9. ASSUME NEW text \in Texts, Persist(c, text)
      PROVE  call'[c].pc = "agent" /\ \A k \in Calls : k # c => call'[k] = call[k]
  <2>1. PICK gist : gist = Gist(text)
    OBVIOUS
  <2>2. call' = [call EXCEPT ![c] = [call[c] EXCEPT !.pc = "agent", !.text = gist]]
    BY <1>9, <2>1 DEF Persist
  <2> QED BY <1>1, <2>2 DEF Threads
<1>10. CASE Search(c) \/ Record(c)
  BY <1>10, GotoCall DEF Search, Record, PCs
<1>11. CASE EndTurn(c)
  BY <1>1, <1>11 DEF EndTurn, Done, NewCall
<1> QED BY <1>2, <1>3, <1>4, <1>5, <1>6, <1>7, <1>8, <1>9, <1>10, <1>11 DEF Call, Step

\* The Sessions up to the current one keep the Profile they were created in.
LEMMA BornStays ==
  ASSUME RotationInv, NEW c \in Calls, Call(c)
  PROVE  /\ root.sid <= root'.sid /\ \A s \in 1 .. root.sid : born'[s] = born[s]
         /\ Rotate(c) => root'.sid = root.sid + 1
         /\ root'.sid = root.sid => root' = root
<1>1. root.sid \in Nat
  BY DEF RotationInv, TypeOK, Sids
<1>2. CASE Rotate(c)
  <2>1. PICK p \in Profiles : /\ root' = [sid |-> root.sid + 1, prof |-> p, due |-> FALSE]
                              /\ born' = [born EXCEPT ![root.sid + 1] = p]
    BY <1>2, RotateStep
  <2>2. root'.sid = root.sid + 1
    BY <2>1
  <2>3. \A s \in 1 .. root.sid : s \in Sids /\ s # root.sid + 1
    BY <1>1, Bounds DEF RotationInv, TypeOK, Sids
  <2> QED BY <1>1, <2>1, <2>2, <2>3 DEF RotationInv, TypeOK
<1>3. CASE ~Rotate(c)
  BY <1>1, <1>3, CallStep
<1> QED BY <1>2, <1>3

\* A promotion ends the row of a Session there has been, in the Profile it was created in.
LEMMA PromoteStep ==
  ASSUME RotationInv, NEW c \in Calls, Promote(c)
  PROVE  /\ call[c].old \in 1 .. root.sid /\ call[c].hint = born[call[c].old]
         /\ ended' = ended \cup {Row(born[call[c].old], call[c].old)}
         /\ call[c].old < root.sid \/ root.due
         /\ UNCHANGED <<root, born>>
<1>1. call[c].pc = "promote"
  BY DEF Promote, At
<1>2. /\ call[c].old \in 1 .. root.sid /\ call[c].hint = born[call[c].old]
      /\ call[c].old < root.sid \/ root.due
  BY <1>1 DEF RotationInv, Carried
<1> QED BY <1>2 DEF Promote, Home

LEMMA IndexedStep == RotationInv /\ [Next]_vars => Indexed'
<1> SUFFICES ASSUME RotationInv, [Next]_vars PROVE Indexed'
  OBVIOUS
<1>1. CASE UNCHANGED vars
  BY <1>1 DEF vars, RotationInv, Indexed
<1>2. CASE Chat
  BY <1>2, ChatStep DEF RotationInv, Indexed
<1>3. ASSUME NEW c \in Calls, Call(c) PROVE Indexed'
  <2>1. root.sid \in Nat /\ \A r \in ended : r.sid \in Nat
    BY DEF RotationInv, TypeOK, Rows, Sids
  <2>2. CASE Rotate(c)
    <3>1. PICK p \in Profiles : /\ root' = [sid |-> root.sid + 1, prof |-> p, due |-> FALSE]
                                /\ born' = [born EXCEPT ![root.sid + 1] = p]
      BY <2>2, RotateStep
    <3>2. root.sid + 1 \in Sids /\ ended' = ended
      BY <2>2, RotateStep
    <3>3. root'.prof = p /\ root'.sid = root.sid + 1 /\ born'[root.sid + 1] = p
      BY <3>1, <3>2 DEF RotationInv, TypeOK
    <3> QED BY <2>1, <3>2, <3>3 DEF RotationInv, Indexed
  <2>3. CASE Promote(c)
    <3>1. /\ call[c].old <= root.sid /\ ended' = ended \cup {Row(born[call[c].old], call[c].old)}
          /\ UNCHANGED <<root, born>>
      BY <2>3, PromoteStep
    <3>2. Row(born[call[c].old], call[c].old).sid = call[c].old
      BY DEF Row
    <3> QED BY <3>1, <3>2 DEF RotationInv, Indexed
  <2>4. CASE ~Rotate(c) /\ ~Promote(c)
    BY <1>3, <2>4, CallStep DEF RotationInv, Indexed
  <2> QED BY <2>2, <2>3, <2>4
<1> QED BY <1>1, <1>2, <1>3, NextCases

LEMMA CarriedStep == RotationInv /\ [Next]_vars => Carried'
<1> SUFFICES ASSUME RotationInv, [Next]_vars PROVE Carried'
  OBVIOUS
<1>1. CASE UNCHANGED vars
  BY <1>1 DEF vars, RotationInv, Carried
<1>2. CASE Chat
  BY <1>2, ChatStep DEF RotationInv, Carried
<1>3. ASSUME NEW c \in Calls, Call(c) PROVE Carried'
  <2>1. /\ root.sid \in Nat /\ root'.sid \in Nat /\ root.sid <= root'.sid
        /\ \A s \in 1 .. root.sid : born'[s] = born[s]
        /\ root'.sid = root.sid => root' = root
    <3>1. root'.sid \in Nat
      BY TypeStep DEF TypeOK, Sids
    <3>2. root.sid \in Nat
      BY DEF RotationInv, TypeOK, Sids
    <3> QED BY <1>3, <3>1, <3>2, BornStays
  <2>2. ended \subseteq ended'
    BY <1>3, CallStep, PromoteStep
  <2> DEFINE Holds(k) ==
        /\ call[k].pc \in {"rotate", "promote", "forget"} =>
             call[k].old \in 1 .. root.sid /\ call[k].hint = born[call[k].old]
        /\ call[k].pc \in {"promote", "forget"} => call[k].old < root.sid \/ root.due
        /\ call[k].pc = "forget" => Row(call[k].hint, call[k].old) \in ended
  <2>3. \A k \in Calls : Holds(k)
    BY DEF RotationInv, Carried
  <2>4. ASSUME NEW k \in Calls, call'[k].pc = call[k].pc, call'[k].old = call[k].old,
               call'[k].hint = call[k].hint
        PROVE  Holds(k)'
    BY <2>1, <2>2, <2>3, <2>4
  <2>5. Holds(c)'
    <3>1. CASE call'[c].pc \notin {"rotate", "promote", "forget"}
      BY <3>1
    <3>2. CASE Snapshot(c) /\ call'[c].pc = "rotate" /\ call'[c].old = root.sid /\ call'[c].hint = root.prof
      <4>1. root' = root /\ born' = born /\ root.prof = born[root.sid] /\ root.sid \in 1 .. root.sid
        BY <3>2 DEF Snapshot, RotationInv, Indexed, TypeOK, Sids
      <4> QED BY <3>2, <4>1
    <3>3. CASE /\ Finalize(c) /\ root.due /\ call'[c].pc = "promote"
               /\ call'[c].old = root.sid /\ call'[c].hint = root.prof
      <4>1. root' = root /\ born' = born /\ root.prof = born[root.sid] /\ root.sid \in 1 .. root.sid
        BY <3>3 DEF Finalize, RotationInv, Indexed, TypeOK, Sids
      <4> QED BY <3>3, <4>1
    <3>4. CASE /\ call[c].pc = "rotate" /\ call'[c].pc = "promote" /\ call'[c].old # root'.sid
               /\ call'[c].old = call[c].old /\ call'[c].hint = call[c].hint
      BY <2>1, <2>3, <3>4
    <3>5. CASE /\ Promote(c) /\ call[c].pc = "promote" /\ call'[c].pc = "forget"
               /\ call'[c].old = call[c].old /\ call'[c].hint = call[c].hint
      <4>1. Row(call[c].hint, call[c].old) \in ended' /\ root' = root
        BY <3>5, PromoteStep
      <4> QED BY <2>1, <2>3, <3>5, <4>1
    <3> HIDE DEF Holds
    <3> QED BY <1>3, <3>1, <3>2, <3>3, <3>4, <3>5, CallMoves
  <2>6. \A k \in Calls : Holds(k)'
    BY <1>3, <2>4, <2>5, CallMoves
  <2> QED BY <2>6 DEF Carried
<1> QED BY <1>1, <1>2, <1>3, NextCases

LEMMA TurnedStep == RotationInv /\ [Next]_vars => Turned'
<1> SUFFICES ASSUME RotationInv, [Next]_vars PROVE Turned'
  OBVIOUS
<1>1. CASE UNCHANGED vars
  BY <1>1 DEF vars, RotationInv, Turned
<1>2. CASE Chat
  BY <1>2, ChatStep DEF RotationInv, Turned
<1>3. ASSUME NEW c \in Calls, Call(c) PROVE Turned'
  <2> DEFINE Holds(k) ==
        /\ call[k].pc \in {"snapshot", "rotate", "persist", "agent", "record"} =>
             call[k].prof \in Profiles
        /\ call[k].pc \in {"persist", "agent", "record"} => call[k].sid \in Sids
        /\ call[k].pc \in {"promote", "forget"} /\ call[k].kind = "message" =>
             call[k].prof \in Profiles /\ call[k].sid \in Sids
  <2>1. \A k \in Calls : Holds(k)
    BY DEF RotationInv, Turned
  <2>2. TypeOK /\ call \in [Calls -> Threads]
    BY DEF RotationInv, TypeOK
  <2>14. SUFFICES Holds(c)'
    <3>1. \A k \in Calls : k # c => call'[k] = call[k]
      BY <1>3, CallMoves
    <3>2. ASSUME NEW k \in Calls, k # c PROVE Holds(k)'
      BY <2>1, <3>1, <3>2
    <3>3. Holds(c)' => \A k \in Calls : Holds(k)'
      BY <3>2
    <3> QED BY <3>3 DEF Turned
  <2>3. CASE \E kind \in Kinds, scope \in Profiles \cup {"none"} : Begin(c, kind, scope)
    <3>1. PICK kind \in Kinds : \E scope \in Profiles \cup {"none"} : Begin(c, kind, scope)
      BY <2>3
    <3>2. PICK scope \in Profiles \cup {"none"} : Begin(c, kind, scope)
      BY <3>1
    <3>3. PICK r : r = [NewCall EXCEPT !.pc = "snapshot", !.kind = kind, !.scope = scope, !.prof = bound]
      OBVIOUS
    <3>4. r.pc = "snapshot" /\ r.prof = bound
      BY <3>3 DEF NewCall
    <3>5. call' = [call EXCEPT ![c] = r]
      BY <3>2, <3>3 DEF Begin
    <3> QED BY <2>2, <3>4, <3>5 DEF TypeOK
  <2>4. CASE Snapshot(c)
    <3>1. call' = [call EXCEPT ![c] = [call[c] EXCEPT !.pc = "rotate", !.old = root.sid, !.hint = root.prof]]
          /\ call[c].pc = "snapshot"
      BY <2>4 DEF Snapshot, At
    <3>2. call'[c].pc = "rotate" /\ call'[c].prof = call[c].prof
      BY <2>2, <3>1 DEF Threads
    <3> QED BY <2>1, <3>1, <3>2
  <2>5. CASE Finalize(c)
    <3>1. PICK r : r = [NewCall EXCEPT !.pc = "promote", !.kind = "expiry", !.old = root.sid,
                                       !.hint = root.prof]
      OBVIOUS
    <3>2. r.pc = "promote" /\ r.kind = "expiry"
      BY <3>1 DEF NewCall
    <3>3. call' = [call EXCEPT ![c] = r]
      BY <2>5, <3>1 DEF Finalize
    <3> QED BY <2>2, <3>2, <3>3
  <2>6. ASSUME NEW sid \in Sids, Returned(c, sid), call[c].pc = "rotate" PROVE Holds(c)'
    <3>1. call[c].prof \in Profiles
      BY <2>1, <2>6
    <3> QED BY <2>2, <2>6, <3>1, ReturnedCall
  <2>7. CASE Continue(c)
    BY <2>2, <2>6, <2>7 DEF Continue, At, TypeOK
  <2>8. CASE Rotate(c)
    BY <2>6, <2>8, RotateStep
  <2>9. CASE Promote(c)
    BY <2>1, <2>2, <2>9, GotoCall DEF Promote, At, PCs
  <2>10. CASE Refuse(c) \/ Forget(c) \/ Raise(c)
    <3>1. /\ After(c, call[c].sid) /\ call[c].sid \in 0 .. MaxSessions
          /\ call[c].pc \in {"promote", "forget"}
      BY <2>2, <2>10 DEF Refuse, Forget, Raise, At, Threads
    <3> QED BY <2>1, <2>2, <3>1, AfterCall
  <2>11. ASSUME NEW text \in Texts, Persist(c, text) PROVE Holds(c)'
    <3>1. PICK gist : gist = Gist(text)
      OBVIOUS
    <3>2. call' = [call EXCEPT ![c] = [call[c] EXCEPT !.pc = "agent", !.text = gist]]
          /\ call[c].pc = "persist"
      BY <2>11, <3>1 DEF Persist, At
    <3>3. call'[c].pc = "agent" /\ call'[c].prof = call[c].prof /\ call'[c].sid = call[c].sid
      BY <2>2, <3>2 DEF Threads
    <3> QED BY <2>1, <3>2, <3>3
  <2>12. CASE Search(c) \/ Record(c)
    BY <2>1, <2>2, <2>12, GotoCall DEF Search, Record, At, PCs
  <2>13. CASE EndTurn(c)
    <3>1. call'[c].pc = "done"
      BY <2>2, <2>13 DEF EndTurn, Done, NewCall
    <3> QED BY <3>1
  <2> HIDE DEF Holds
  <2> QED BY <1>3, <2>3, <2>4, <2>5, <2>7, <2>8, <2>9, <2>10, <2>11, <2>12, <2>13 DEF Call, Step
<1> QED BY <1>1, <1>2, <1>3, NextCases

-----------------------------------------------------------------------------
(* What a rotation leaves behind *)

LEMMA EndedStep == RotationInv /\ [Next]_vars => EndedWhereItLived'
<1> SUFFICES ASSUME RotationInv, [Next]_vars PROVE EndedWhereItLived'
  OBVIOUS
<1>1. CASE UNCHANGED vars
  BY <1>1 DEF vars, RotationInv, EndedWhereItLived
<1>2. CASE Chat
  BY <1>2, ChatStep DEF RotationInv, EndedWhereItLived
<1>3. ASSUME NEW c \in Calls, Call(c) PROVE EndedWhereItLived'
  <2>1. \A r \in ended : born'[r.sid] = born[r.sid]
    <3>1. \A r \in ended : r.sid \in 1 .. root.sid
      BY DEF RotationInv, Indexed, TypeOK, Rows, Sids
    <3> QED BY <1>3, <3>1, BornStays
  <2>2. CASE Promote(c)
    <3>1. PICK s : s = call[c].old
      OBVIOUS
    <3>2. ended' = ended \cup {Row(born[s], s)} /\ born' = born
      BY <2>2, <3>1, PromoteStep
    <3>3. Row(born[s], s).prof = born[s] /\ Row(born[s], s).sid = s
      BY DEF Row
    <3> QED BY <3>2, <3>3 DEF RotationInv, EndedWhereItLived
  <2>3. CASE ended' = ended
    BY <2>1, <2>3 DEF RotationInv, EndedWhereItLived
  <2> QED BY <1>3, <2>2, <2>3, CallStep
<1> QED BY <1>1, <1>2, <1>3, NextCases

\* A call stops promoting a Session only when it has ended and forgotten it, or lost it.
LEMMA StopsPromoting ==
  ASSUME RotationInv, NEW c \in Calls, Call(c), NEW s \in Sids,
         Promoting(c, s), ~Promoting(c, s)'
  PROVE  \/ s \in lost'
         \/ Forget(c) /\ OldRow(c) = Row(born[s], s) /\ Row(born[s], s) \in ended
<1>1. call[c].old = s /\ call[c].pc \in {"promote", "forget"} /\ call[c].hint = born[s]
  BY DEF Promoting, RotationInv, Carried
<1>2. ~Promote(c)
  BY CallMoves, <1>1 DEF Promoting, Promote, Goto, RotationInv, TypeOK, Threads
<1>4. CASE Refuse(c) \/ Raise(c)
  BY <1>1, <1>4 DEF Refuse, Raise
<1>5. CASE Forget(c)
  <2>1. call[c].pc = "forget"
    BY <1>5 DEF Forget, At
  <2> QED BY <1>1, <1>5, <2>1 DEF RotationInv, Carried, OldRow, Home
<1>6. ~(Snapshot(c) \/ Continue(c) \/ Rotate(c) \/ Search(c) \/ Record(c) \/ EndTurn(c) \/ Finalize(c))
  BY <1>1 DEF Snapshot, Continue, Rotate, Search, Record, EndTurn, Finalize, At
<1>7. ~(\E text \in Texts : Persist(c, text))
  BY <1>1 DEF Persist, At
<1>8. ~(\E kind \in Kinds, scope \in Profiles \cup {"none"} : Begin(c, kind, scope))
  BY <1>1 DEF Begin, At
<1> QED BY <1>2, <1>4, <1>5, <1>6, <1>7, <1>8 DEF Call, Step

\* What is lost stays lost.
LEMMA LostStays ==
  ASSUME NEW c \in Calls, Call(c)
  PROVE  lost \subseteq lost'
<1>1. CASE Finalize(c) \/ \E kind \in Kinds, scope \in Profiles \cup {"none"} : Begin(c, kind, scope)
  BY <1>1 DEF Finalize, Begin
<1>2. CASE Step(c)
  BY <1>2 DEF Step, Snapshot, Continue, Rotate, Promote, Refuse, Forget, Raise, Persist, Search,
              Record, EndTurn
<1> QED BY <1>1, <1>2 DEF Call

\* The Session a rotation replaces is promoted by it, or lost to a call with an older entry.
LEMMA ReplacedNow ==
  ASSUME RotationInv, NEW c \in Calls, Rotate(c), NEW s, s = root.sid
  PROVE  s \in lost' \/ Promoting(c, s)'
<1>1. CASE call[c].old # root.sid
  BY <1>1, RotateStep
<1>2. CASE call[c].old = root.sid
  <2>1. root.sid # root.sid + 1 /\ root.sid + 1 \in Sids /\ Returned(c, root.sid + 1)
    BY RotateStep DEF RotationInv, TypeOK, Sids
  <2>2. call'[c].pc = "promote" /\ call'[c].old = s
    BY <1>2, <2>1, ReturnedCall DEF RotationInv
  <2> QED BY <2>2 DEF Promoting
<1> QED BY <1>1, <1>2

\* Whom a call promotes is nobody else's business.
LEMMA OthersPromote ==
  ASSUME RotationInv, NEW c \in Calls, Call(c), NEW k \in Calls, k # c, NEW s, Promoting(k, s)
  PROVE  Promoting(k, s)'
BY CallMoves DEF Promoting

LEMMA ReplacedStep == RotationInv /\ [Next]_vars => ReplacedIsEnded'
<1> SUFFICES ASSUME RotationInv, [Next]_vars, NEW s \in 1 .. root'.sid - 1
             PROVE  Row(born'[s], s) \in ended' \/ s \in lost' \/ \E c \in Calls : Promoting(c, s)'
  BY DEF ReplacedIsEnded
<1>1. CASE UNCHANGED vars
  BY <1>1 DEF vars, RotationInv, ReplacedIsEnded, Promoting
<1>2. CASE Chat
  BY <1>2, ChatStep DEF RotationInv, ReplacedIsEnded, Promoting
<1>3. ASSUME NEW c \in Calls, Call(c)
      PROVE  Row(born'[s], s) \in ended' \/ s \in lost' \/ \E k \in Calls : Promoting(k, s)'
  <2>1. root.sid \in Sids /\ s \in Nat /\ (s = root.sid => Rotate(c)) /\ s <= root.sid /\ s >= 1
    BY <1>3, BornStays, CallStep DEF RotationInv, TypeOK, Sids
  <2>2. CASE s = root.sid
    BY <2>1, <2>2, ReplacedNow
  <2>3. CASE s < root.sid
    <3>1. s \in Sids /\ s \in 1 .. root.sid - 1 /\ s \in 1 .. root.sid
      BY <2>1, <2>3, Bounds DEF Sids
    <3>2. born'[s] = born[s] /\ lost \subseteq lost'
      BY <1>3, <3>1, BornStays, LostStays
    <3>3. ended \subseteq ended'
      BY <1>3, CallStep, PromoteStep
    <3>4. CASE Row(born[s], s) \in ended \/ s \in lost
      BY <3>2, <3>3, <3>4
    <3>5. ASSUME NEW k \in Calls, Promoting(k, s)
          PROVE  Row(born'[s], s) \in ended' \/ s \in lost' \/ Promoting(k, s)'
      <4>1. CASE k # c
        BY <1>3, <3>5, <4>1, OthersPromote
      <4>2. CASE k = c
        BY <1>3, <3>1, <3>2, <3>3, <3>5, <4>2, StopsPromoting
      <4> QED BY <4>1, <4>2
    <3> QED BY <3>1, <3>4, <3>5 DEF RotationInv, ReplacedIsEnded
  <2> QED BY <2>1, <2>2, <2>3 DEF Sids
<1> QED BY <1>1, <1>2, <1>3, NextCases

\* A turn that sets the marker of a replaced Session is late.
LEMMA TurnWrites ==
  ASSUME RotationInv, NEW c \in Calls, Record(c) \/ \E t \in Texts : Persist(c, t),
         NEW r \in Rows, state'[r] # state[r], r.sid # root.sid
  PROVE  r \in late'
<1>1. \A t \in Rows : t # TurnRow(c) => state'[t] = state[t]
  <2>1. PICK x : x = TurnRow(c)
    OBVIOUS
  <2>2. state \in [Rows -> [latest : Gists, marker : BOOLEAN]]
    BY DEF RotationInv, TypeOK
  <2>3. CASE Record(c)
    <3>1. state' = state \/ state' = [state EXCEPT ![x].marker = TRUE]
      BY <2>1, <2>3 DEF Record
    <3> QED BY <2>1, <2>2, <3>1
  <2>4. ASSUME NEW t, Persist(c, t) PROVE \A y \in Rows : y # x => state'[y] = state[y]
    <3>1. PICK entry : entry = [latest |-> Gist(t), marker |-> t = "explicit" \/ (state[x].marker /\ t # "refusal")]
      OBVIOUS
    <3>2. state' = [state EXCEPT ![x] = entry]
      BY <2>1, <2>4, <3>1 DEF Persist
    <3> QED BY <2>2, <3>2
  <2> QED BY <2>1, <2>3, <2>4
<1>2. r = TurnRow(c) /\ r.sid = call[c].sid
  <2>1. r = TurnRow(c)
    BY <1>1
  <2> QED BY <2>1 DEF TurnRow, Row
<1>3. Wrote(c)
  BY DEF Persist, Record
<1> QED BY <1>2, <1>3 DEF Wrote

\* What one call does to the marker of a row, and to the list of the late ones.
LEMMA MarkerMoves ==
  ASSUME RotationInv, NEW c \in Calls, Call(c), NEW r \in Rows, r.sid # root.sid, state'[r].marker
  PROVE  \/ r \in late'
         \/ /\ state[r].marker /\ (r \in late => r \in late')
            /\ Forget(c) => r # OldRow(c)
<1>1. CASE Finalize(c) \/ \E kind \in Kinds, scope \in Profiles \cup {"none"} : Begin(c, kind, scope)
  <2>1. UNCHANGED <<state, late>> /\ ~Forget(c)
    BY <1>1 DEF Finalize, Begin, Forget, At
  <2> QED BY <2>1
<1>2. CASE Snapshot(c) \/ Continue(c) \/ Rotate(c) \/ Promote(c) \/ Search(c) \/ EndTurn(c)
  <2>1. UNCHANGED <<state, late>> /\ ~Forget(c)
    BY <1>2 DEF Snapshot, Continue, Rotate, Promote, Search, EndTurn, Forget, At
  <2> QED BY <2>1
<1>3. CASE Refuse(c)
  <2>1. UNCHANGED <<state, late>> /\ ~Forget(c)
    BY <1>3 DEF Refuse, Forget, At
  <2> QED BY <2>1
<1>4. CASE Raise(c) /\ ~Forget(c)
  BY <1>4 DEF Raise
<1>5. CASE Forget(c)
  <2>1. PICK x : x = OldRow(c)
    OBVIOUS
  <2>2. state' = [state EXCEPT ![x] = Forgotten] /\ late' = late \ {x}
    BY <1>5, <2>1 DEF Forget
  <2>3. r # x
    BY <2>2 DEF RotationInv, TypeOK, Forgotten
  <2> QED BY <2>1, <2>2, <2>3 DEF RotationInv, TypeOK
<1>6. CASE Record(c) \/ \E t \in Texts : Persist(c, t)
  <2>1. CASE state'[r] # state[r]
    BY <1>6, <2>1, TurnWrites
  <2>2. CASE state'[r] = state[r]
    <3>1. late \subseteq late' /\ ~Forget(c)
      BY <1>6 DEF Record, Persist, Wrote, Forget, At
    <3> QED BY <2>2, <3>1
  <2> QED BY <2>1, <2>2
<1> QED BY <1>1, <1>2, <1>3, <1>4, <1>5, <1>6 DEF Call, Step

LEMMA ForgetsStep == RotationInv /\ [Next]_vars => RotationForgets'
<1> SUFFICES ASSUME RotationInv, [Next]_vars, NEW s \in 1 .. root'.sid - 1,
                    state'[Row(born'[s], s)].marker
             PROVE  s \in lost' \/ Row(born'[s], s) \in late' \/ \E c \in Calls : Promoting(c, s)'
  BY DEF RotationForgets
<1>1. CASE UNCHANGED vars
  BY <1>1 DEF vars, RotationInv, RotationForgets, Promoting
<1>2. CASE Chat
  BY <1>2, ChatStep DEF RotationInv, RotationForgets, Promoting
<1>3. ASSUME NEW c \in Calls, Call(c)
      PROVE  s \in lost' \/ Row(born'[s], s) \in late' \/ \E k \in Calls : Promoting(k, s)'
  <2>1. root.sid \in Sids /\ s \in Nat /\ (s = root.sid => Rotate(c)) /\ s <= root.sid /\ s >= 1
    BY <1>3, BornStays, CallStep DEF RotationInv, TypeOK, Sids
  <2>2. CASE s = root.sid
    BY <2>1, <2>2, ReplacedNow
  <2>3. CASE s < root.sid
    <3>1. s \in Sids /\ s \in 1 .. root.sid - 1 /\ s \in 1 .. root.sid
      BY <2>1, <2>3, Bounds DEF Sids
    <3>2. born'[s] = born[s] /\ lost \subseteq lost'
      BY <1>3, <3>1, BornStays, LostStays
    <3>3. PICK r : r = Row(born[s], s)
      OBVIOUS
    <3>4. r \in Rows /\ r.sid = s
      BY <3>1, <3>3 DEF Row, Rows, RotationInv, TypeOK
    <3>5. \/ r \in late'
          \/ /\ state[r].marker /\ (r \in late => r \in late')
             /\ Forget(c) => r # OldRow(c)
      BY <1>3, <2>3, <3>2, <3>3, <3>4, MarkerMoves DEF RotationInv, TypeOK, Sids
    <3>6. CASE r \in late'
      BY <3>2, <3>3, <3>6
    <3>7. CASE /\ state[r].marker /\ (r \in late => r \in late')
               /\ Forget(c) => r # OldRow(c)
      <4>1. s \in lost \/ r \in late \/ \E k \in Calls : Promoting(k, s)
        BY <3>1, <3>3, <3>7 DEF RotationInv, RotationForgets
      <4>2. CASE s \in lost \/ r \in late
        BY <3>2, <3>3, <3>7, <4>2
      <4>3. ASSUME NEW k \in Calls, Promoting(k, s)
            PROVE  s \in lost' \/ Promoting(k, s)'
        <5>1. CASE k # c
          BY <1>3, <4>3, <5>1, OthersPromote
        <5>2. CASE k = c
          BY <1>3, <3>1, <3>3, <3>7, <4>3, <5>2, StopsPromoting
        <5> QED BY <5>1, <5>2
      <4> QED BY <4>1, <4>2, <4>3
    <3> QED BY <3>5, <3>6, <3>7
  <2> QED BY <2>1, <2>2, <2>3 DEF Sids
<1> QED BY <1>1, <1>2, <1>3, NextCases

-----------------------------------------------------------------------------
LEMMA RotationAlways == Spec => []RotationInv
<1>1. Init => RotationInv
  <2> SUFFICES ASSUME Init PROVE RotationInv
    OBVIOUS
  <2>1. PICK p \in Profiles :
          /\ root = [sid |-> 1, prof |-> p, due |-> FALSE] /\ born = [s \in Sids |-> p]
          /\ ended = {} /\ call = [c \in Calls |-> NewCall]
    BY DEF Init
  <2>2. \A c \in Calls : call[c].pc = "idle"
    BY <2>1 DEF NewCall
  <2>3. root.sid = 1 /\ root.prof = p /\ 1 \in Sids
    BY <2>1, Bounds DEF Sids
  <2>4. Indexed
    BY <2>1, <2>3 DEF Indexed
  <2>5. Carried /\ Turned
    BY <2>2 DEF Carried, Turned
  <2>6. EndedWhereItLived /\ ReplacedIsEnded /\ RotationForgets
    BY <2>1, <2>3 DEF EndedWhereItLived, ReplacedIsEnded, RotationForgets
  <2> QED BY <2>4, <2>5, <2>6, InitType DEF RotationInv
<1>2. RotationInv /\ [Next]_vars => RotationInv'
  <2> SUFFICES ASSUME RotationInv, [Next]_vars PROVE RotationInv'
    OBVIOUS
  <2>1. TypeOK' /\ Indexed' /\ Carried' /\ Turned'
    BY TypeStep, IndexedStep, CarriedStep, TurnedStep
  <2>2. EndedWhereItLived' /\ ReplacedIsEnded' /\ RotationForgets'
    BY EndedStep, ReplacedStep, ForgetsStep
  <2> QED BY <2>1, <2>2 DEF RotationInv
<1> QED BY <1>1, <1>2, PTL DEF Spec

\* Every reachable state is well typed.
THEOREM RotationTypeCorrect == Spec => []TypeOK
BY RotationAlways, PTL DEF RotationInv

\* Rows are ended in the Profile their Session was created in, whatever the chat is bound to
\* by then and however many rotations overlap.
THEOREM RowsEndWhereTheyLived == Spec => []EndedWhereItLived
BY RotationAlways, PTL DEF RotationInv

\* A replaced Session is ended but for the failures and overlaps the property names.
THEOREM ReplacedRowsAreEnded == Spec => []ReplacedIsEnded
BY RotationAlways, PTL DEF RotationInv

\* The search marker of a replaced Session is gone but for those, and for a late turn.
THEOREM MarkersAreForgotten == Spec => []RotationForgets
BY RotationAlways, PTL DEF RotationInv

\* The Session the chat goes on with is never ended before it has expired.
THEOREM CurrentIsNotEnded == Spec => CurrentStays
<1>1. RotationInv /\ [Next]_vars => [\A r \in ended' \ ended : r.sid = root.sid => root.due]_vars
  <2> SUFFICES ASSUME RotationInv, Next, NEW r \in ended' \ ended, r.sid = root.sid
               PROVE  root.due
    OBVIOUS
  <2>1. PICK c \in Calls : Call(c)
    BY NextCases, ChatStep DEF RotationInv
  <2>2. Promote(c)
    BY <2>1, CallStep
  <2>3. r = Row(born[call[c].old], call[c].old) /\ (call[c].old < root.sid \/ root.due)
    BY <2>2, PromoteStep
  <2>4. r.sid = call[c].old /\ root.sid \in Nat
    BY <2>3 DEF Row, RotationInv, TypeOK, Sids
  <2> QED BY <2>3, <2>4
<1> QED BY <1>1, RotationAlways, PTL DEF Spec, CurrentStays
=============================================================================
