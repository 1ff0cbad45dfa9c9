------------------------- MODULE WechatBinding_proofs -------------------------
(* Proofs about WechatBinding, for any requests, bindings, Profiles and users.  *)
EXTENDS WechatBinding, TLAPS

\* The mutation lock: no two requests are between their first and last side effect.
Mutex == \A v, w \in Requests : req[v] # Idle /\ req[w] # Idle => v = w

\* Nobody is approved in the store of a Profile that does not exist.
HomesFirst == \A p \in Profiles : approved[p] # {} => p \in homes

\* What a request knows of the durable state at its control point.
Routeless(b) == \A r \in routes : r.name # b
Entry(q, status) == journal[q.b] = Record(status, q.p, q.u)
Unclaimed(q) ==
  \A c \in Bindings \ {q.b} : journal[c].user = q.u => journal[c].status \notin Live
Consistent(q) ==
  /\ q.pc \in BindPoints => journal[q.b].status = "none" \/ journal[q.b].prof = q.p
  /\ q.pc = "check" => journal[q.b].status \notin Live
  /\ q.pc = "journal" =>
       IF journal[q.b].status \in Live THEN Entry(q, journal[q.b].status) ELSE Unclaimed(q)
  /\ q.pc \in Guarded \cup {"activate", "rollback"} => Entry(q, "provisioning")
  /\ q.pc \in {"pat", "grant", "default", "route", "activate"} => q.p \in homes
  /\ q.pc = "revoking" => Entry(q, journal[q.b].status) /\ journal[q.b].status # "none"
  /\ q.pc \in Revocation \cup {"revoked"} =>
       IF q.was = "none" THEN journal[q.b].status = "none" ELSE Entry(q, "revoking")
  /\ q.pc \in {"revoking", "revoked"} => q.was # "none"
  /\ q.pc \in {"ungrant", "undefault", "unpat", "cleanup", "revoked"} => Routeless(q.b)
  /\ q.pc \in {"undefault", "unpat", "cleanup", "revoked"} => q.u \notin approved[q.p]
  /\ q.pc \in {"unpat", "cleanup", "revoked"} => q.u \notin approved["default"]
  /\ q.pc \in {"cleanup", "revoked"} => q.p \notin pat
Progress == \A w \in Requests : req[w] # Idle => Consistent(req[w])

Inv == TypeOK /\ Mutex /\ HomesFirst /\ Progress /\ RoutingSound /\ PatJournaled

-----------------------------------------------------------------------------
\* A request past its first side effect runs alone.
LEMMA Running ==
  ASSUME Inv, NEW w \in Requests, req[w] # Idle
  PROVE  /\ req[w] \in Calls /\ Consistent(req[w])
         /\ \A v \in Requests \ {w} : req[v] = Idle
BY DEF Inv, TypeOK, Mutex, Progress

\* If only one request is under way, its own next control point is all there is to check.
LEMMA Onward ==
  ASSUME TypeOK, NEW w \in Requests, NEW x, x \in Calls \cup {Idle},
         \A v \in Requests \ {w} : req[v] = Idle,
         req' = [req EXCEPT ![w] = x], x # Idle => Consistent(x)'
  PROVE  /\ (req \in [Requests -> {Idle} \cup Calls])' /\ Mutex' /\ Progress'
<1>1. req \in [Requests -> {Idle} \cup Calls]
  BY DEF TypeOK
<1>2. req'[w] = x /\ \A v \in Requests \ {w} : req'[v] = Idle
  BY <1>1
<1>3. (req \in [Requests -> {Idle} \cup Calls])'
  BY <1>1
<1>4. Mutex'
  BY <1>2 DEF Mutex
<1>5. Progress'
  BY <1>2 DEF Progress
<1> QED BY <1>3, <1>4, <1>5

\* The initial state: no record, no route, no token, no request.
LEMMA InvInit == Init => Inv
BY Bounds DEF Init, Inv, TypeOK, Mutex, HomesFirst, Progress, RoutingSound, PatJournaled, Stores

\* Bind: a live binding goes on with its user, another one consumes a pairing code.
LEMMA InvBindStart ==
  ASSUME Inv, NEW w \in Requests, NEW b \in Bindings, NEW p \in Profiles, BindStart(w, b, p)
  PROVE  Inv'
<1> USE DEF Inv
<1>0. \A v \in Requests : req[v] = Idle
  BY DEF BindStart, Free
<1>1. CASE journal[b].status \in Live /\ Run(w, "journal", b, p, journal[b].user)
             /\ UNCHANGED <<approved, codes>>
  <2> DEFINE x == [pc |-> "journal", b |-> b, p |-> p, u |-> journal[b].user,
                   was |-> journal[b].status]
  <2>1. PICK y : y = x
    OBVIOUS
  <2>2. y \in Calls
    BY <1>1, <2>1 DEF TypeOK, Calls, BindPoints, Statuses, Live, NoRecord
  <2>3. journal[b] = Record(journal[b].status, p, journal[b].user)
    BY <1>1 DEF BindStart, TypeOK, Record, NoRecord, Live
  <2>4. Consistent(y)'
    BY <1>1, <2>1, <2>3 DEF BindStart, Consistent, Entry, Guarded, Revocation
  <2>5. (req \in [Requests -> {Idle} \cup Calls])' /\ Mutex' /\ Progress'
    BY <1>0, <1>1, <2>1, <2>2, <2>4, Onward DEF Run
  <2> QED BY <1>1, <2>5 DEF BindStart, TypeOK, HomesFirst, RoutingSound, PatJournaled, budget
<1>2. CASE journal[b].status \notin Live /\ \E c \in codes :
             /\ c.store = "default" \/ (c.store = p /\ p \in homes)
             /\ Grant(c.store, c.user)
             /\ codes' = codes \ {c}
             /\ Run(w, "check", b, p, c.user)
  <2>1. PICK c \in codes :
             /\ c.store = "default" \/ (c.store = p /\ p \in homes)
             /\ Grant(c.store, c.user)
             /\ codes' = codes \ {c}
             /\ Run(w, "check", b, p, c.user)
    BY <1>2
  <2>2. c.user \in Users /\ c.store \in Stores
    BY DEF TypeOK
  <2>3. PICK y : y = [pc |-> "check", b |-> b, p |-> p, u |-> c.user, was |-> journal[b].status]
    OBVIOUS
  <2>4. journal[b].status \in {"none"} \cup Statuses
    BY DEF TypeOK, NoRecord
  <2>5. y \in Calls
    BY <2>2, <2>3, <2>4 DEF Calls, BindPoints
  <2>6. Consistent(y)'
    BY <1>2, <2>3 DEF BindStart, Consistent, Guarded, Revocation
  <2>7. (req \in [Requests -> {Idle} \cup Calls])' /\ Mutex' /\ Progress'
    BY <1>0, <2>1, <2>3, <2>5, <2>6, Onward DEF Run
  <2>8. approved' \in [Stores -> SUBSET Users] /\ HomesFirst'
    BY <2>1, <2>2, Bounds DEF BindStart, TypeOK, HomesFirst, Grant, Stores
  <2> QED BY <2>1, <2>7, <2>8 DEF BindStart, TypeOK, RoutingSound, PatJournaled, budget
<1> QED BY <1>1, <1>2 DEF BindStart

\* Bind: the check of the user, and the journal entry.
LEMMA InvBindCheck ==
  ASSUME Inv, NEW w \in Requests, BindCheck(w)
  PROVE  Inv'
<1> USE DEF Inv
<1>1. req[w] # Idle
  BY DEF BindCheck, At, Idle
<1>2. PICK q : q = req[w]
  OBVIOUS
<1>3. q \in Calls /\ Consistent(q) /\ \A v \in Requests \ {w} : req[v] = Idle
  BY <1>1, <1>2, Running
<1>4. CASE \E c \in Bindings : journal[c].user = q.u /\ journal[c].status \in Live
  <2>1. Revoke("default", q.u) /\ req' = [req EXCEPT ![w] = Idle]
    BY <1>2, <1>4 DEF BindCheck, End
  <2>2. (req \in [Requests -> {Idle} \cup Calls])' /\ Mutex' /\ Progress'
    BY <1>3, <2>1, Onward
  <2>3. approved' \in [Stores -> SUBSET Users] /\ HomesFirst'
    BY <2>1, Bounds DEF BindCheck, TypeOK, HomesFirst, Revoke, Stores
  <2> QED BY <2>2, <2>3 DEF BindCheck, TypeOK, RoutingSound, PatJournaled, budget
<1>5. CASE ~\E c \in Bindings : journal[c].user = q.u /\ journal[c].status \in Live
  <2>1. PICK y : y = [q EXCEPT !.pc = "journal"]
    OBVIOUS
  <2>2. req' = [req EXCEPT ![w] = y]
    BY <1>2, <1>5, <2>1 DEF BindCheck, Goto
  <2>3. y \in Calls /\ y.b = q.b /\ y.p = q.p /\ y.u = q.u /\ y.pc = "journal"
    BY <1>3, <2>1 DEF Calls, BindPoints
  <2>4. Consistent(y)'
    BY <1>2, <1>3, <1>5, <2>3
    DEF BindCheck, At, Consistent, Unclaimed, Entry, BindPoints, Guarded, Revocation
  <2>5. (req \in [Requests -> {Idle} \cup Calls])' /\ Mutex' /\ Progress'
    BY <1>3, <2>2, <2>3, <2>4, Onward
  <2> QED BY <1>2, <1>5, <2>5
          DEF BindCheck, TypeOK, HomesFirst, RoutingSound, PatJournaled, budget
<1> QED BY <1>4, <1>5

\* Bind: the "provisioning" entry; a route the binding already had keeps its Profile and user.
LEMMA InvBindJournal ==
  ASSUME Inv, NEW w \in Requests, BindJournal(w)
  PROVE  Inv'
<1> USE DEF Inv
<1>1. req[w] # Idle
  BY DEF BindJournal, At, Idle
<1>2. PICK q : q = req[w]
  OBVIOUS
<1>3. q \in Calls /\ Consistent(q) /\ \A v \in Requests \ {w} : req[v] = Idle
  BY <1>1, <1>2, Running
<1>4. PICK y : y = [q EXCEPT !.pc = "profile"]
  OBVIOUS
<1>5. /\ req' = [req EXCEPT ![w] = y]
      /\ journal' = [journal EXCEPT ![q.b] = Record("provisioning", q.p, q.u)]
      /\ UNCHANGED <<world, budget>>
  BY <1>2, <1>4 DEF BindJournal, Goto, Write
<1>6. y \in Calls /\ y.b = q.b /\ y.p = q.p /\ y.u = q.u /\ y.pc = "profile"
  BY <1>3, <1>4 DEF Calls, BindPoints, Guarded
<1>7. q.b \in Bindings /\ q.p \in Profiles /\ q.u \in Users /\ q.pc = "journal"
  BY <1>2, <1>3 DEF Calls, BindJournal, At
<1>8. journal'[q.b] = Record("provisioning", q.p, q.u)
      /\ \A c \in Bindings \ {q.b} : journal'[c] = journal[c]
  BY <1>5, <1>7 DEF TypeOK
<1>9. journal' \in [Bindings -> {NoRecord} \cup [status : Statuses, prof : Profiles, user : Users]]
  BY <1>5, <1>7 DEF TypeOK, Record, Statuses, Live
<1>10. Consistent(y)'
  BY <1>6, <1>8 DEF Consistent, Entry, BindPoints, Guarded, Revocation, Record
<1>11. (req \in [Requests -> {Idle} \cup Calls])' /\ Mutex' /\ Progress'
  BY <1>3, <1>5, <1>6, <1>10, Onward
<1>12. RoutingSound'
  <2>1. \A r \in routes : r.name = q.b => r.prof = q.p /\ r.user = q.u
    <3> SUFFICES ASSUME NEW r \in routes, r.name = q.b
                 PROVE  r.prof = q.p /\ r.user = q.u
      OBVIOUS
    <3>1. PICK status \in Live : journal[q.b] = Record(status, r.prof, r.user)
      BY DEF RoutingSound
    <3>2. Entry(q, journal[q.b].status)
      BY <1>3, <1>7, <3>1 DEF Consistent, Record
    <3> QED BY <3>1, <3>2 DEF Entry, Record
  <2> QED BY <1>5, <1>8, <2>1 DEF RoutingSound, TypeOK, world, Live
<1>13. PatJournaled'
  BY <1>3, <1>5, <1>7, <1>8
  DEF PatJournaled, world, Consistent, BindPoints, Record, Live
<1> QED BY <1>5, <1>9, <1>11, <1>12, <1>13 DEF TypeOK, HomesFirst, world, budget

\* Bind: the Profile's home, then its token.
LEMMA InvBindProfile ==
  ASSUME Inv, NEW w \in Requests, BindProfile(w) \/ BindPat(w)
  PROVE  Inv'
<1> USE DEF Inv
<1>1. req[w] # Idle
  BY DEF BindProfile, BindPat, At, Idle
<1>2. PICK q : q = req[w]
  OBVIOUS
<1>3. q \in Calls /\ Consistent(q) /\ \A v \in Requests \ {w} : req[v] = Idle
  BY <1>1, <1>2, Running
<1>4. q.b \in Bindings /\ q.p \in Profiles /\ q.u \in Users
  BY <1>3 DEF Calls
<1>5. CASE BindProfile(w)
  <2>1. PICK y : y = [q EXCEPT !.pc = "pat"]
    OBVIOUS
  <2>2. /\ req' = [req EXCEPT ![w] = y] /\ homes' = homes \cup {q.p}
        /\ UNCHANGED <<journal, routes, approved, pat, asked, codes, budget>>
    BY <1>2, <1>5, <2>1 DEF BindProfile, Goto
  <2>3. y \in Calls /\ y.b = q.b /\ y.p = q.p /\ y.u = q.u /\ y.pc = "pat"
    BY <1>3, <2>1 DEF Calls, BindPoints, Guarded
  <2>4. Consistent(y)'
    BY <1>2, <1>3, <1>5, <2>2, <2>3
    DEF BindProfile, At, Consistent, Entry, BindPoints, Guarded, Revocation
  <2>5. (req \in [Requests -> {Idle} \cup Calls])' /\ Mutex' /\ Progress'
    BY <1>3, <2>2, <2>3, <2>4, Onward
  <2> QED BY <1>4, <2>2, <2>5 DEF TypeOK, HomesFirst, RoutingSound, PatJournaled, budget
<1>6. CASE BindPat(w)
  <2>1. PICK y : y = [q EXCEPT !.pc = "grant"]
    OBVIOUS
  <2>2. /\ req' = [req EXCEPT ![w] = y] /\ pat' = pat \cup {q.p} /\ q.pc = "pat"
        /\ UNCHANGED <<journal, routes, approved, homes, asked, codes, budget>>
    BY <1>2, <1>6, <2>1 DEF BindPat, Goto, At
  <2>3. y \in Calls /\ y.b = q.b /\ y.p = q.p /\ y.u = q.u /\ y.pc = "grant"
    BY <1>3, <2>1 DEF Calls, BindPoints, Guarded
  <2>4. Consistent(y)'
    BY <1>3, <2>2, <2>3 DEF Consistent, Entry, BindPoints, Guarded, Revocation
  <2>5. (req \in [Requests -> {Idle} \cup Calls])' /\ Mutex' /\ Progress'
    BY <1>3, <2>2, <2>3, <2>4, Onward
  <2>6. PatJournaled'
    BY <1>3, <1>4, <2>2 DEF PatJournaled, Consistent, Guarded, Entry, Record, Live
  <2> QED BY <1>4, <2>2, <2>5, <2>6 DEF TypeOK, HomesFirst, RoutingSound, budget
<1> QED BY <1>5, <1>6

\* Bind: the two grants.
LEMMA InvBindGrant ==
  ASSUME Inv, NEW w \in Requests, BindGrant(w)
  PROVE  Inv'
<1> USE DEF Inv
<1>1. req[w] # Idle
  BY DEF BindGrant, At, Idle
<1>2. PICK q : q = req[w]
  OBVIOUS
<1>3. q \in Calls /\ Consistent(q) /\ \A v \in Requests \ {w} : req[v] = Idle
  BY <1>1, <1>2, Running
<1>4. q.b \in Bindings /\ q.p \in Profiles /\ q.u \in Users
  BY <1>3 DEF Calls
<1>5. PICK s \in {q.p, "default"}, pc \in {"default", "route"} :
        Grant(s, q.u) /\ Goto(w, pc) /\ q.pc \in {"grant", "default"}
  BY <1>2 DEF BindGrant, At
<1>6. UNCHANGED <<journal, routes, pat, homes, asked, codes, budget>>
  BY DEF BindGrant
<1>7. PICK y : y = [q EXCEPT !.pc = pc]
  OBVIOUS
<1>8. req' = [req EXCEPT ![w] = y]
  BY <1>2, <1>5, <1>7 DEF Goto
<1>9. y \in Calls /\ y.b = q.b /\ y.p = q.p /\ y.u = q.u /\ y.pc = pc
  BY <1>3, <1>7 DEF Calls, BindPoints, Guarded
<1>10. Consistent(y)'
  BY <1>3, <1>5, <1>6, <1>9 DEF Consistent, Entry, BindPoints, Guarded, Revocation
<1>11. (req \in [Requests -> {Idle} \cup Calls])' /\ Mutex' /\ Progress'
  BY <1>3, <1>8, <1>9, <1>10, Onward
<1>12. q.p \in homes
  BY <1>3, <1>5, <1>6 DEF Consistent, HomesFirst, BindPoints, Guarded
<1>13. approved' \in [Stores -> SUBSET Users] /\ HomesFirst'
  BY <1>4, <1>5, <1>6, <1>12, Bounds DEF TypeOK, HomesFirst, Grant, Stores
<1> QED BY <1>6, <1>11, <1>13 DEF TypeOK, RoutingSound, PatJournaled, budget

\* Bind: the new route replaces every route it conflicts with.
LEMMA InvBindRoute ==
  ASSUME Inv, NEW w \in Requests, BindRoute(w)
  PROVE  Inv'
<1> USE DEF Inv
<1>1. req[w] # Idle
  BY DEF BindRoute, At, Idle
<1>2. PICK q : q = req[w]
  OBVIOUS
<1>3. q \in Calls /\ Consistent(q) /\ \A v \in Requests \ {w} : req[v] = Idle
  BY <1>1, <1>2, Running
<1>4. q.b \in Bindings /\ q.p \in Profiles /\ q.u \in Users
  BY <1>3 DEF Calls
<1>5. PICK y : y = [q EXCEPT !.pc = "activate"]
  OBVIOUS
<1>6. PICK n : n = [name |-> q.b, prof |-> q.p, user |-> q.u]
  OBVIOUS
<1>7. /\ req' = [req EXCEPT ![w] = y] /\ q.pc = "route"
      /\ routes' = {r \in routes : ~Conflicts(r, q.b, q.p, q.u)} \cup {n}
      /\ UNCHANGED <<journal, approved, pat, homes, asked, codes, budget>>
  BY <1>2, <1>5, <1>6 DEF BindRoute, Goto, At
<1>8. y \in Calls /\ y.b = q.b /\ y.p = q.p /\ y.u = q.u /\ y.pc = "activate"
  BY <1>3, <1>5 DEF Calls, BindPoints
<1>9. Consistent(y)'
  BY <1>3, <1>7, <1>8 DEF Consistent, Entry, BindPoints, Guarded, Revocation
<1>10. (req \in [Requests -> {Idle} \cup Calls])' /\ Mutex' /\ Progress'
  BY <1>3, <1>7, <1>8, <1>9, Onward
<1>11. journal[q.b] = Record("provisioning", q.p, q.u)
  BY <1>3, <1>7 DEF Consistent, Guarded, Entry
<1>12. n \in [name : Bindings, prof : Profiles, user : Users]
       /\ n.name = q.b /\ n.prof = q.p /\ n.user = q.u
  BY <1>4, <1>6
<1>13. RoutingSound'
  <2>1. \A r \in routes' : r = n \/ (r \in routes /\ r.user # q.u /\ r.prof # q.p)
    BY <1>7 DEF Conflicts
  <2>2. (\A r1, r2 \in routes : r1.user = r2.user \/ r1.prof = r2.prof => r1 = r2)'
    BY <1>12, <2>1 DEF RoutingSound
  <2>3. (\A r \in routes : \E status \in Live : journal[r.name] = Record(status, r.prof, r.user))'
    <3> SUFFICES ASSUME NEW r \in routes'
                 PROVE  \E status \in Live : journal[r.name] = Record(status, r.prof, r.user)
      BY <1>7
    <3>1. CASE r = n
      BY <1>11, <1>12, <3>1 DEF Live
    <3>2. CASE r \in routes
      BY <3>2 DEF RoutingSound
    <3> QED BY <2>1, <3>1, <3>2
  <2> QED BY <2>2, <2>3 DEF RoutingSound
<1> QED BY <1>7, <1>10, <1>12, <1>13 DEF TypeOK, HomesFirst, PatJournaled, budget

\* Bind: the last journal entry, and the grant given back after a failure.
LEMMA InvBindEnd ==
  ASSUME Inv, NEW w \in Requests, BindActivate(w) \/ BindRollback(w)
  PROVE  Inv'
<1> USE DEF Inv
<1>1. req[w] # Idle
  BY DEF BindActivate, BindRollback, At, Idle
<1>2. PICK q : q = req[w]
  OBVIOUS
<1>3. q \in Calls /\ Consistent(q) /\ \A v \in Requests \ {w} : req[v] = Idle
  BY <1>1, <1>2, Running
<1>4. q.b \in Bindings /\ q.p \in Profiles /\ q.u \in Users
  BY <1>3 DEF Calls
<1>5. req' = [req EXCEPT ![w] = Idle]
  BY DEF BindActivate, BindRollback, End
<1>6. (req \in [Requests -> {Idle} \cup Calls])' /\ Mutex' /\ Progress'
  BY <1>3, <1>5, Onward
<1>7. CASE BindActivate(w)
  <2>1. /\ journal' = [journal EXCEPT ![q.b] = Record("active", q.p, q.u)]
        /\ UNCHANGED <<world, budget>> /\ q.pc = "activate"
    BY <1>2, <1>7 DEF BindActivate, Write, At
  <2>2. journal[q.b] = Record("provisioning", q.p, q.u)
    BY <1>3, <2>1 DEF Consistent, Entry
  <2>3. journal'[q.b] = Record("active", q.p, q.u)
        /\ \A c \in Bindings \ {q.b} : journal'[c] = journal[c]
    BY <1>4, <2>1 DEF TypeOK
  <2>4. journal' \in [Bindings -> {NoRecord} \cup [status : Statuses, prof : Profiles, user : Users]]
    BY <1>4, <2>1 DEF TypeOK, Record, Statuses, Live
  <2>5. RoutingSound'
    <3> SUFFICES ASSUME NEW r \in routes
                 PROVE  \E status \in Live : journal'[r.name] = Record(status, r.prof, r.user)
      BY <2>1 DEF RoutingSound, world
    <3>1. PICK status \in Live : journal[r.name] = Record(status, r.prof, r.user)
      BY DEF RoutingSound
    <3>2. r.name = q.b => r.prof = q.p /\ r.user = q.u
      BY <2>2, <3>1 DEF Record
    <3> QED BY <2>3, <3>1, <3>2 DEF TypeOK, Live
  <2>6. PatJournaled'
    BY <1>4, <2>1, <2>2, <2>3 DEF PatJournaled, world, Record, Live
  <2> QED BY <1>6, <2>1, <2>4, <2>5, <2>6 DEF TypeOK, HomesFirst, world, budget
<1>8. CASE BindRollback(w)
  <2>1. Revoke("default", q.u) /\ UNCHANGED <<journal, routes, pat, homes, asked, codes, budget>>
    BY <1>2, <1>8 DEF BindRollback
  <2>2. approved' \in [Stores -> SUBSET Users] /\ HomesFirst'
    BY <2>1, Bounds DEF TypeOK, HomesFirst, Revoke, Stores
  <2> QED BY <1>6, <2>1, <2>2 DEF TypeOK, RoutingSound, PatJournaled, budget
<1> QED BY <1>7, <1>8

\* Unbind: a known binding, or one the journal has never seen.
LEMMA InvUnbindStart ==
  ASSUME Inv, NEW w \in Requests, NEW b \in Bindings, NEW p \in Profiles, NEW u \in Users,
         UnbindStart(w, b, p, u)
  PROVE  Inv'
<1> USE DEF Inv
<1>0. \A v \in Requests : req[v] = Idle
  BY DEF UnbindStart, Free
<1>1. PICK pc \in {"unroute", "revoking"} :
        /\ Run(w, pc, b, p, u)
        /\ pc = "unroute" => journal[b].status = "none"
        /\ pc = "revoking" => /\ journal[b].status # "none"
                              /\ journal[b].prof = p /\ journal[b].user = u
  BY DEF UnbindStart
<1>2. PICK y : y = [pc |-> pc, b |-> b, p |-> p, u |-> u, was |-> journal[b].status]
  OBVIOUS
<1>3. journal[b].status \in {"none"} \cup Statuses
  BY DEF TypeOK, NoRecord
<1>4. y \in Calls
  BY <1>2, <1>3 DEF Calls, UnbindPoints, Revocation
<1>5. pc = "revoking" => journal[b] = Record(journal[b].status, p, u)
  BY <1>1 DEF TypeOK, Record, NoRecord
<1>6. UNCHANGED <<journal, world, budget>>
  BY DEF UnbindStart
<1>7. Consistent(y)'
  BY <1>1, <1>2, <1>5, <1>6 DEF Consistent, Entry, BindPoints, Guarded, Revocation
<1>8. (req \in [Requests -> {Idle} \cup Calls])' /\ Mutex' /\ Progress'
  BY <1>0, <1>1, <1>2, <1>4, <1>7, Onward DEF Run
<1> QED BY <1>6, <1>8 DEF TypeOK, HomesFirst, RoutingSound, PatJournaled, world, budget

\* Unbind: the journal entries before the first and after the last removal.
LEMMA InvUnbindJournal ==
  ASSUME Inv, NEW w \in Requests, UnbindJournal(w)
  PROVE  Inv'
<1> USE DEF Inv
<1>1. req[w] # Idle
  BY DEF UnbindJournal, At, Idle
<1>2. PICK q : q = req[w]
  OBVIOUS
<1>3. q \in Calls /\ Consistent(q) /\ \A v \in Requests \ {w} : req[v] = Idle
  BY <1>1, <1>2, Running
<1>4. q.b \in Bindings /\ q.p \in Profiles /\ q.u \in Users
  BY <1>3 DEF Calls
<1>5. UNCHANGED <<world, budget>>
  BY DEF UnbindJournal
<1>6. CASE q.pc = "revoking"
  <2>1. PICK y : y = [q EXCEPT !.pc = "unroute"]
    OBVIOUS
  <2>2. /\ req' = [req EXCEPT ![w] = y]
        /\ journal' = [journal EXCEPT ![q.b] = Record("revoking", q.p, q.u)]
    BY <1>2, <1>6, <2>1 DEF UnbindJournal, At, Write, Goto
  <2>3. y \in Calls /\ y.b = q.b /\ y.p = q.p /\ y.u = q.u /\ y.pc = "unroute" /\ y.was = q.was
    BY <1>3, <2>1 DEF Calls, UnbindPoints, Revocation
  <2>4. journal'[q.b] = Record("revoking", q.p, q.u)
        /\ \A c \in Bindings \ {q.b} : journal'[c] = journal[c]
    BY <1>4, <2>2 DEF TypeOK
  <2>5. journal[q.b] = Record(journal[q.b].status, q.p, q.u)
    BY <1>3, <1>6 DEF Consistent, Entry
  <2>6. q.was # "none"
    BY <1>3, <1>6 DEF Consistent
  <2>7. Consistent(y)'
    BY <2>3, <2>4, <2>6 DEF Consistent, Entry, BindPoints, Guarded, Revocation
  <2>8. (req \in [Requests -> {Idle} \cup Calls])' /\ Mutex' /\ Progress'
    BY <1>3, <2>2, <2>3, <2>7, Onward
  <2>9. journal' \in [Bindings -> {NoRecord} \cup [status : Statuses, prof : Profiles, user : Users]]
    BY <1>4, <2>2 DEF TypeOK, Record, Statuses, Live
  <2>10. RoutingSound'
    <3> SUFFICES ASSUME NEW r \in routes
                 PROVE  \E status \in Live : journal'[r.name] = Record(status, r.prof, r.user)
      BY <1>5 DEF RoutingSound, world
    <3>1. PICK status \in Live : journal[r.name] = Record(status, r.prof, r.user)
      BY DEF RoutingSound
    <3>2. r.name = q.b => r.prof = q.p /\ r.user = q.u
      BY <2>5, <3>1 DEF Record
    <3> QED BY <2>4, <3>1, <3>2 DEF TypeOK, Live
  <2>11. PatJournaled'
    BY <1>4, <1>5, <2>4, <2>5 DEF PatJournaled, world, Record, Live
  <2> QED BY <1>5, <2>8, <2>9, <2>10, <2>11 DEF TypeOK, HomesFirst, world, budget
<1>7. CASE q.pc = "revoked"
  <2>1. /\ req' = [req EXCEPT ![w] = Idle]
        /\ journal' = [journal EXCEPT ![q.b] = Record("revoked", q.p, q.u)]
    BY <1>2, <1>7 DEF UnbindJournal, At, Write, End
  <2>2. (req \in [Requests -> {Idle} \cup Calls])' /\ Mutex' /\ Progress'
    BY <1>3, <2>1, Onward
  <2>3. /\ journal[q.b] = Record("revoking", q.p, q.u)
        /\ Routeless(q.b) /\ q.p \notin pat
    BY <1>3, <1>7 DEF Consistent, Entry
  <2>4. journal'[q.b] = Record("revoked", q.p, q.u)
        /\ \A c \in Bindings \ {q.b} : journal'[c] = journal[c]
    BY <1>4, <2>1 DEF TypeOK
  <2>5. journal' \in [Bindings -> {NoRecord} \cup [status : Statuses, prof : Profiles, user : Users]]
    BY <1>4, <2>1 DEF TypeOK, Record, Statuses, Live
  <2>6. RoutingSound'
    BY <1>5, <2>3, <2>4 DEF RoutingSound, Routeless, TypeOK, world
  <2>7. PatJournaled'
    BY <1>5, <2>3, <2>4 DEF PatJournaled, world, Record
  <2> QED BY <1>5, <2>2, <2>5, <2>6, <2>7 DEF TypeOK, HomesFirst, world, budget
<1> QED BY <1>2, <1>6, <1>7 DEF UnbindJournal, At

\* Unbind: the route.
LEMMA InvUnbindRoute ==
  ASSUME Inv, NEW w \in Requests, UnbindRoute(w)
  PROVE  Inv'
<1> USE DEF Inv
<1>1. req[w] # Idle
  BY DEF UnbindRoute, At, Idle
<1>2. PICK q : q = req[w]
  OBVIOUS
<1>3. q \in Calls /\ Consistent(q) /\ \A v \in Requests \ {w} : req[v] = Idle
  BY <1>1, <1>2, Running
<1>4. q.b \in Bindings /\ q.p \in Profiles /\ q.u \in Users
  BY <1>3 DEF Calls
<1>5. PICK y : y = [q EXCEPT !.pc = "ungrant"]
  OBVIOUS
<1>6. /\ req' = [req EXCEPT ![w] = y] /\ q.pc = "unroute"
      /\ routes' = routes \ {[name |-> q.b, prof |-> q.p, user |-> q.u]}
      /\ UNCHANGED <<journal, approved, pat, homes, asked, codes, budget>>
  BY <1>2, <1>5 DEF UnbindRoute, Goto, At
<1>7. y \in Calls /\ y.b = q.b /\ y.p = q.p /\ y.u = q.u /\ y.pc = "ungrant" /\ y.was = q.was
  BY <1>3, <1>5 DEF Calls, UnbindPoints, Revocation
<1>8. IF q.was = "none" THEN journal[q.b].status = "none" ELSE journal[q.b] = Record("revoking", q.p, q.u)
  BY <1>3, <1>6 DEF Consistent, Entry, Revocation
<1>9. Routeless(q.b)'
  <2> SUFFICES ASSUME NEW r \in routes, r.name = q.b, r # [name |-> q.b, prof |-> q.p, user |-> q.u]
               PROVE  FALSE
    BY <1>6 DEF Routeless
  <2>1. PICK status \in Live : journal[q.b] = Record(status, r.prof, r.user)
    BY DEF RoutingSound
  <2>2. journal[q.b].status # "none"
    BY <2>1 DEF Record, Live
  <2>3. r.prof = q.p /\ r.user = q.u
    BY <1>8, <2>1, <2>2 DEF Record
  <2>4. r \in [name : Bindings, prof : Profiles, user : Users]
    BY DEF TypeOK
  <2> QED BY <2>3, <2>4
<1>10. Consistent(y)'
  BY <1>6, <1>7, <1>8, <1>9 DEF Consistent, Entry, BindPoints, Guarded, Revocation
<1>11. (req \in [Requests -> {Idle} \cup Calls])' /\ Mutex' /\ Progress'
  BY <1>3, <1>6, <1>7, <1>10, Onward
<1> QED BY <1>6, <1>11 DEF TypeOK, HomesFirst, RoutingSound, PatJournaled, budget

\* Unbind: the two grants.
LEMMA InvUnbindRevoke ==
  ASSUME Inv, NEW w \in Requests, UnbindRevoke(w)
  PROVE  Inv'
<1> USE DEF Inv
<1>1. req[w] # Idle
  BY DEF UnbindRevoke, At, Idle
<1>2. PICK q : q = req[w]
  OBVIOUS
<1>3. q \in Calls /\ Consistent(q) /\ \A v \in Requests \ {w} : req[v] = Idle
  BY <1>1, <1>2, Running
<1>4. q.b \in Bindings /\ q.p \in Profiles /\ q.u \in Users
  BY <1>3 DEF Calls
<1>5. UNCHANGED <<journal, routes, pat, homes, asked, codes, budget>>
  BY DEF UnbindRevoke
<1>6. PICK pc \in {"undefault", "unpat"} :
        /\ Goto(w, pc)
        /\ IF pc = "undefault"
           THEN /\ q.pc = "ungrant"
                /\ IF q.p \in homes THEN Revoke(q.p, q.u) ELSE UNCHANGED approved
           ELSE q.pc = "undefault" /\ Revoke("default", q.u)
  BY <1>2 DEF UnbindRevoke, At
<1>7. PICK y : y = [q EXCEPT !.pc = pc]
  OBVIOUS
<1>8. req' = [req EXCEPT ![w] = y]
  BY <1>2, <1>6, <1>7 DEF Goto
<1>9. y \in Calls /\ y.b = q.b /\ y.p = q.p /\ y.u = q.u /\ y.pc = pc /\ y.was = q.was
  BY <1>3, <1>7 DEF Calls, UnbindPoints, Revocation
<1>10. IF q.was = "none" THEN journal[q.b].status = "none" ELSE journal[q.b] = Record("revoking", q.p, q.u)
  BY <1>3, <1>6 DEF Consistent, Entry, Revocation
<1>11. Routeless(q.b)
  BY <1>3, <1>6 DEF Consistent
<1>12. /\ approved' \in [Stores -> SUBSET Users] /\ HomesFirst'
       /\ q.u \notin approved'[q.p]
       /\ pc = "unpat" => q.u \notin approved'["default"]
  <2>1. CASE pc = "undefault"
    BY <1>4, <1>5, <1>6, <2>1, Bounds DEF TypeOK, HomesFirst, Revoke, Stores
  <2>2. CASE pc = "unpat"
    <3>1. q.u \notin approved[q.p]
      BY <1>3, <1>6, <2>2 DEF Consistent
    <3> QED BY <1>4, <1>5, <1>6, <2>2, <3>1, Bounds DEF TypeOK, HomesFirst, Revoke, Stores
  <2> QED BY <2>1, <2>2
<1>13. Consistent(y)'
  BY <1>5, <1>6, <1>9, <1>10, <1>11, <1>12
  DEF Consistent, Entry, Routeless, BindPoints, Guarded, Revocation
<1>14. (req \in [Requests -> {Idle} \cup Calls])' /\ Mutex' /\ Progress'
  BY <1>3, <1>8, <1>9, <1>13, Onward
<1> QED BY <1>5, <1>12, <1>14 DEF TypeOK, RoutingSound, PatJournaled, budget

\* Unbind: the token.
LEMMA InvUnbindPat ==
  ASSUME Inv, NEW w \in Requests, UnbindPat(w)
  PROVE  Inv'
<1> USE DEF Inv
<1>1. req[w] # Idle
  BY DEF UnbindPat, At, Idle
<1>2. PICK q : q = req[w]
  OBVIOUS
<1>3. q \in Calls /\ Consistent(q) /\ \A v \in Requests \ {w} : req[v] = Idle
  BY <1>1, <1>2, Running
<1>4. q.b \in Bindings /\ q.p \in Profiles /\ q.u \in Users
  BY <1>3 DEF Calls
<1>5. PICK y : y = [q EXCEPT !.pc = "cleanup"]
  OBVIOUS
<1>6. /\ req' = [req EXCEPT ![w] = y] /\ q.pc = "unpat" /\ pat' = pat \ {q.p}
      /\ UNCHANGED <<journal, routes, approved, homes, asked, codes, budget>>
  BY <1>2, <1>5 DEF UnbindPat, Goto, At
<1>7. y \in Calls /\ y.b = q.b /\ y.p = q.p /\ y.u = q.u /\ y.pc = "cleanup" /\ y.was = q.was
  BY <1>3, <1>5 DEF Calls, UnbindPoints, Revocation
<1>8. Consistent(y)'
  BY <1>3, <1>6, <1>7 DEF Consistent, Entry, Routeless, BindPoints, Guarded, Revocation
<1>9. (req \in [Requests -> {Idle} \cup Calls])' /\ Mutex' /\ Progress'
  BY <1>3, <1>6, <1>7, <1>8, Onward
<1> QED BY <1>6, <1>9 DEF TypeOK, HomesFirst, RoutingSound, PatJournaled, budget

\* Unbind: the cleanup request.
LEMMA InvUnbindCleanup ==
  ASSUME Inv, NEW w \in Requests, UnbindCleanup(w)
  PROVE  Inv'
<1> USE DEF Inv
<1>1. req[w] # Idle
  BY DEF UnbindCleanup, At, Idle
<1>2. PICK q : q = req[w]
  OBVIOUS
<1>3. q \in Calls /\ Consistent(q) /\ \A v \in Requests \ {w} : req[v] = Idle
  BY <1>1, <1>2, Running
<1>4. q.b \in Bindings /\ q.p \in Profiles /\ q.u \in Users
  BY <1>3 DEF Calls
<1>5. /\ asked' = asked \cup ({q.p} \cap homes) /\ q.pc = "cleanup"
      /\ UNCHANGED <<journal, routes, approved, pat, homes, codes, budget>>
  BY <1>2 DEF UnbindCleanup, At
<1>6. CASE q.was = "none"
  <2>1. req' = [req EXCEPT ![w] = Idle]
    BY <1>2, <1>6 DEF UnbindCleanup, End
  <2>2. (req \in [Requests -> {Idle} \cup Calls])' /\ Mutex' /\ Progress'
    BY <1>3, <2>1, Onward
  <2> QED BY <1>4, <1>5, <2>2 DEF TypeOK, HomesFirst, RoutingSound, PatJournaled, budget
<1>7. CASE q.was # "none"
  <2>1. PICK y : y = [q EXCEPT !.pc = "revoked"]
    OBVIOUS
  <2>2. req' = [req EXCEPT ![w] = y]
    BY <1>2, <1>7, <2>1 DEF UnbindCleanup, Goto
  <2>3. y \in Calls /\ y.b = q.b /\ y.p = q.p /\ y.u = q.u /\ y.pc = "revoked" /\ y.was = q.was
    BY <1>3, <2>1 DEF Calls, UnbindPoints
  <2>4. Consistent(y)'
    BY <1>3, <1>5, <1>7, <2>3
    DEF Consistent, Entry, Routeless, BindPoints, Guarded, Revocation
  <2>5. (req \in [Requests -> {Idle} \cup Calls])' /\ Mutex' /\ Progress'
    BY <1>3, <2>2, <2>3, <2>4, Onward
  <2> QED BY <1>4, <1>5, <2>5 DEF TypeOK, HomesFirst, RoutingSound, PatJournaled, budget
<1> QED BY <1>6, <1>7

\* A side effect raises: the request ends, or goes on to give the default grant back.
LEMMA InvRaise ==
  ASSUME Inv, NEW w \in Requests, Raise(w)
  PROVE  Inv'
<1> USE DEF Inv
<1>1. req[w] # Idle
  BY DEF Raise, At, Idle
<1>2. PICK q : q = req[w]
  OBVIOUS
<1>3. q \in Calls /\ Consistent(q) /\ \A v \in Requests \ {w} : req[v] = Idle
  BY <1>1, <1>2, Running
<1>4. q.b \in Bindings /\ q.p \in Profiles /\ q.u \in Users
  BY <1>3 DEF Calls
<1>5. /\ homes \subseteq homes' /\ homes' \subseteq homes \cup {q.p}
      /\ faults' \in 0..MaxFaults
      /\ UNCHANGED <<journal, routes, approved, pat, asked, codes, issued, crashes>>
  BY <1>2, Bounds DEF Raise, TypeOK
<1>6. CASE q.pc \in Guarded /\ q.was # "active"
  <2>1. PICK y : y = [q EXCEPT !.pc = "rollback"]
    OBVIOUS
  <2>2. req' = [req EXCEPT ![w] = y]
    BY <1>2, <1>6, <2>1 DEF Raise, Goto
  <2>3. y \in Calls /\ y.b = q.b /\ y.p = q.p /\ y.u = q.u /\ y.pc = "rollback"
    BY <1>3, <2>1 DEF Calls, BindPoints
  <2>4. Consistent(y)'
    BY <1>3, <1>5, <1>6, <2>3 DEF Consistent, Entry, BindPoints, Guarded, Revocation
  <2>5. (req \in [Requests -> {Idle} \cup Calls])' /\ Mutex' /\ Progress'
    BY <1>3, <2>2, <2>3, <2>4, Onward
  <2> QED BY <1>4, <1>5, <2>5 DEF TypeOK, HomesFirst, RoutingSound, PatJournaled
<1>7. CASE ~(q.pc \in Guarded /\ q.was # "active")
  <2>1. req' = [req EXCEPT ![w] = Idle]
    BY <1>2, <1>7 DEF Raise, End
  <2>2. (req \in [Requests -> {Idle} \cup Calls])' /\ Mutex' /\ Progress'
    BY <1>3, <2>1, Onward
  <2> QED BY <1>4, <1>5, <2>2 DEF TypeOK, HomesFirst, RoutingSound, PatJournaled
<1> QED BY <1>6, <1>7

\* What happens around the service: the crash, pairing codes, the QR login's Profile.
LEMMA InvAround ==
  ASSUME Inv, \/ Crash
              \/ \E u \in Users, s \in Stores : IssueCode(u, s)
              \/ \E p \in Profiles : QrProfile(p)
              \/ UNCHANGED vars
  PROVE  Inv'
<1> USE DEF Inv
<1>1. CASE Crash
  <2>1. (req \in [Requests -> {Idle} \cup Calls])' /\ Mutex' /\ Progress'
    BY <1>1 DEF Crash, Mutex, Progress
  <2> QED BY <1>1, <2>1, Bounds DEF Crash, TypeOK, HomesFirst, RoutingSound, PatJournaled, world
<1>2. ASSUME NEW u \in Users, NEW s \in Stores, IssueCode(u, s)
      PROVE  Inv'
  <2>1. Mutex' /\ Progress'
    BY <1>2 DEF IssueCode, Mutex, Progress, Consistent, Entry, Unclaimed, Routeless
  <2>2. issued' \in 0..MaxCodes /\ codes' \subseteq [user : Users, store : Stores]
    BY <1>2, Bounds DEF IssueCode, TypeOK
  <2> QED BY <1>2, <2>1, <2>2 DEF IssueCode, TypeOK, HomesFirst, RoutingSound, PatJournaled
<1>3. ASSUME NEW p \in Profiles, QrProfile(p)
      PROVE  Inv'
  <2>1. Mutex' /\ Progress'
    BY <1>3 DEF QrProfile, Mutex, Progress, Consistent, Entry, Unclaimed, Routeless
  <2> QED BY <1>3, <2>1 DEF QrProfile, TypeOK, HomesFirst, RoutingSound, PatJournaled, budget
<1>4. CASE UNCHANGED vars
  BY <1>4 DEF vars, world, budget, TypeOK, Mutex, Progress, Consistent, Entry, Unclaimed,
              Routeless, HomesFirst, RoutingSound, PatJournaled
<1> QED BY <1>1, <1>2, <1>3, <1>4

\* Every step keeps the inductive invariant.
LEMMA InvNext == Inv /\ [Next]_vars => Inv'
<1> SUFFICES ASSUME Inv, [Next]_vars PROVE Inv'
  OBVIOUS
<1>1. ASSUME NEW w \in Requests, BindStep(w) PROVE Inv'
  BY <1>1, InvBindCheck, InvBindJournal, InvBindProfile, InvBindGrant, InvBindRoute, InvBindEnd
  DEF BindStep
<1>2. ASSUME NEW w \in Requests, UnbindStep(w) PROVE Inv'
  BY <1>2, InvUnbindJournal, InvUnbindRoute, InvUnbindRevoke, InvUnbindPat, InvUnbindCleanup
  DEF UnbindStep
<1>3. ASSUME NEW b \in Bindings, Unbind(b) PROVE Inv'
  BY <1>3, InvUnbindStart DEF Unbind
<1> QED BY <1>1, <1>2, <1>3, InvBindStart, InvRaise, InvAround DEF Next

\* Every reachable state satisfies the inductive invariant.
LEMMA InvAlways == Spec => []Inv
BY InvInit, InvNext, PTL DEF Spec

\* The journal, the routes, the grants and the requests keep their types.
THEOREM BindingTypeCorrect == Spec => []TypeOK
BY InvAlways, PTL DEF Inv

\* _route_conflicts, the journal entry before the route and the route's removal before
\* the "revoked" entry together keep every route unique and journaled.
THEOREM RoutesAreSound == Spec => []RoutingSound
BY InvAlways, PTL DEF Inv

\* No failure or crash leaves an employee token that no unbind would remove.
THEOREM TokensAreJournaled == Spec => []PatJournaled
BY InvAlways, PTL DEF Inv

\* The mutation lock makes find_active_user and the journal entry one step.
THEOREM ClaimsAreExclusive == Spec => ClaimExclusive
<1>1. Inv /\ [Next]_vars =>
        [\A b \in Bindings :
           journal[b].status \notin Live /\ journal'[b].status \in {"provisioning", "active"} =>
             \A c \in Bindings \ {b} :
               journal[c].user = journal'[b].user => journal[c].status \notin Live]_vars
  <2> SUFFICES ASSUME Inv, Next, NEW b \in Bindings, journal[b].status \notin Live,
                      journal'[b].status \in {"provisioning", "active"},
                      NEW c \in Bindings \ {b}, journal[c].user = journal'[b].user
               PROVE  journal[c].status \notin Live
    OBVIOUS
  <2> USE DEF Inv
  <2>1. PICK w \in Requests : BindJournal(w) \/ BindActivate(w) \/ UnbindJournal(w)
    BY DEF Next, BindStep, UnbindStep, Unbind, BindStart, BindCheck, BindProfile, BindPat,
           BindGrant, BindRoute, BindRollback, UnbindStart, UnbindRoute, UnbindRevoke, UnbindPat,
           UnbindCleanup, Raise, Crash, IssueCode, QrProfile, Live, world
  <2>2. req[w] # Idle
    BY <2>1 DEF BindJournal, BindActivate, UnbindJournal, At, Idle
  <2>3. PICK q : q = req[w]
    OBVIOUS
  <2>4. q \in Calls /\ Consistent(q)
    BY <2>2, <2>3, Running
  <2>5. PICK status : journal' = [journal EXCEPT ![q.b] = Record(status, q.p, q.u)]
    BY <2>1, <2>3 DEF BindJournal, BindActivate, UnbindJournal, Write
  <2>6. b = q.b /\ journal'[b] = Record(status, q.p, q.u)
    BY <2>4, <2>5 DEF TypeOK, Live
  <2>7. status \in {"provisioning", "active"} /\ journal'[b].user = q.u
    BY <2>6 DEF Record
  <2>8. q.pc \in {"journal", "activate"}
    <3>1. CASE UnbindJournal(w)
      <4>1. PICK st \in {"revoking", "revoked"} : journal' = [journal EXCEPT ![q.b] = Record(st, q.p, q.u)]
        BY <2>3, <3>1 DEF UnbindJournal, Write
      <4> QED BY <2>4, <2>6, <4>1 DEF TypeOK, Record
    <3> QED BY <2>1, <2>3, <3>1 DEF BindJournal, BindActivate, At
  <2>9. Unclaimed(q)
    BY <2>4, <2>6, <2>8 DEF Consistent, Entry, Record, Live
  <2> QED BY <2>6, <2>7, <2>9 DEF Unclaimed
<1> QED BY <1>1, InvAlways, PTL DEF ClaimExclusive, Spec

\* The order of _unbind_sync under the mutation lock: "revoked" is written last.
THEOREM RevokedIsClean == Spec => RevokedMeansRemoved
<1> DEFINE Done(b) ==
      LET r == journal'[b]
      IN journal[b] # r /\ r.status = "revoked" =>
           /\ \A x \in routes : x.name # b
           /\ r.user \notin approved["default"] /\ r.prof \notin pat
           /\ r.prof \in homes => r.user \notin approved[r.prof]
<1>1. Inv /\ [Next]_vars => [\A b \in Bindings : Done(b)]_vars
  <2> SUFFICES ASSUME Inv, Next, NEW b \in Bindings, journal[b] # journal'[b],
                      journal'[b].status = "revoked"
               PROVE  /\ Routeless(b)
                      /\ journal'[b].user \notin approved["default"] /\ journal'[b].prof \notin pat
                      /\ journal'[b].user \notin approved[journal'[b].prof]
    BY DEF Routeless
  <2> USE DEF Inv
  <2>1. PICK w \in Requests : BindJournal(w) \/ BindActivate(w) \/ UnbindJournal(w)
    BY DEF Next, BindStep, UnbindStep, Unbind, BindStart, BindCheck, BindProfile, BindPat,
           BindGrant, BindRoute, BindRollback, UnbindStart, UnbindRoute, UnbindRevoke, UnbindPat,
           UnbindCleanup, Raise, Crash, IssueCode, QrProfile, world
  <2>2. req[w] # Idle
    BY <2>1 DEF BindJournal, BindActivate, UnbindJournal, At, Idle
  <2>3. PICK q : q = req[w]
    OBVIOUS
  <2>4. q \in Calls /\ Consistent(q)
    BY <2>2, <2>3, Running
  <2>5. PICK status \in {"provisioning", "active", "revoking", "revoked"} :
          /\ journal' = [journal EXCEPT ![q.b] = Record(status, q.p, q.u)]
          /\ status = "revoked" => q.pc = "revoked"
    BY <2>1, <2>3 DEF BindJournal, BindActivate, UnbindJournal, Write, At
  <2>6. b = q.b /\ journal'[b] = Record(status, q.p, q.u)
    BY <2>4, <2>5 DEF TypeOK
  <2>7. q.pc = "revoked" /\ journal'[b].user = q.u /\ journal'[b].prof = q.p
    BY <2>5, <2>6 DEF Record
  <2> QED BY <2>4, <2>6, <2>7 DEF Consistent
<1> QED BY <1>1, InvAlways, PTL DEF RevokedMeansRemoved, Spec

-----------------------------------------------------------------------------
\* Writing the route of a binding displaces exactly the pairs of its Profile and of its user:
\* the binding's own earlier route names the same Profile, as the journal entry shows.
LEMMA RouteBinds ==
  ASSUME Inv, NEW w \in Requests, BindRoute(w)
  PROVE  Table!Next
<1> USE DEF Inv
<1>1. PICK q : q = req[w]
  OBVIOUS
<1>2. req[w] # Idle /\ q.pc = "route"
  BY <1>1 DEF BindRoute, At, Idle
<1>3. q \in Calls /\ Consistent(q)
  BY <1>1, <1>2, Running
<1>4. q.b \in Bindings /\ q.p \in Profiles /\ q.u \in Users
  BY <1>3 DEF Calls
<1>5. journal[q.b] = Record("provisioning", q.p, q.u)
  BY <1>2, <1>3 DEF Consistent, Entry, Guarded
<1>6. routes' = {r \in routes : ~Conflicts(r, q.b, q.p, q.u)}
                  \cup {[name |-> q.b, prof |-> q.p, user |-> q.u]}
  BY <1>1 DEF BindRoute
<1>7. ASSUME NEW r \in routes, r.name = q.b PROVE r.prof = q.p
  <2>1. PICK status \in Live : journal[r.name] = Record(status, r.prof, r.user)
    BY DEF RoutingSound
  <2>2. Record(status, r.prof, r.user) = Record("provisioning", q.p, q.u)
    BY <1>5, <1>7, <2>1
  <2>3. Record(status, r.prof, r.user).prof = r.prof
    BY DEF Record
  <2>4. Record("provisioning", q.p, q.u).prof = q.p
    BY DEF Record
  <2> QED BY <2>2, <2>3, <2>4
<1>8. \A r \in routes : Conflicts(r, q.b, q.p, q.u) <=> r.prof = q.p \/ r.user = q.u
  BY <1>7 DEF Conflicts
<1>9. Pairs' = {[prof |-> r.prof, user |-> r.user] : r \in routes'}
  BY DEF Pairs
<1>10. Pairs' = {x \in Pairs : x.prof # q.p /\ x.user # q.u} \cup {Table!Route(q.p, q.u)}
  <2>1. ASSUME NEW x \in Pairs'
        PROVE  x \in {y \in Pairs : y.prof # q.p /\ y.user # q.u} \cup {Table!Route(q.p, q.u)}
    <3>1. PICK r \in routes' : x = [prof |-> r.prof, user |-> r.user]
      BY <1>9, <2>1
    <3>2. CASE r \in routes /\ ~Conflicts(r, q.b, q.p, q.u)
      BY <1>8, <3>1, <3>2 DEF Pairs
    <3>3. CASE r = [name |-> q.b, prof |-> q.p, user |-> q.u]
      BY <3>1, <3>3 DEF Table!Route
    <3> QED BY <1>6, <3>1, <3>2, <3>3
  <2>2. ASSUME NEW x \in Pairs, x.prof # q.p, x.user # q.u
        PROVE  x \in Pairs'
    <3>1. PICK r \in routes : x = [prof |-> r.prof, user |-> r.user]
      BY <2>2 DEF Pairs
    <3>2. r.prof # q.p /\ r.user # q.u
      BY <2>2, <3>1
    <3>3. r \in routes'
      BY <1>6, <1>8, <3>1, <3>2
    <3> QED BY <1>9, <3>1, <3>3
  <2>3. Table!Route(q.p, q.u) \in Pairs'
    <3>1. PICK r : r = [name |-> q.b, prof |-> q.p, user |-> q.u]
      OBVIOUS
    <3>2. r \in routes' /\ r.prof = q.p /\ r.user = q.u
      BY <1>6, <3>1
    <3> QED BY <1>9, <3>2 DEF Table!Route
  <2> QED BY <2>1, <2>2, <2>3
<1> QED BY <1>4, <1>10 DEF Table!Next, Table!Bind

\* Removing a binding's route removes one pair or, when there is no such route, nothing.
LEMMA RouteUnbinds ==
  ASSUME Inv, NEW w \in Requests, UnbindRoute(w)
  PROVE  Table!Next \/ UNCHANGED Pairs
<1> USE DEF Inv
<1>1. PICK q : q = req[w]
  OBVIOUS
<1>2. req[w] # Idle
  BY DEF UnbindRoute, At, Idle
<1>3. q.p \in Profiles /\ q.u \in Users
  BY <1>1, <1>2, Running DEF Calls
<1>4. PICK x : x = [name |-> q.b, prof |-> q.p, user |-> q.u]
  OBVIOUS
<1>5. routes' = routes \ {x}
  BY <1>1, <1>4 DEF UnbindRoute
<1>6. Pairs' = {[prof |-> r.prof, user |-> r.user] : r \in routes'}
  BY DEF Pairs
<1>7. CASE x \notin routes
  <2>1. routes' = routes
    BY <1>5, <1>7
  <2> QED BY <1>6, <2>1 DEF Pairs
<1>8. CASE x \in routes
  <2>1. \A r \in routes : r.prof = q.p => r = x
    BY <1>4, <1>8 DEF RoutingSound
  <2>2. ASSUME NEW y
        PROVE  y \in Pairs' <=> y \in Pairs /\ y # Table!Route(q.p, q.u)
    <3>1. ASSUME y \in Pairs' PROVE y \in Pairs /\ y # Table!Route(q.p, q.u)
      <4>1. PICK r \in routes' : y = [prof |-> r.prof, user |-> r.user]
        BY <1>6, <3>1
      <4>2. r \in routes /\ r.prof # q.p
        BY <1>5, <2>1, <4>1
      <4>3. y.prof = r.prof
        BY <4>1
      <4>4. Table!Route(q.p, q.u).prof = q.p
        BY DEF Table!Route
      <4>5. y \in Pairs
        BY <4>1, <4>2 DEF Pairs
      <4> QED BY <4>2, <4>3, <4>4, <4>5
    <3>2. ASSUME y \in Pairs, y # Table!Route(q.p, q.u) PROVE y \in Pairs'
      <4>1. PICK r \in routes : y = [prof |-> r.prof, user |-> r.user]
        BY <3>2 DEF Pairs
      <4>2. r # x
        BY <1>4, <3>2, <4>1 DEF Table!Route
      <4> QED BY <1>5, <1>6, <4>1, <4>2
    <3> QED BY <3>1, <3>2
  <2>3. Pairs' = Pairs \ {Table!Route(q.p, q.u)}
    BY <2>2
  <2> QED BY <1>3, <2>3 DEF Table!Next, Table!Unbind
<1> QED BY <1>7, <1>8

\* Whatever fails, overlaps or dies, the Gateway sees an atomic one-to-one table: every step
\* of the service binds a pair, removes one, or leaves the table alone.
THEOREM ServiceImplementsTable == Spec => ImplementsTable
<1>1. Init => Table!Init
  BY DEF Init, Table!Init, Pairs
<1>2. Inv /\ [Next]_vars => [Table!Next]_Pairs
  <2> SUFFICES ASSUME Inv, [Next]_vars PROVE Table!Next \/ UNCHANGED Pairs
    OBVIOUS
  <2>1. ASSUME NEW w \in Requests, BindRoute(w) PROVE Table!Next
    BY <2>1, RouteBinds
  <2>2. ASSUME NEW w \in Requests, UnbindRoute(w) PROVE Table!Next \/ UNCHANGED Pairs
    BY <2>2, RouteUnbinds
  <2>3. CASE UNCHANGED routes
    BY <2>3 DEF Pairs
  <2>4. (\E w \in Requests : BindRoute(w) \/ UnbindRoute(w)) \/ UNCHANGED routes
    BY DEF Next, BindStep, UnbindStep, Unbind, BindStart, BindCheck, BindJournal, BindProfile,
           BindPat, BindGrant, BindActivate, BindRollback, UnbindStart, UnbindJournal,
           UnbindRevoke, UnbindPat, UnbindCleanup, Raise, Crash, IssueCode, QrProfile, world, vars
  <2> QED BY <2>1, <2>2, <2>3, <2>4
<1> QED BY <1>1, <1>2, InvAlways, PTL DEF Spec, ImplementsTable, Table!Spec
=============================================================================
