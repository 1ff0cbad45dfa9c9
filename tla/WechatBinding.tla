---------------------------- MODULE WechatBinding ----------------------------
(***************************************************************************)
(* The binding service of the WeChat provisioner: bind and unbind requests *)
(* that run one at a time under _mutation_lock, each a sequence of durable *)
(* side effects (journal, Profile home, PAT, pairing grants, route) any of *)
(* which may raise, in a process that may die between any two of them.     *)
(* A Profile name is derived from the employee's id, so a Profile stands   *)
(* for its employee.  A request refused before its first side effect       *)
(* changes nothing and is no action.                                       *)
(***************************************************************************)
EXTENDS Naturals

CONSTANTS
  Requests,     \* HTTP requests that may be in flight together
  Bindings,     \* binding ids, chosen by the RAG application
  Profiles,     \* employee Profiles
  Users,        \* WeChat users
  MaxCodes,     \* bound: pairing codes Hermes hands out
  MaxFaults,    \* bound: side effects that raise
  MaxCrashes    \* bound: deaths of the provisioner process

Stores == Profiles \cup {"default"}      \* pairing stores
Live == {"provisioning", "active", "revoking"}
Statuses == Live \cup {"revoked"}

ASSUME Bounds ==
  /\ {MaxCodes, MaxFaults, MaxCrashes} \subseteq Nat
  /\ "none" \notin Users \cup Profiles \cup Bindings /\ "default" \notin Profiles

VARIABLES
  journal,    \* the durable state file: the record of each binding
  routes,     \* gateway.profile_routes: [name, prof, user]
  approved,   \* users granted in each pairing store
  pat,        \* Profiles whose .env holds an employee token
  homes,      \* Profiles whose directory exists
  asked,      \* Profiles whose cleanup request was written (AttachmentCache removes it)
  codes,      \* pairing codes not used yet: [user, store]
  req,        \* each request's control point, parameters and the status it found
  issued, faults, crashes

budget == <<issued, faults, crashes>>
world == <<routes, approved, pat, homes, asked, codes>>
vars == <<journal, world, req, budget>>

NoRecord == [status |-> "none", prof |-> "none", user |-> "none"]
Record(status, p, u) == [status |-> status, prof |-> p, user |-> u]
Idle == [pc |-> "idle", b |-> "none", p |-> "none", u |-> "none", was |-> "none"]

\* (mutant) bind and unbind run without the mutation lock
Free_NoLock(w) == req[w] = Idle

\* _mutation_lock is held from a request's first side effect to its end
Free(w) == \A v \in Requests : req[v] = Idle

At(w, pc) == req[w].pc = pc
Goto(w, pc) == req' = [req EXCEPT ![w].pc = pc]
End(w) == req' = [req EXCEPT ![w] = Idle]
Run(w, pc, b, p, u) ==
  req' = [req EXCEPT ![w] = [pc |-> pc, b |-> b, p |-> p, u |-> u, was |-> journal[b].status]]
Write(w, status) ==
  journal' = [journal EXCEPT ![req[w].b] = Record(status, req[w].p, req[w].u)]
Grant(s, u) == approved' = [approved EXCEPT ![s] = @ \cup {u}]
Revoke(s, u) == approved' = [approved EXCEPT ![s] = @ \ {u}]

-----------------------------------------------------------------------------
(* _bind_sync                                                                  *)

\* A known live binding keeps its user; any other needs a pairing code, which Hermes
\* looks up in the Profile's store, if the Profile exists, and in the default store.
BindStart(w, b, p) ==
  /\ Free(w)
  /\ journal[b].status = "none" \/ journal[b].prof = p
  /\ \/ /\ journal[b].status \in Live
        /\ Run(w, "journal", b, p, journal[b].user)
        /\ UNCHANGED <<approved, codes>>
     \/ /\ journal[b].status \notin Live
        /\ \E c \in codes :
             /\ c.store = "default" \/ (c.store = p /\ p \in homes)
             /\ Grant(c.store, c.user)
             /\ codes' = codes \ {c}
             /\ Run(w, "check", b, p, c.user)
  /\ UNCHANGED <<journal, routes, pat, homes, asked, budget>>

\* find_active_user: the user is already bound, its default grant is revoked
BindCheck(w) ==
  /\ At(w, "check")
  /\ IF \E b \in Bindings : journal[b].user = req[w].u /\ journal[b].status \in Live
     THEN Revoke("default", req[w].u) /\ End(w)
     ELSE UNCHANGED approved /\ Goto(w, "journal")
  /\ UNCHANGED <<journal, routes, pat, homes, asked, codes, budget>>

BindJournal(w) ==
  /\ At(w, "journal")
  /\ Write(w, "provisioning") /\ Goto(w, "profile")
  /\ UNCHANGED <<world, budget>>

BindProfile(w) ==
  /\ At(w, "profile")
  /\ homes' = homes \cup {req[w].p} /\ Goto(w, "pat")
  /\ UNCHANGED <<journal, routes, approved, pat, asked, codes, budget>>

BindPat(w) ==
  /\ At(w, "pat")
  /\ pat' = pat \cup {req[w].p} /\ Goto(w, "grant")
  /\ UNCHANGED <<journal, routes, approved, homes, asked, codes, budget>>

BindGrant(w) ==
  /\ \/ At(w, "grant") /\ Grant(req[w].p, req[w].u) /\ Goto(w, "default")
     \/ At(w, "default") /\ Grant("default", req[w].u) /\ Goto(w, "route")
  /\ UNCHANGED <<journal, routes, pat, homes, asked, codes, budget>>

\* (mutant) a route of another binding for the same chat is kept
Conflicts_ByNameOrProfile(r, b, p, u) == r.name = b \/ r.prof = p

\* _route_conflicts; every route here is a managed one
Conflicts(r, b, p, u) == r.name = b \/ r.user = u \/ r.prof = p

BindRoute(w) ==
  /\ At(w, "route")
  /\ LET q == req[w]
     IN routes' = {r \in routes : ~Conflicts(r, q.b, q.p, q.u)}
                    \cup {[name |-> q.b, prof |-> q.p, user |-> q.u]}
  /\ Goto(w, "activate")
  /\ UNCHANGED <<journal, approved, pat, homes, asked, codes, budget>>

\* (mutant) a status the journal's reader rejects
BindActivate_Bound(w) ==
  /\ At(w, "activate")
  /\ Write(w, "bound") /\ End(w)
  /\ UNCHANGED <<world, budget>>

BindActivate(w) ==
  /\ At(w, "activate")
  /\ Write(w, "active") /\ End(w)
  /\ UNCHANGED <<world, budget>>

\* _best_effort_revoke_default after a failure
BindRollback(w) ==
  /\ At(w, "rollback")
  /\ Revoke("default", req[w].u) /\ End(w)
  /\ UNCHANGED <<journal, routes, pat, homes, asked, codes, budget>>

-----------------------------------------------------------------------------
(* _unbind_sync                                                                *)

\* (mutant) an unbind already under way is not accepted again
UnbindStart_Once(w, b, p, u) ==
  /\ Free(w)
  /\ \/ journal[b].status = "none" /\ Run(w, "unroute", b, p, u)
     \/ /\ journal[b].status \notin {"none", "revoking"} /\ journal[b].prof = p /\ journal[b].user = u
        /\ Run(w, "revoking", b, p, u)
  /\ UNCHANGED <<journal, world, budget>>

\* A binding the journal does not know is removed all the same, unjournaled.
UnbindStart(w, b, p, u) ==
  /\ Free(w)
  /\ \/ journal[b].status = "none" /\ Run(w, "unroute", b, p, u)
     \/ /\ journal[b].status # "none" /\ journal[b].prof = p /\ journal[b].user = u
        /\ Run(w, "revoking", b, p, u)
  /\ UNCHANGED <<journal, world, budget>>

UnbindJournal(w) ==
  /\ \/ At(w, "revoking") /\ Write(w, "revoking") /\ Goto(w, "unroute")
     \/ At(w, "revoked") /\ Write(w, "revoked") /\ End(w)
  /\ UNCHANGED <<world, budget>>

UnbindRoute(w) ==
  /\ At(w, "unroute")
  /\ routes' = routes \ {[name |-> req[w].b, prof |-> req[w].p, user |-> req[w].u]}
  /\ Goto(w, "ungrant")
  /\ UNCHANGED <<journal, approved, pat, homes, asked, codes, budget>>

\* revoke_profile_user, which skips a Profile without a home, and revoke_default_user
UnbindRevoke(w) ==
  /\ \/ /\ At(w, "ungrant") /\ Goto(w, "undefault")
        /\ IF req[w].p \in homes THEN Revoke(req[w].p, req[w].u) ELSE UNCHANGED approved
     \/ At(w, "undefault") /\ Revoke("default", req[w].u) /\ Goto(w, "unpat")
  /\ UNCHANGED <<journal, routes, pat, homes, asked, codes, budget>>

\* (mutant) the token is left in the Profile's .env
UnbindPat_Keeps(w) ==
  /\ At(w, "unpat")
  /\ Goto(w, "cleanup")
  /\ UNCHANGED <<journal, world, budget>>

UnbindPat(w) ==
  /\ At(w, "unpat")
  /\ pat' = pat \ {req[w].p} /\ Goto(w, "cleanup")
  /\ UNCHANGED <<journal, routes, approved, homes, asked, codes, budget>>

\* request_profile_attachment_cleanup; only a journaled binding is then marked revoked
UnbindCleanup(w) ==
  /\ At(w, "cleanup")
  /\ asked' = asked \cup ({req[w].p} \cap homes)
  /\ IF req[w].was = "none" THEN End(w) ELSE Goto(w, "revoked")
  /\ UNCHANGED <<journal, routes, approved, pat, homes, codes, budget>>

-----------------------------------------------------------------------------
(* Failures, the crash, and what goes on outside the service.                  *)

Guarded == {"profile", "pat", "grant", "default", "route"}
Revocation == {"unroute", "ungrant", "undefault", "unpat", "cleanup"}
Removal(pc) == IF pc = "unroute" THEN "ungrant" ELSE IF pc = "ungrant" THEN "undefault"
               ELSE IF pc = "undefault" THEN "unpat" ELSE IF pc = "unpat" THEN "cleanup"
               ELSE "revoked"

\* (mutant) a removal that raises is skipped
Raise_Swallowed(w) ==
  /\ req[w] # Idle /\ faults < MaxFaults /\ faults' = faults + 1
  /\ IF req[w].pc \in Revocation /\ req[w].was # "none" THEN Goto(w, Removal(req[w].pc))
                                                        ELSE End(w)
  /\ UNCHANGED <<journal, world, issued, crashes>>

\* The side effect at the request's control point raises.  Inside bind's try block a
\* binding that was not active gives its default grant back; anywhere else the request
\* just ends.  A Profile may have been created before ensure_employee_profile raised.
Raise(w) ==
  /\ req[w] # Idle /\ faults < MaxFaults /\ faults' = faults + 1
  /\ homes' \in {homes, homes \cup (IF At(w, "profile") THEN {req[w].p} ELSE {})}
  /\ IF req[w].pc \in Guarded /\ req[w].was # "active" THEN Goto(w, "rollback") ELSE End(w)
  /\ UNCHANGED <<journal, routes, approved, pat, asked, codes, issued, crashes>>

\* The process dies: what was written stays.
Crash ==
  /\ crashes < MaxCrashes /\ crashes' = crashes + 1
  /\ req' = [w \in Requests |-> Idle]
  /\ UNCHANGED <<journal, world, issued, faults>>

\* Hermes offers a pairing code to a user it does not know, in the default channel or in
\* that of a Profile.
IssueCode(u, s) ==
  /\ issued < MaxCodes /\ issued' = issued + 1
  /\ u \notin approved[s] /\ s \in homes \cup {"default"}
  /\ codes' = codes \cup {[user |-> u, store |-> s]}
  /\ UNCHANGED <<journal, routes, approved, pat, homes, asked, req, faults, crashes>>

\* The QR login creates the Profile too, outside the mutation lock.
QrProfile(p) ==
  /\ p \notin homes /\ homes' = homes \cup {p}
  /\ UNCHANGED <<journal, routes, approved, pat, asked, codes, req, budget>>

-----------------------------------------------------------------------------
Init ==
  /\ journal = [b \in Bindings |-> NoRecord]
  /\ routes = {} /\ approved = [s \in Stores |-> {}] /\ pat = {} /\ homes = {} /\ asked = {}
  /\ codes = {} /\ req = [w \in Requests |-> Idle]
  /\ issued = 0 /\ faults = 0 /\ crashes = 0

BindStep(w) ==
  \/ BindCheck(w) \/ BindJournal(w) \/ BindProfile(w) \/ BindPat(w) \/ BindGrant(w)
  \/ BindRoute(w) \/ BindActivate(w) \/ BindRollback(w)
UnbindStep(w) ==
  \/ UnbindJournal(w) \/ UnbindRoute(w) \/ UnbindRevoke(w) \/ UnbindPat(w) \/ UnbindCleanup(w)
Unbind(b) == \E w \in Requests, p \in Profiles, u \in Users : UnbindStart(w, b, p, u)

Next ==
  \/ \E w \in Requests : BindStep(w) \/ UnbindStep(w) \/ Raise(w)
  \/ \E w \in Requests, b \in Bindings, p \in Profiles : BindStart(w, b, p)
  \/ \E b \in Bindings : Unbind(b)
  \/ \E u \in Users, s \in Stores : IssueCode(u, s)
  \/ \E p \in Profiles : QrProfile(p)
  \/ Crash

Spec == Init /\ [][Next]_vars

\* A request's thread runs on, and the RAG application keeps retrying the unbind of a
\* binding that is not revoked yet (wechat_provisioner/README.md, "Runtime").
FairSpec ==
  /\ Spec
  /\ \A w \in Requests : WF_vars(BindStep(w) \/ UnbindStep(w))
  /\ \A b \in Bindings : SF_vars(journal[b].status = "revoking" /\ Unbind(b))

-----------------------------------------------------------------------------
BindPoints == {"check", "journal", "activate", "rollback"} \cup Guarded
UnbindPoints == {"revoking", "revoked"} \cup Revocation
Calls == [pc : BindPoints \cup UnbindPoints, b : Bindings, p : Profiles, u : Users,
          was : {"none"} \cup Statuses]

\* Every variable has its type; every status in the journal is one its reader accepts.
TypeOK ==
  /\ journal \in [Bindings -> {NoRecord} \cup [status : Statuses, prof : Profiles, user : Users]]
  /\ routes \subseteq [name : Bindings, prof : Profiles, user : Users]
  /\ approved \in [Stores -> SUBSET Users]
  /\ pat \subseteq Profiles /\ homes \subseteq Profiles /\ asked \subseteq Profiles
  /\ codes \subseteq [user : Users, store : Stores]
  /\ req \in [Requests -> {Idle} \cup Calls]
  /\ issued \in 0..MaxCodes /\ faults \in 0..MaxFaults /\ crashes \in 0..MaxCrashes

\* Whatever failed or crashed half-way: a chat is routed to one Profile only, a Profile
\* receives one chat only, and every route is that of a binding the journal can still
\* unbind, with the same Profile and user.
RoutingSound ==
  /\ \A r1, r2 \in routes : r1.user = r2.user \/ r1.prof = r2.prof => r1 = r2
  /\ \A r \in routes : \E status \in Live : journal[r.name] = Record(status, r.prof, r.user)

\* A Profile holds an employee token only while some binding of it is not revoked, so
\* that an unbind can still remove it.
PatJournaled ==
  \A p \in pat : \E b \in Bindings : journal[b].prof = p /\ journal[b].status \in Live

\* A user claimed with a pairing code is no other live binding's user: nothing slips
\* between the check and the journal entry.
ClaimExclusive ==
  [][\A b \in Bindings :
       journal[b].status \notin Live /\ journal'[b].status \in {"provisioning", "active"} =>
         \A c \in Bindings \ {b} :
           journal[c].user = journal'[b].user => journal[c].status \notin Live]_vars

\* A binding becomes revoked only after its route, both grants and the token are gone,
\* whichever attempt removed them.
RevokedMeansRemoved ==
  [][\A b \in Bindings :
       LET r == journal'[b]
       IN journal[b] # r /\ r.status = "revoked" =>
            /\ \A x \in routes : x.name # b
            /\ r.user \notin approved["default"] /\ r.prof \notin pat
            /\ r.prof \in homes => r.user \notin approved[r.prof]]_vars

\* An interrupted offboarding is completed by the retries, unless the binding is bound
\* again meanwhile.
OffboardingCompletes ==
  \A b \in Bindings : journal[b].status = "revoking" ~> journal[b].status # "revoking"

-----------------------------------------------------------------------------
\* The route table this service implements: which binding a route is named after is its
\* own affair.
Pairs == {[prof |-> r.prof, user |-> r.user] : r \in routes}
Table == INSTANCE RouteTable WITH table <- Pairs

\* Whatever requests overlap, fail or die, the Gateway sees whole binds, which displace
\* only routes of the same chat or Profile, and whole unbinds, which remove one pair.
ImplementsTable == Table!Spec

-----------------------------------------------------------------------------
(* What the documentation promises and the code does not keep.                 *)

\* service.py:101 "a bound user needs both grants": handling a bind request takes no
\* grant from the user of another active binding.
BindSparesOthers ==
  [][\A w \in Requests : req[w].pc \in BindPoints =>
       \A b \in Bindings \ {req[w].b}, s \in Stores :
         /\ journal[b].status = "active" /\ s \in {"default", journal[b].prof}
         /\ journal[b].user \in approved[s]
         => journal[b].user \in approved'[s]]_vars

\* wechat_provisioner/README.md:32 "accepts repeated unbind calls safely": repeating the
\* unbind of a revoked binding takes nothing from an active one.
RepeatedUnbindSafe ==
  [][\A w \in Requests : req[w].pc \in UnbindPoints /\ req[w].was = "revoked" =>
       \A b \in Bindings \ {req[w].b} :
         journal[b].status = "active" /\ journal[b].prof \in pat => journal[b].prof \in pat']_vars
=============================================================================
