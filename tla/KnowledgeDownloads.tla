------------------------- MODULE KnowledgeDownloads -------------------------
(***************************************************************************)
(* The tool download_wechat_knowledge_file and the private directories it  *)
(* keeps in every Profile.  Authorization is asked for first; then, under  *)
(* the process-wide governance lock, the expired directories of all        *)
(* Profiles are removed, the quotas are compared with one maximum-sized    *)
(* file to come, and the file is streamed into a directory of its own.  A  *)
(* transfer that fails leaves the lock and then removes its directory; one *)
(* that succeeds leaves it for the Gateway to send, until the lifetime is  *)
(* over and the next download or the maintenance worker sweeps it away.    *)
(***************************************************************************)
EXTENDS Naturals, FiniteSets

CONSTANTS
  Requests,        \* calls of the tool, each with the directory it makes
  Profiles, Sessions,
  ProfileOf,       \* the Profile of each Session
  SessionOf,       \* the Session of each request
  Limit,           \* maximum size of one file
  SessionMaxFiles, SessionMaxBytes, ProfileMaxBytes, GlobalMaxBytes,
  TTL,             \* DOWNLOAD_TTL_SECONDS
  Deadline,        \* longest transfer; bound: a chunk is never waited for beyond it
  MaxTime,         \* bound: the clock; a file is admitted while it can still expire
  MaxFaults,       \* bound: removals of a directory that raise
  MaxCrashes       \* bound: deaths of the Gateway

ASSUME Bounds ==
  /\ {Limit, SessionMaxFiles, SessionMaxBytes, ProfileMaxBytes, GlobalMaxBytes, TTL, Deadline,
      MaxTime, MaxFaults, MaxCrashes} \subseteq Nat
  /\ Deadline < TTL /\ Limit > 0
  /\ ProfileOf \in [Sessions -> Profiles] /\ SessionOf \in [Requests -> Sessions]
  /\ IsFiniteSet(Requests)

VARIABLES
  dir,      \* each request's directory: what it has, the file's size, its mtime
  req,      \* each request's control point
  started,  \* when the transfer under way began
  now, faults, crashes

vars == <<dir, req, started, now, faults, crashes>>

NoDir == [has |-> "none", bytes |-> 0, at |-> 0]

Init ==
  /\ dir = [d \in Requests |-> NoDir]
  /\ req = [d \in Requests |-> "idle"] /\ started = 0
  /\ now = 0 /\ faults = 0 /\ crashes = 0

There(ds) == {d \in Requests : ds[d].has # "none"}
Files(ds) == {d \in Requests : ds[d].has \in {"part", "whole"}}
InSession(ds, s) == {d \in Files(ds) : SessionOf[d] = s}
InProfile(ds, p) == {d \in Files(ds) : ProfileOf[SessionOf[d]] = p}

\* The total size of some directories, each byte counted as the pair of its directory and
\* its place.
Bytes(ds, D) == Cardinality(UNION {{d} \X (1 .. ds[d].bytes) : d \in D})

Ended == {"refused", "failed", "killed", "ready"}

Holds(d) == req[d] \in {"connect", "transfer"}

\* governance.lock is held from the sweep to the end of the transfer, and no longer when a
\* failed request removes its directory.
LockFree == \A d \in Requests : ~Holds(d)

\* (mutant) no file is reserved
Room_NoReserve(ds, d) ==
  LET s == SessionOf[d] IN
  /\ Cardinality(InSession(ds, s)) < SessionMaxFiles
  /\ Bytes(ds, InSession(ds, s)) <= SessionMaxBytes
  /\ Bytes(ds, InProfile(ds, ProfileOf[s])) <= ProfileMaxBytes
  /\ Bytes(ds, Files(ds)) <= GlobalMaxBytes

\* One maximum-sized file fits into every quota.
Room(ds, d) ==
  LET s == SessionOf[d] IN
  /\ Cardinality(InSession(ds, s)) < SessionMaxFiles
  /\ Bytes(ds, InSession(ds, s)) + Limit <= SessionMaxBytes
  /\ Bytes(ds, InProfile(ds, ProfileOf[s])) + Limit <= ProfileMaxBytes
  /\ Bytes(ds, Files(ds)) + Limit <= GlobalMaxBytes

\* (mutant) only whole files are looked at, so what a dead Gateway left behind stays
Expired_WholeOnly == {d \in There(dir) : dir[d].has = "whole" /\ now - dir[d].at >= TTL}

Expired == {d \in There(dir) : now - dir[d].at >= TTL}

\* A removal goes on outside the lock: what it takes away is missed by a sweep that has
\* listed it already.
Racing == \E d \in There(dir) : req[d] = "remove"

SweepRaises ==
  \/ faults < MaxFaults /\ faults' = faults + 1
  \/ Racing /\ UNCHANGED faults

Without(D) == [d \in Requests |-> IF d \in D THEN NoDir ELSE dir[d]]

-----------------------------------------------------------------------------
(* _download_knowledge_handler *)

Begin(d) ==
  /\ req[d] = "idle"
  /\ \E answer \in {"refused", "lock"} : req' = [req EXCEPT ![d] = answer]
  /\ UNCHANGED <<dir, started, now, faults, crashes>>

\* The sweep, the quotas and the new directory, in one hold of the lock; a disk that is
\* nearly full refuses a file that has room.
Enter(d) ==
  /\ req[d] = "lock" /\ LockFree
  /\ LET swept == Without(Expired) IN
     \/ /\ dir' = swept
        /\ req' = [req EXCEPT ![d] = "refused"] /\ UNCHANGED started
     \/ /\ Room(swept, d) /\ now + Deadline + 1 + TTL <= MaxTime
        /\ dir' = [swept EXCEPT ![d] = [NoDir EXCEPT !.has = "empty", !.at = now]]
        /\ req' = [req EXCEPT ![d] = "connect"] /\ started' = now
  /\ UNCHANGED <<now, faults, crashes>>

\* The sweep raises: some of what has expired may stay, and the call fails.
EnterFails(d) ==
  /\ req[d] = "lock" /\ LockFree /\ SweepRaises
  /\ \E D \in SUBSET Expired : dir' = Without(D)
  /\ req' = [req EXCEPT ![d] = "failed"]
  /\ UNCHANGED <<started, now, crashes>>

\* The server answers: the new file is the last change of its directory.
Open(d) ==
  /\ req[d] = "connect" /\ req' = [req EXCEPT ![d] = "transfer"]
  /\ dir' = [dir EXCEPT ![d].has = "part", ![d].at = now]
  /\ UNCHANGED <<started, now, faults, crashes>>

\* (mutant) the size is not watched while the file is streamed
Receive_NoLimit(d) ==
  /\ req[d] = "transfer" /\ now - started <= Deadline
  /\ dir' = [dir EXCEPT ![d].bytes = @ + 1]
  /\ UNCHANGED <<req, started, now, faults, crashes>>

\* A chunk is written while the size and the time allow it.
Receive(d) ==
  /\ req[d] = "transfer" /\ dir[d].bytes < Limit /\ now - started <= Deadline
  /\ dir' = [dir EXCEPT ![d].bytes = @ + 1]
  /\ UNCHANGED <<req, started, now, faults, crashes>>

\* (mutant) the directory is removed on the way out of a success too
Finish_Removes(d) ==
  /\ req[d] = "transfer"
  /\ dir' = Without({d}) /\ req' = [req EXCEPT ![d] = "ready"]
  /\ started' = 0 /\ UNCHANGED <<now, faults, crashes>>

Finish(d) ==
  /\ req[d] = "transfer"
  /\ dir' = [dir EXCEPT ![d].has = "whole"] /\ req' = [req EXCEPT ![d] = "ready"]
  /\ started' = 0 /\ UNCHANGED <<now, faults, crashes>>

\* (mutant) the directory is known to the way out only when it has a file
FailTransfer_WithFile(d) ==
  /\ Holds(d) /\ req' = [req EXCEPT ![d] = IF @ = "transfer" THEN "remove" ELSE "failed"]
  /\ started' = 0 /\ UNCHANGED <<dir, now, faults, crashes>>

\* The server, the size or the deadline ends the transfer: the exception leaves the lock.
FailTransfer(d) ==
  /\ Holds(d) /\ req' = [req EXCEPT ![d] = "remove"]
  /\ started' = 0 /\ UNCHANGED <<dir, now, faults, crashes>>

\* Then, whoever has the lock by now, the directory is removed; the removal ignores its own
\* errors.
Remove(d) ==
  /\ req[d] = "remove" /\ req' = [req EXCEPT ![d] = "failed"]
  /\ \/ dir' = Without({d}) /\ UNCHANGED faults
     \/ faults < MaxFaults /\ faults' = faults + 1 /\ UNCHANGED dir
  /\ UNCHANGED <<started, now, crashes>>

-----------------------------------------------------------------------------
(* _run_attachment_maintenance, the process and the clock *)

Sweep ==
  /\ LockFree /\ Expired # {} /\ dir' = Without(Expired)
  /\ UNCHANGED <<req, started, now, faults, crashes>>

SweepFails ==
  /\ LockFree /\ Expired # {} /\ SweepRaises
  /\ \E D \in SUBSET Expired : dir' = Without(D)
  /\ UNCHANGED <<req, started, now, crashes>>

\* The Gateway dies with its lock; the directories stay as they are.
Crash ==
  /\ crashes < MaxCrashes /\ crashes' = crashes + 1
  /\ req' = [d \in Requests |-> IF req[d] \in {"lock", "connect", "transfer", "remove"}
                                THEN "killed" ELSE req[d]]
  /\ started' = 0 /\ UNCHANGED <<dir, now, faults>>

Tick ==
  /\ now < MaxTime /\ now' = now + 1
  /\ \A d \in Requests : Holds(d) => now - started <= Deadline
  /\ UNCHANGED <<dir, req, started, faults, crashes>>

-----------------------------------------------------------------------------
Step(d) == Enter(d) \/ Open(d) \/ Receive(d) \/ Finish(d) \/ FailTransfer(d) \/ Remove(d)

Next ==
  \/ \E d \in Requests : Begin(d) \/ Step(d) \/ EnterFails(d)
  \/ Sweep \/ SweepFails \/ Crash \/ Tick

Spec == Init /\ [][Next]_vars

\* Requests go on, the worker comes round and time passes; a transfer ends by its deadline.
FairSpec ==
  Spec /\ WF_vars(Sweep) /\ WF_vars(Tick) /\ \A d \in Requests : WF_vars(Step(d))

-----------------------------------------------------------------------------
TypeOK ==
  /\ dir \in [Requests -> [has : {"none", "empty", "part", "whole"}, bytes : 0 .. Limit, at : 0 .. MaxTime]]
  /\ req \in [Requests -> {"idle", "lock", "connect", "transfer", "remove"} \cup Ended]
  /\ started \in 0 .. MaxTime
  /\ now \in 0 .. MaxTime /\ faults \in 0 .. MaxFaults /\ crashes \in 0 .. MaxCrashes

\* No quota is ever exceeded, by whole files, by the one in transfer and by what a failed or
\* killed transfer left behind together (RUNTIME.md:259-261 one maximum-sized file reserved).
WithinQuotas ==
  /\ \A s \in Sessions : /\ Cardinality(InSession(dir, s)) <= SessionMaxFiles
                         /\ Bytes(dir, InSession(dir, s)) <= SessionMaxBytes
  /\ \A p \in Profiles : Bytes(dir, InProfile(dir, p)) <= ProfileMaxBytes
  /\ Bytes(dir, Files(dir)) <= GlobalMaxBytes

\* A request that fails leaves its directory behind only when the removal raised or the
\* Gateway died under it, in the transfer or between the lock and the removal: beside the
\* killed ones, never more directories wait for a sweep than removals raised.
LeftoversCounted ==
  Cardinality({d \in There(dir) : req[d] \in {"refused", "failed"}}) <= faults

\* A file reported ready_for_delivery is whole and stays so for its lifetime, whatever the
\* sweeps of other downloads and of the worker remove meanwhile.
ReadyStays ==
  [][\A d \in There(dir) :
       req'[d] = "ready" => dir'[d].has = "whole" \/ now - dir[d].at >= TTL]_vars

\* Nothing stays on disk for good: the directories of failed, killed and delivered downloads
\* are all removed in the end, although single removals raise.
DirectoriesGo == \A d \in Requests : (d \in There(dir)) ~> (d \notin There(dir))
=============================================================================
