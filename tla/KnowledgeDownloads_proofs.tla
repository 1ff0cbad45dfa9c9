---------------------- MODULE KnowledgeDownloads_proofs ----------------------
(***************************************************************************)
(* Theorems about KnowledgeDownloads for every value of its constants.     *)
(***************************************************************************)
EXTENDS KnowledgeDownloads, FiniteSetTheorems, TLAPS

Directory == [has : {"none", "empty", "part", "whole"}, bytes : 0 .. Limit, at : 0 .. MaxTime]
Points == {"idle", "lock", "connect", "transfer", "remove", "refused", "failed", "killed", "ready"}

\* TypeOK with its sets named.
Types ==
  /\ dir \in [Requests -> Directory] /\ req \in [Requests -> Points]
  /\ started \in 0 .. MaxTime /\ now \in 0 .. MaxTime
  /\ faults \in 0 .. MaxFaults /\ crashes \in 0 .. MaxCrashes

-----------------------------------------------------------------------------
(* Type correctness. *)

\* The empty directory has its type.
LEMMA NoDirType == NoDir \in Directory
  BY Bounds DEF NoDir, Directory

\* Types is TypeOK.
LEMMA TypesAreTypeOK == Types <=> TypeOK
<1>1. Points = {"idle", "lock", "connect", "transfer", "remove"} \cup Ended
  BY DEF Points, Ended
<1>2. QED
  BY <1>1 DEF Types, TypeOK, Directory

\* Removing directories keeps the types of the others.
LEMMA WithoutType ==
  ASSUME Types, NEW D
  PROVE  Without(D) \in [Requests -> Directory]
  BY NoDirType DEF Without, Types

\* Every step keeps the types; a file in transfer stays within the maximum size.
LEMMA TypeStep ==
  ASSUME Types, [Next]_vars
  PROVE  Types'
<1>1. /\ dir \in [Requests -> Directory] /\ req \in [Requests -> Points]
      /\ started \in 0 .. MaxTime /\ now \in 0 .. MaxTime
      /\ faults \in 0 .. MaxFaults /\ crashes \in 0 .. MaxCrashes
  BY DEF Types
<1>2. Limit \in Nat /\ MaxTime \in Nat /\ MaxFaults \in Nat /\ MaxCrashes \in Nat
  BY Bounds
<1>3. \A d \in Requests, pc \in Points : [req EXCEPT ![d] = pc] \in [Requests -> Points]
  BY <1>1
<1>4. \A d \in Requests, x \in Directory : [dir EXCEPT ![d] = x] \in [Requests -> Directory]
  BY <1>1
<1>5. {"idle", "lock", "connect", "transfer", "remove", "refused", "failed", "killed", "ready"} = Points
  BY DEF Points
<1>6. ASSUME NEW d \in Requests, Begin(d)
      PROVE  Types'
  BY <1>1, <1>3, <1>5, <1>6 DEF Begin, Types
<1>7. ASSUME NEW d \in Requests, Enter(d)
      PROVE  Types'
  <2>1. Without(Expired) \in [Requests -> Directory]
    BY WithoutType
  <2>2. [NoDir EXCEPT !.has = "empty", !.at = now] \in Directory
    BY <1>1, NoDirType DEF Directory
  <2>3. [Without(Expired) EXCEPT ![d] = [NoDir EXCEPT !.has = "empty", !.at = now]]
          \in [Requests -> Directory]
    BY <2>1, <2>2
  <2>4. dir' \in [Requests -> Directory] /\ started' \in 0 .. MaxTime
    BY <1>1, <1>7, <2>1, <2>3 DEF Enter
  <2>5. req' \in [Requests -> Points]
    BY <1>3, <1>5, <1>7 DEF Enter
  <2>6. QED
    BY <1>1, <1>7, <2>4, <2>5 DEF Enter, Types
<1>8. ASSUME NEW d \in Requests, EnterFails(d)
      PROVE  Types'
  <2>1. dir' \in [Requests -> Directory]
    BY <1>8, WithoutType DEF EnterFails
  <2>2. faults' \in 0 .. MaxFaults
    BY <1>1, <1>2, <1>8 DEF EnterFails, SweepRaises
  <2>3. QED
    BY <1>1, <1>3, <1>5, <1>8, <2>1, <2>2 DEF EnterFails, Types
<1>9. ASSUME NEW d \in Requests, Open(d)
      PROVE  Types'
  <2>1. PICK x : x = [dir[d] EXCEPT !.has = "part", !.at = now]
    OBVIOUS
  <2>2. dir[d] \in Directory
    BY <1>1
  <2>3. x \in Directory
    BY <1>1, <2>1, <2>2 DEF Directory
  <2>4. dir' = [dir EXCEPT ![d] = x]
    BY <1>1, <1>9, <2>1, <2>2 DEF Open, Directory
  <2>5. dir' \in [Requests -> Directory]
    BY <1>4, <2>3, <2>4
  <2>6. req' \in [Requests -> Points]
    BY <1>3, <1>5, <1>9 DEF Open
  <2>7. QED
    BY <1>1, <1>9, <2>5, <2>6 DEF Open, Types
<1>10. ASSUME NEW d \in Requests, Receive(d)
       PROVE  Types'
  <2>1. PICK x : x = [dir[d] EXCEPT !.bytes = @ + 1]
    OBVIOUS
  <2>2. dir[d] \in Directory /\ dir[d].bytes < Limit
    BY <1>1, <1>10 DEF Receive
  <2>3. x \in Directory
    BY <1>2, <2>1, <2>2 DEF Directory
  <2>4. dir' = [dir EXCEPT ![d] = x]
    BY <1>1, <1>10, <2>1 DEF Receive
  <2>5. QED
    BY <1>1, <1>4, <1>10, <2>3, <2>4 DEF Receive, Types
<1>11. ASSUME NEW d \in Requests, Finish(d)
       PROVE  Types'
  <2>1. PICK x : x = [dir[d] EXCEPT !.has = "whole"]
    OBVIOUS
  <2>2. dir[d] \in Directory
    BY <1>1
  <2>3. x \in Directory
    BY <2>1, <2>2 DEF Directory
  <2>4. dir' = [dir EXCEPT ![d] = x]
    BY <1>1, <1>11, <2>1 DEF Finish
  <2>5. started' \in 0 .. MaxTime
    BY <1>2, <1>11 DEF Finish
  <2>6. QED
    BY <1>1, <1>3, <1>4, <1>5, <1>11, <2>3, <2>4, <2>5 DEF Finish, Types
<1>12. ASSUME NEW d \in Requests, FailTransfer(d)
       PROVE  Types'
  <2>1. started' \in 0 .. MaxTime
    BY <1>2, <1>12 DEF FailTransfer
  <2>2. req' \in [Requests -> Points]
    BY <1>3, <1>5, <1>12 DEF FailTransfer
  <2>3. QED
    BY <1>1, <1>12, <2>1, <2>2 DEF FailTransfer, Types
<1>18. ASSUME NEW d \in Requests, Remove(d)
       PROVE  Types'
  <2>1. dir' \in [Requests -> Directory]
    BY <1>1, <1>18, WithoutType DEF Remove
  <2>2. faults' \in 0 .. MaxFaults
    BY <1>1, <1>2, <1>18 DEF Remove
  <2>3. req' \in [Requests -> Points]
    BY <1>3, <1>5, <1>18 DEF Remove
  <2>4. QED
    BY <1>1, <1>18, <2>1, <2>2, <2>3 DEF Remove, Types
<1>13. CASE Sweep
  BY <1>1, <1>13, WithoutType DEF Sweep, Types
<1>14. CASE SweepFails
  <2>1. dir' \in [Requests -> Directory]
    BY <1>14, WithoutType DEF SweepFails
  <2>2. faults' \in 0 .. MaxFaults
    BY <1>1, <1>2, <1>14 DEF SweepFails, SweepRaises
  <2>3. QED
    BY <1>1, <1>14, <2>1, <2>2 DEF SweepFails, Types
<1>15. CASE Crash
  <2>1. req' \in [Requests -> Points]
    BY <1>1, <1>5, <1>15 DEF Crash
  <2>2. started' \in 0 .. MaxTime /\ crashes' \in 0 .. MaxCrashes
    BY <1>1, <1>2, <1>15 DEF Crash
  <2>3. QED
    BY <1>1, <1>15, <2>1, <2>2 DEF Crash, Types
<1>16. CASE Tick
  BY <1>1, <1>2, <1>16 DEF Tick, Types
<1>17. CASE UNCHANGED vars
  BY <1>1, <1>17 DEF vars, Types
<1>19. QED
  BY <1>6, <1>7, <1>8, <1>9, <1>10, <1>11, <1>12, <1>13, <1>14, <1>15, <1>16, <1>17, <1>18
     DEF Next, Step

\* The types hold always.
LEMMA TypesAlways == Spec => []Types
<1>1. Init => Types
  BY NoDirType, Bounds DEF Init, Types, Points
<1>2. Types /\ [Next]_vars => Types'
  BY TypeStep
<1>3. QED
  BY <1>1, <1>2, PTL DEF Spec

\* Requests, directories, clock and faults have their types: no directory ever holds more
\* than one maximum-sized file.
THEOREM DownloadsTypeCorrect == Spec => []TypeOK
  BY TypesAlways, TypesAreTypeOK, PTL
-----------------------------------------------------------------------------
(* Sizes are cardinalities: what the quotas need of them. *)

\* The bytes of some directories, one by one.
Units(ds, D) == UNION {{d} \X (1 .. ds[d].bytes) : d \in D}

\* The bytes of finitely many directories are finitely many.
LEMMA UnitsFinite ==
  ASSUME NEW ds \in [Requests -> Directory], NEW D \in SUBSET Requests
  PROVE  /\ IsFiniteSet(Units(ds, D))
         /\ Bytes(ds, D) = Cardinality(Units(ds, D)) /\ Bytes(ds, D) \in Nat
<1>1. IsFiniteSet(Requests \X (1 .. Limit))
  <2>1. IsFiniteSet(1 .. Limit)
    BY Bounds, FS_Interval
  <2>2. QED
    BY <2>1, Bounds, FS_Product
<1>2. \A d \in D : ds[d].bytes \in 0 .. Limit
  BY DEF Directory
<1>3. Units(ds, D) \subseteq Requests \X (1 .. Limit)
  <2>1. ASSUME NEW d \in D
        PROVE  {d} \X (1 .. ds[d].bytes) \subseteq Requests \X (1 .. Limit)
    BY <1>2, Bounds
  <2>2. QED
    BY <2>1 DEF Units
<1>4. IsFiniteSet(Units(ds, D))
  BY <1>1, <1>3, FS_Subset
<1>5. QED
  BY <1>4, FS_CardinalityType DEF Bytes, Units

\* More directories, or larger ones, have no fewer bytes.
LEMMA BytesGrow ==
  ASSUME NEW ds \in [Requests -> Directory], NEW et \in [Requests -> Directory],
         NEW E \in SUBSET Requests, NEW D \in SUBSET E,
         \A d \in D : ds[d].bytes <= et[d].bytes
  PROVE  Bytes(ds, D) <= Bytes(et, E)
<1>1. \A d \in D : ds[d].bytes \in Nat /\ et[d].bytes \in Nat
  BY Bounds DEF Directory
<1>2. Units(ds, D) \subseteq Units(et, E)
  <2>1. ASSUME NEW d \in D
        PROVE  {d} \X (1 .. ds[d].bytes) \subseteq {d} \X (1 .. et[d].bytes)
    BY <1>1
  <2>2. QED
    BY <2>1 DEF Units
<1>3. IsFiniteSet(Units(et, E)) /\ Bytes(et, E) = Cardinality(Units(et, E))
  BY UnitsFinite
<1>4. Bytes(ds, D) = Cardinality(Units(ds, D))
  BY UnitsFinite
<1>5. QED
  BY <1>2, <1>3, <1>4, FS_Subset

\* One directory more is at most one maximum-sized file more.
LEMMA BytesOfOne ==
  ASSUME NEW ds \in [Requests -> Directory], NEW D \in SUBSET Requests, NEW d \in Requests
  PROVE  Bytes(ds, D) <= Bytes(ds, D \ {d}) + Limit
<1> DEFINE One == {d} \X (1 .. Limit)
           Rest == Units(ds, D \ {d})
<1>1. IsFiniteSet(One) /\ Cardinality(One) = Limit
  <2>1. IsFiniteSet(1 .. Limit) /\ Cardinality(1 .. Limit) = Limit
    BY Bounds, FS_Interval
  <2>2. IsFiniteSet({d}) /\ Cardinality({d}) = 1
    BY FS_Singleton
  <2>3. IsFiniteSet(One) /\ Cardinality(One) = 1 * Limit
    BY <2>1, <2>2, FS_Product
  <2>4. QED
    BY <2>3, Bounds
<1>2. IsFiniteSet(Rest) /\ Bytes(ds, D \ {d}) = Cardinality(Rest)
  BY UnitsFinite
<1>3. Units(ds, D) \subseteq Rest \cup One
  <2>1. ASSUME NEW e \in D
        PROVE  {e} \X (1 .. ds[e].bytes) \subseteq Rest \cup One
    <3>1. CASE e = d
      <4>1. ds[e].bytes \in 0 .. Limit
        BY DEF Directory
      <4>2. QED
        BY <3>1, <4>1, Bounds
    <3>2. CASE e # d
      BY <3>2 DEF Units
    <3>3. QED
      BY <3>1, <3>2
  <2>2. QED
    BY <2>1 DEF Units
<1> HIDE DEF One, Rest
<1>4. /\ IsFiniteSet(Rest \cup One)
      /\ Cardinality(Rest \cup One) = Cardinality(Rest) + Cardinality(One) - Cardinality(Rest \cap One)
  BY <1>1, <1>2, FS_Union
<1>5. Cardinality(Rest \cap One) \in Nat /\ Cardinality(Rest) \in Nat /\ Limit \in Nat
  <2>1. IsFiniteSet(Rest \cap One)
    BY <1>1, FS_Intersection
  <2>2. QED
    BY <1>2, <2>1, FS_CardinalityType, Bounds
<1>6. Cardinality(Units(ds, D)) <= Cardinality(Rest \cup One)
  BY <1>3, <1>4, FS_Subset
<1>7. Cardinality(Units(ds, D)) \in Nat /\ Bytes(ds, D) = Cardinality(Units(ds, D))
  BY UnitsFinite
<1>8. QED
  BY <1>1, <1>2, <1>4, <1>5, <1>6, <1>7

-----------------------------------------------------------------------------
(* The quotas.  They are not inductive: that the file under way still fits is *)
(* known since its admission, because all others can only shrink while the    *)
(* lock is held.                                                              *)

OfSession(s) == {d \in Requests : SessionOf[d] = s}
OfProfile(p) == {d \in Requests : ProfileOf[SessionOf[d]] = p}

Mutex == \A d, e \in Requests : Holds(d) /\ Holds(e) => d = e

\* What is there of the requests K is within the quota, and so is a maximum-sized file
\* beside it for the one of them that is inside the lock.
FitsBytes(K, max) ==
  /\ Bytes(dir, Files(dir) \cap K) <= max
  /\ \A d \in K : Holds(d) => Bytes(dir, (Files(dir) \cap K) \ {d}) + Limit <= max
FitsFiles(K, max) ==
  /\ Cardinality(Files(dir) \cap K) <= max
  /\ \A d \in K : Holds(d) => Cardinality((Files(dir) \cap K) \ {d}) < max

QuotaInv ==
  /\ Types /\ Mutex
  /\ \A s \in Sessions : /\ FitsFiles(OfSession(s), SessionMaxFiles)
                         /\ FitsBytes(OfSession(s), SessionMaxBytes)
  /\ \A p \in Profiles : FitsBytes(OfProfile(p), ProfileMaxBytes)
  /\ FitsBytes(Requests, GlobalMaxBytes)
\* The three kinds of step: directories only shrink and nobody enters the lock; one request
\* enters the lock with room for its file; only the directory of the request inside the
\* lock changes.
Shrinks ==
  /\ \A d \in Requests : Holds(d)' => Holds(d)
  /\ Files(dir') \subseteq Files(dir)
  /\ \A d \in Files(dir') : dir'[d].bytes = dir[d].bytes
Admits(d) ==
  /\ Room(Without(Expired), d)
  /\ \A e \in Requests : Holds(e)' => e = d
  /\ Files(Without(Expired)) \subseteq Files(dir)
  /\ Files(dir') \subseteq Files(Without(Expired)) \ {d}
  /\ \A e \in Files(dir') : dir'[e].bytes = Without(Expired)[e].bytes
  /\ \A e \in Files(Without(Expired)) : Without(Expired)[e].bytes = dir[e].bytes
Grows(d) ==
  /\ Holds(d)
  /\ \A e \in Requests : Holds(e)' => e = d
  /\ Files(dir') \subseteq Files(dir) \cup {d}
  /\ \A e \in Files(dir') \ {d} : dir'[e].bytes = dir[e].bytes

\* What is left when some directories are removed.
LEMMA WithoutShrinks ==
  ASSUME Types, NEW D
  PROVE  /\ Files(Without(D)) \subseteq Files(dir)
         /\ \A d \in Files(Without(D)) : Without(D)[d].bytes = dir[d].bytes
  BY DEF Without, Files, NoDir, Types

\* Every step is of one of the three kinds.
LEMMA StepKinds ==
  ASSUME Types, Mutex, [Next]_vars
  PROVE  \/ Shrinks
         \/ \E d \in Requests : Admits(d) \/ Grows(d)
<1>1. dir \in [Requests -> Directory] /\ req \in [Requests -> Points]
  BY DEF Types
<1>2. ASSUME NEW d \in Requests, Begin(d)
      PROVE  Shrinks
  BY <1>1, <1>2 DEF Begin, Shrinks, Holds, Files
<1>3. ASSUME NEW d \in Requests, Enter(d)
      PROVE  Shrinks \/ Admits(d)
  <2>1. \A e \in Requests : ~Holds(e)
    BY <1>3 DEF Enter, LockFree
  <2>2. CASE dir' = Without(Expired) /\ req' = [req EXCEPT ![d] = "refused"]
    <3>1. \A e \in Requests : ~Holds(e)'
      BY <1>1, <2>1, <2>2 DEF Holds
    <3>2. QED
      BY <2>2, <3>1, WithoutShrinks DEF Shrinks
  <2>3. CASE /\ Room(Without(Expired), d)
             /\ dir' = [Without(Expired) EXCEPT ![d] = [NoDir EXCEPT !.has = "empty", !.at = now]]
             /\ req' = [req EXCEPT ![d] = "connect"]
    <3>1. \A e \in Requests : Holds(e)' => e = d
      BY <1>1, <2>1, <2>3 DEF Holds
    <3>2. PICK x : x = [NoDir EXCEPT !.has = "empty", !.at = now]
      OBVIOUS
    <3>3. x.has = "empty"
      BY <3>2 DEF NoDir
    <3>4. dir' = [Without(Expired) EXCEPT ![d] = x]
      BY <2>3, <3>2
    <3>5. Without(Expired) \in [Requests -> Directory]
      BY WithoutType
    <3>6. dir'[d] = x /\ \A e \in Requests \ {d} : dir'[e] = Without(Expired)[e]
      BY <3>4, <3>5
    <3>7. Files(dir') \subseteq Files(Without(Expired)) \ {d}
      BY <3>3, <3>6 DEF Files
    <3>8. \A e \in Files(dir') : dir'[e].bytes = Without(Expired)[e].bytes
      BY <3>6, <3>7 DEF Files
    <3>9. QED
      BY <2>3, <3>1, <3>7, <3>8, WithoutShrinks DEF Admits
  <2>4. QED
    BY <1>3, <2>2, <2>3 DEF Enter
<1>4. ASSUME NEW d \in Requests, EnterFails(d)
      PROVE  Shrinks
  <2>1. \A e \in Requests : ~Holds(e)'
    BY <1>1, <1>4 DEF EnterFails, LockFree, Holds
  <2>2. QED
    BY <1>4, <2>1, WithoutShrinks DEF EnterFails, Shrinks
<1>5. ASSUME NEW d \in Requests, Open(d) \/ Receive(d) \/ Finish(d)
      PROVE  Grows(d)
  <2>1. Holds(d)
    BY <1>5 DEF Open, Receive, Finish, Holds
  <2>2. \A e \in Requests : e # d => ~Holds(e) /\ req'[e] = req[e] /\ dir'[e] = dir[e]
    BY <1>1, <1>5, <2>1 DEF Mutex, Open, Receive, Finish
  <2>3. QED
    BY <2>1, <2>2 DEF Grows, Holds, Files
<1>6. ASSUME NEW d \in Requests, FailTransfer(d)
      PROVE  Shrinks
  <2>1. \A e \in Requests : ~Holds(e)'
    BY <1>1, <1>6 DEF FailTransfer, Holds, Mutex
  <2>2. QED
    BY <1>6, <2>1 DEF FailTransfer, Shrinks
<1>10. ASSUME NEW d \in Requests, Remove(d)
       PROVE  Shrinks
  <2>1. \A e \in Requests : Holds(e)' => Holds(e)
    BY <1>1, <1>10 DEF Remove, Holds
  <2>2. CASE dir' = Without({d})
    BY <2>1, <2>2, WithoutShrinks DEF Shrinks
  <2>3. CASE UNCHANGED dir
    BY <2>1, <2>3 DEF Shrinks
  <2>4. QED
    BY <1>10, <2>2, <2>3 DEF Remove
<1>7. CASE Sweep \/ SweepFails
  <2>1. PICK D : dir' = Without(D) /\ UNCHANGED req
    BY <1>7 DEF Sweep, SweepFails
  <2>2. QED
    BY <2>1, WithoutShrinks DEF Shrinks, Holds
<1>8. CASE Crash
  BY <1>1, <1>8 DEF Crash, Shrinks, Holds
<1>9. CASE Tick \/ UNCHANGED vars
  BY <1>9 DEF Tick, vars, Shrinks, Holds
<1>11. QED
  BY <1>2, <1>3, <1>4, <1>5, <1>6, <1>7, <1>8, <1>9, <1>10 DEF Next, Step

\* One request at a time is inside the lock.
LEMMA MutexStep ==
  ASSUME Types, Mutex, [Next]_vars
  PROVE  Mutex'
  BY StepKinds DEF Shrinks, Admits, Grows, Mutex

\* Every step keeps a byte quota of the requests K, if a request of K only enters the lock
\* with room for its file in K.
LEMMA FitsBytesStep ==
  ASSUME Types, Types', Mutex, [Next]_vars, NEW K \in SUBSET Requests, NEW max \in Nat,
         FitsBytes(K, max),
         \A d \in K : Room(Without(Expired), d) =>
           Bytes(Without(Expired), Files(Without(Expired)) \cap K) + Limit <= max
  PROVE  FitsBytes(K, max)'
<1> DEFINE swept == Without(Expired)
           F == Files(dir) \cap K
           G == Files(dir') \cap K
           H == Files(swept) \cap K
<1>1. /\ dir \in [Requests -> Directory] /\ dir' \in [Requests -> Directory]
      /\ swept \in [Requests -> Directory]
  BY WithoutType DEF Types
<1>2. F \subseteq Requests /\ G \subseteq Requests /\ H \subseteq Requests
  OBVIOUS
<1>3. Limit \in Nat
  BY Bounds
<1>4. /\ Bytes(dir, F) <= max
      /\ \A d \in K : Holds(d) => Bytes(dir, F \ {d}) + Limit <= max
  BY DEF FitsBytes
<1>5. \A ds \in [Requests -> Directory], D \in SUBSET Requests : Bytes(ds, D) \in Nat
  BY UnitsFinite
<1>6. SUFFICES /\ Bytes(dir', G) <= max
               /\ \A d \in K : Holds(d)' => Bytes(dir', G \ {d}) + Limit <= max
  BY DEF FitsBytes
<1>7. \A d \in Requests : dir[d].bytes \in Nat /\ dir'[d].bytes \in Nat /\ swept[d].bytes \in Nat
  BY <1>1, <1>3 DEF Directory
<1> HIDE DEF swept
<1>8. CASE Shrinks
  <2>1. G \subseteq F /\ \A d \in G : dir'[d].bytes <= dir[d].bytes
    BY <1>7, <1>8 DEF Shrinks
  <2>2. Bytes(dir', G) <= Bytes(dir, F)
    BY <1>1, <1>2, <2>1, BytesGrow
  <2>3. \A d \in K : Bytes(dir', G \ {d}) <= Bytes(dir, F \ {d})
    BY <1>1, <1>2, <2>1, BytesGrow
  <2>4. \A d \in K : Holds(d)' => Holds(d)
    BY <1>8 DEF Shrinks
  <2>5. Bytes(dir', G) <= max
    <3>1. Bytes(dir', G) \in Nat /\ Bytes(dir, F) \in Nat
      BY <1>1, <1>2, <1>5
    <3>2. QED
      BY <1>4, <2>2, <3>1
  <2>6. ASSUME NEW d \in K, Holds(d)'
        PROVE  Bytes(dir', G \ {d}) + Limit <= max
    <3>1. Bytes(dir', G \ {d}) \in Nat /\ Bytes(dir, F \ {d}) \in Nat
      BY <1>1, <1>2, <1>5
    <3>2. Bytes(dir, F \ {d}) + Limit <= max
      BY <1>4, <2>4, <2>6
    <3>3. Bytes(dir', G \ {d}) <= Bytes(dir, F \ {d})
      BY <2>3, <2>6
    <3>4. QED
      BY <1>3, <3>1, <3>2, <3>3
  <2>7. QED
    BY <2>5, <2>6
<1>9. ASSUME NEW d \in Requests, Admits(d)
      PROVE  /\ Bytes(dir', G) <= max
             /\ \A e \in K : Holds(e)' => Bytes(dir', G \ {e}) + Limit <= max
  <2>1. G \subseteq H /\ \A e \in G : dir'[e].bytes <= swept[e].bytes
    BY <1>7, <1>9 DEF Admits, swept
  <2>2. H \subseteq F /\ \A e \in H : swept[e].bytes <= dir[e].bytes
    BY <1>7, <1>9 DEF Admits, swept
  <2>3. Bytes(dir', G) <= Bytes(swept, H) /\ Bytes(swept, H) <= Bytes(dir, F)
    BY <1>1, <1>2, <2>1, <2>2, BytesGrow
  <2>4. Bytes(dir', G) <= max
    BY <1>1, <1>2, <1>4, <1>5, <2>3
  <2>5. ASSUME NEW e \in K, Holds(e)'
        PROVE  Bytes(dir', G \ {e}) + Limit <= max
    <3>1. Bytes(swept, H) + Limit <= max
      BY <1>9, <2>5 DEF Admits, swept
    <3>2. Bytes(dir', G \ {e}) <= Bytes(swept, H)
      BY <1>1, <1>2, <2>1, BytesGrow
    <3>3. QED
      BY <1>1, <1>2, <1>3, <1>5, <3>1, <3>2
  <2>6. QED
    BY <2>4, <2>5
<1>10. ASSUME NEW d \in Requests, Grows(d)
       PROVE  /\ Bytes(dir', G) <= max
              /\ \A e \in K : Holds(e)' => Bytes(dir', G \ {e}) + Limit <= max
  <2>1. G \ {d} \subseteq F \ {d} /\ \A e \in G \ {d} : dir'[e].bytes <= dir[e].bytes
    BY <1>7, <1>10 DEF Grows
  <2>2. Bytes(dir', G \ {d}) <= Bytes(dir, F \ {d})
    BY <1>1, <1>2, <2>1, BytesGrow
  <2>3. CASE d \in K
    <3>1. Bytes(dir', G \ {d}) + Limit <= max
      BY <1>1, <1>2, <1>3, <1>4, <1>5, <1>10, <2>2, <2>3 DEF Grows
    <3>2. Bytes(dir', G) <= Bytes(dir', G \ {d}) + Limit
      BY <1>1, <1>2, BytesOfOne
    <3>3. Bytes(dir', G) <= max
      <4>1. Bytes(dir', G) \in Nat /\ Bytes(dir', G \ {d}) \in Nat
        BY <1>1, <1>2, <1>5
      <4>2. QED
        BY <1>3, <3>1, <3>2, <4>1
    <3>4. QED
      BY <1>10, <3>1, <3>3 DEF Grows
  <2>4. CASE d \notin K
    <3>1. G \ {d} = G /\ F \ {d} = F
      BY <2>4
    <3>2. Bytes(dir', G) <= max
      <4>1. Bytes(dir', G) <= Bytes(dir, F)
        BY <2>2, <3>1
      <4>2. Bytes(dir', G) \in Nat /\ Bytes(dir, F) \in Nat
        BY <1>1, <1>2, <1>5
      <4>3. QED
        BY <1>4, <4>1, <4>2
    <3>3. QED
      BY <1>10, <2>4, <3>2 DEF Grows
  <2>5. QED
    BY <2>3, <2>4
<1>11. QED
  BY <1>8, <1>9, <1>10, StepKinds
\* Every step keeps a file quota of the requests K, if a request of K only enters the lock
\* below it.
LEMMA FitsFilesStep ==
  ASSUME Types, Types', Mutex, [Next]_vars, NEW K \in SUBSET Requests, NEW max \in Nat,
         FitsFiles(K, max),
         \A d \in K : Room(Without(Expired), d) =>
           Cardinality(Files(Without(Expired)) \cap K) < max
  PROVE  FitsFiles(K, max)'
<1> DEFINE swept == Without(Expired)
           F == Files(dir) \cap K
           G == Files(dir') \cap K
           H == Files(swept) \cap K
<1>1. IsFiniteSet(F) /\ IsFiniteSet(G) /\ IsFiniteSet(H)
  BY Bounds, FS_Subset
<1>2. /\ Cardinality(F) <= max
      /\ \A d \in K : Holds(d) => Cardinality(F \ {d}) < max
  BY DEF FitsFiles
<1>3. \A S, T : IsFiniteSet(S) /\ T \subseteq S =>
        Cardinality(T) <= Cardinality(S) /\ Cardinality(T) \in Nat /\ Cardinality(S) \in Nat
  BY FS_Subset, FS_CardinalityType
<1>4. SUFFICES /\ Cardinality(G) <= max
               /\ \A d \in K : Holds(d)' => Cardinality(G \ {d}) < max
  BY DEF FitsFiles
<1> HIDE DEF swept
<1>5. CASE Shrinks
  <2>1. G \subseteq F
    BY <1>5 DEF Shrinks
  <2>2. Cardinality(G) <= max
    BY <1>1, <1>2, <1>3, <2>1
  <2>3. ASSUME NEW d \in K, Holds(d)'
        PROVE  Cardinality(G \ {d}) < max
    <3>1. IsFiniteSet(F \ {d}) /\ G \ {d} \subseteq F \ {d}
      BY <1>1, <2>1, FS_RemoveElement
    <3>2. Cardinality(F \ {d}) < max
      BY <1>2, <1>5, <2>3 DEF Shrinks
    <3>3. /\ Cardinality(G \ {d}) <= Cardinality(F \ {d})
          /\ Cardinality(G \ {d}) \in Nat /\ Cardinality(F \ {d}) \in Nat
      BY <1>3, <3>1
    <3>4. QED
      BY <3>2, <3>3
  <2>4. QED
    BY <2>2, <2>3
<1>6. ASSUME NEW d \in Requests, Admits(d)
      PROVE  /\ Cardinality(G) <= max
             /\ \A e \in K : Holds(e)' => Cardinality(G \ {e}) < max
  <2>1. G \subseteq H /\ H \subseteq F
    BY <1>6 DEF Admits, swept
  <2>2. Cardinality(G) <= Cardinality(H) /\ Cardinality(H) <= Cardinality(F)
    BY <1>1, <1>3, <2>1
  <2>3. Cardinality(G) \in Nat /\ Cardinality(H) \in Nat /\ Cardinality(F) \in Nat
    BY <1>1, FS_CardinalityType
  <2>4. Cardinality(G) <= max
    BY <1>2, <2>2, <2>3
  <2>5. ASSUME NEW e \in K, Holds(e)'
        PROVE  Cardinality(G \ {e}) < max
    <3>1. Cardinality(H) < max
      BY <1>6, <2>5 DEF Admits, swept
    <3>2. Cardinality(G \ {e}) <= Cardinality(G) /\ Cardinality(G \ {e}) \in Nat
      BY <1>1, <1>3
    <3>3. QED
      BY <2>2, <2>3, <3>1, <3>2
  <2>6. QED
    BY <2>4, <2>5
<1>7. ASSUME NEW d \in Requests, Grows(d)
      PROVE  /\ Cardinality(G) <= max
             /\ \A e \in K : Holds(e)' => Cardinality(G \ {e}) < max
  <2>1. G \ {d} \subseteq F \ {d} /\ IsFiniteSet(F \ {d})
    BY <1>1, <1>7, FS_RemoveElement DEF Grows
  <2>2. /\ Cardinality(G \ {d}) <= Cardinality(F \ {d})
        /\ Cardinality(G \ {d}) \in Nat /\ Cardinality(F \ {d}) \in Nat
    BY <1>3, <2>1
  <2>3. CASE d \in K
    <3>1. Cardinality(G \ {d}) < max
      BY <1>2, <1>7, <2>2, <2>3 DEF Grows
    <3>2. Cardinality(G \ {d}) = IF d \in G THEN Cardinality(G) - 1 ELSE Cardinality(G)
      BY <1>1, FS_RemoveElement
    <3>3. Cardinality(G) <= max
      <4>1. Cardinality(G) \in Nat
        BY <1>1, FS_CardinalityType
      <4>2. QED
        BY <2>2, <3>1, <3>2, <4>1
    <3>4. QED
      BY <1>7, <3>1, <3>3 DEF Grows
  <2>4. CASE d \notin K
    <3>1. G \ {d} = G /\ F \ {d} = F
      BY <2>4
    <3>2. Cardinality(G) <= max
      BY <1>2, <2>2, <3>1
    <3>3. QED
      BY <1>7, <2>4, <3>2 DEF Grows
  <2>5. QED
    BY <2>3, <2>4
<1>8. QED
  BY <1>5, <1>6, <1>7, StepKinds

\* The sets the quotas are about.
LEMMA QuotaSets ==
  ASSUME NEW ds
  PROVE  /\ \A s \in Sessions : InSession(ds, s) = Files(ds) \cap OfSession(s)
         /\ \A p \in Profiles : InProfile(ds, p) = Files(ds) \cap OfProfile(p)
         /\ Files(ds) = Files(ds) \cap Requests
  BY DEF InSession, InProfile, OfSession, OfProfile, Files

\* The quotas hold, with what they need, in every reachable state.
LEMMA QuotaInvAlways == Spec => []QuotaInv
<1>1. ASSUME Init
      PROVE  QuotaInv
  <2>1. Types /\ Mutex
    BY <1>1, NoDirType, Bounds DEF Init, Types, Points, Mutex, Holds
  <2>2. Files(dir) = {} /\ \A d \in Requests : ~Holds(d)
    BY <1>1 DEF Init, Files, NoDir, Holds
  <2>3. Bytes(dir, {}) = 0 /\ Cardinality({}) = 0
    BY FS_EmptySet DEF Bytes
  <2>4. ASSUME NEW K \in SUBSET Requests, NEW max \in Nat
        PROVE  FitsFiles(K, max) /\ FitsBytes(K, max)
    <3>1. Files(dir) \cap K = {}
      BY <2>2
    <3>2. QED
      BY <2>2, <2>3, <3>1 DEF FitsFiles, FitsBytes
  <2>5. QED
    BY <2>1, <2>4, Bounds DEF QuotaInv, OfSession, OfProfile
<1>2. ASSUME QuotaInv, [Next]_vars
      PROVE  QuotaInv'
  <2>1. Types /\ Mutex /\ Types' /\ Mutex'
    BY <1>2, TypeStep, MutexStep DEF QuotaInv
  <2>2. ASSUME NEW s \in Sessions
        PROVE  FitsFiles(OfSession(s), SessionMaxFiles)' /\ FitsBytes(OfSession(s), SessionMaxBytes)'
    <3>1. OfSession(s) \subseteq Requests /\ SessionMaxFiles \in Nat /\ SessionMaxBytes \in Nat
      BY Bounds DEF OfSession
    <3>2. FitsFiles(OfSession(s), SessionMaxFiles) /\ FitsBytes(OfSession(s), SessionMaxBytes)
      BY <1>2 DEF QuotaInv
    <3>3. \A d \in OfSession(s) : Room(Without(Expired), d) =>
            /\ Cardinality(Files(Without(Expired)) \cap OfSession(s)) < SessionMaxFiles
            /\ Bytes(Without(Expired), Files(Without(Expired)) \cap OfSession(s)) + Limit
                 <= SessionMaxBytes
      BY QuotaSets DEF Room, OfSession
    <3>4. QED
      BY <1>2, <2>1, <3>1, <3>2, <3>3, FitsFilesStep, FitsBytesStep
  <2>3. ASSUME NEW p \in Profiles
        PROVE  FitsBytes(OfProfile(p), ProfileMaxBytes)'
    <3>1. OfProfile(p) \subseteq Requests /\ ProfileMaxBytes \in Nat
      BY Bounds DEF OfProfile
    <3>2. FitsBytes(OfProfile(p), ProfileMaxBytes)
      BY <1>2 DEF QuotaInv
    <3>3. \A d \in OfProfile(p) : Room(Without(Expired), d) =>
            Bytes(Without(Expired), Files(Without(Expired)) \cap OfProfile(p)) + Limit
              <= ProfileMaxBytes
      BY QuotaSets DEF Room, OfProfile
    <3>4. QED
      BY <1>2, <2>1, <3>1, <3>2, <3>3, FitsBytesStep
  <2>4. FitsBytes(Requests, GlobalMaxBytes)'
    <3>1. GlobalMaxBytes \in Nat
      BY Bounds
    <3>2. FitsBytes(Requests, GlobalMaxBytes)
      BY <1>2 DEF QuotaInv
    <3>3. \A d \in Requests : Room(Without(Expired), d) =>
            Bytes(Without(Expired), Files(Without(Expired)) \cap Requests) + Limit
              <= GlobalMaxBytes
      BY QuotaSets DEF Room
    <3>4. QED
      BY <1>2, <2>1, <3>1, <3>2, <3>3, FitsBytesStep
  <2>5. QED
    BY <2>1, <2>2, <2>3, <2>4 DEF QuotaInv
<1>3. QED
  BY <1>1, <1>2, PTL DEF Spec

\* No quota of a Session, a Profile or the process is ever exceeded, for any number of
\* requests and whatever transfers fail, die or outlive each other.
THEOREM QuotasKept == Spec => []WithinQuotas
<1>1. QuotaInv => WithinQuotas
  BY QuotaSets DEF QuotaInv, WithinQuotas, FitsFiles, FitsBytes
<1>2. QED
  BY <1>1, QuotaInvAlways, PTL

-----------------------------------------------------------------------------
(* Announced files. *)

\* A directory whose request announced its file holds that file whole, or is gone.
Announced == \A d \in Requests : req[d] = "ready" => dir[d].has \in {"none", "whole"}

\* Announced is kept, and what it says of one step.
LEMMA AnnouncedStep ==
  ASSUME Types, Announced, [Next]_vars
  PROVE  /\ Announced'
         /\ \A d \in There(dir) :
              req'[d] = "ready" => dir'[d].has = "whole" \/ now - dir[d].at >= TTL
<1> SUFFICES ASSUME NEW d \in Requests, req'[d] = "ready"
             PROVE  /\ dir'[d].has \in {"none", "whole"}
                    /\ d \in There(dir) => dir'[d].has = "whole" \/ now - dir[d].at >= TTL
  BY DEF Announced, There
<1>1. dir \in [Requests -> Directory] /\ req \in [Requests -> Points]
  BY DEF Types
<1>2. req[d] = "ready" => dir[d].has \in {"none", "whole"}
  BY DEF Announced
<1>3. CASE req[d] = "ready" /\ dir'[d] = dir[d]
  BY <1>2, <1>3 DEF There
<1>4. CASE req[d] = "ready" /\ \E D \in SUBSET Expired : dir'[d] = Without(D)[d]
  BY <1>2, <1>4 DEF Without, Expired, There, NoDir
<1>5. CASE Finish(d)
  BY <1>1, <1>5 DEF Finish
<1>6. CASE \E e \in Requests : Begin(e) \/ EnterFails(e)
  BY <1>1, <1>3, <1>4, <1>6 DEF Begin, EnterFails
<1>7. ASSUME NEW e \in Requests, Enter(e)
      PROVE  req[d] = "ready" /\ \E D \in SUBSET Expired : dir'[d] = Without(D)[d]
  <2>1. d # e /\ req[d] = "ready"
    BY <1>1, <1>7 DEF Enter
  <2>2. dir'[d] = Without(Expired)[d]
    BY <1>7, <2>1 DEF Enter, Without
  <2>3. QED
    BY <2>1, <2>2
<1>8. ASSUME NEW e \in Requests,
             Open(e) \/ Receive(e) \/ FailTransfer(e) \/ Remove(e) \/ (Finish(e) /\ e # d)
      PROVE  req[d] = "ready" /\ dir'[d] = dir[d]
  BY <1>1, <1>8 DEF Open, Receive, FailTransfer, Remove, Finish, Without, Holds
<1>9. CASE Sweep \/ SweepFails
  BY <1>4, <1>9 DEF Sweep, SweepFails
<1>10. CASE Crash \/ Tick \/ UNCHANGED vars
  BY <1>1, <1>3, <1>10 DEF Crash, Tick, vars
<1>11. QED
  BY <1>3, <1>4, <1>5, <1>6, <1>7, <1>8, <1>9, <1>10 DEF Next, Step

\* An announced file stays whole until its lifetime is over: no sweep, failure or crash of
\* another request takes it.
THEOREM AnnouncedFilesStay == Spec => ReadyStays
<1>1. Init => Announced
  BY DEF Init, Announced
<1>2. Types /\ Announced /\ [Next]_vars => Announced'
  BY AnnouncedStep
<1>3. Types /\ Announced /\ [Next]_vars =>
        [\A d \in There(dir) :
           req'[d] = "ready" => dir'[d].has = "whole" \/ now - dir[d].at >= TTL]_vars
  BY AnnouncedStep
<1>4. QED
  BY <1>1, <1>2, <1>3, TypesAlways, PTL DEF Spec, ReadyStays

-----------------------------------------------------------------------------
(* Directories of failed requests. *)

Leftover == {d \in There(dir) : req[d] \in {"refused", "failed"}}

\* A request that was not let in, or not yet, has no directory.
Unmade == \A d \in Requests : req[d] \in {"idle", "lock", "refused"} => dir[d].has = "none"

\* Only what becomes a leftover in a step must be counted in it.
LEMMA UnmadeStep ==
  ASSUME Types, Unmade, [Next]_vars
  PROVE  Unmade'
<1> SUFFICES ASSUME NEW d \in Requests, req'[d] \in {"idle", "lock", "refused"}
             PROVE  dir'[d].has = "none"
  BY DEF Unmade
<1>1. dir \in [Requests -> Directory] /\ req \in [Requests -> Points]
  BY DEF Types
<1>2. CASE req[d] \in {"idle", "lock", "refused"} /\ dir'[d] = dir[d]
  BY <1>2 DEF Unmade
<1>3. CASE req[d] \in {"idle", "lock", "refused"} /\ \E D : dir'[d] = Without(D)[d]
  BY <1>3 DEF Unmade, Without, NoDir
<1>4. CASE \E e \in Requests : Begin(e) \/ EnterFails(e)
  BY <1>1, <1>2, <1>3, <1>4 DEF Begin, EnterFails
<1>5. ASSUME NEW e \in Requests, Enter(e)
      PROVE  req[d] \in {"idle", "lock", "refused"} /\ \E D : dir'[d] = Without(D)[d]
  <2>1. req[d] \in {"idle", "lock", "refused"}
    BY <1>1, <1>5 DEF Enter
  <2>2. dir'[d] = Without(Expired)[d]
    BY <1>1, <1>5 DEF Enter, Without
  <2>3. QED
    BY <2>1, <2>2
<1>6. ASSUME NEW e \in Requests,
             Open(e) \/ Receive(e) \/ FailTransfer(e) \/ Remove(e) \/ Finish(e)
      PROVE  req[d] \in {"idle", "lock", "refused"} /\ dir'[d] = dir[d]
  BY <1>1, <1>6 DEF Open, Receive, FailTransfer, Remove, Finish, Without, Holds
<1>7. CASE Sweep \/ SweepFails
  BY <1>3, <1>7 DEF Sweep, SweepFails
<1>8. CASE Crash \/ Tick \/ UNCHANGED vars
  BY <1>1, <1>2, <1>8 DEF Crash, Tick, vars
<1>9. QED
  BY <1>2, <1>3, <1>4, <1>5, <1>6, <1>7, <1>8 DEF Next, Step

\* A step leaves nothing new behind, or one directory by a removal that raised.
LEMMA LeftoverKinds ==
  ASSUME Types, Unmade, [Next]_vars
  PROVE  \/ Leftover' \subseteq Leftover /\ faults' \in {faults, faults + 1}
         \/ faults' = faults + 1 /\ \E d \in Requests : Leftover' \subseteq Leftover \cup {d}
<1>1. dir \in [Requests -> Directory] /\ req \in [Requests -> Points]
  BY DEF Types
<1>2. ASSUME NEW D, There(dir') \subseteq There(Without(D)),
             \A d \in There(dir) : req'[d] \in {"refused", "failed"} => req[d] = req'[d]
      PROVE  Leftover' \subseteq Leftover
  BY <1>1, <1>2 DEF Leftover, There, Without, NoDir
<1>3. ASSUME NEW d \in Requests, Begin(d)
      PROVE  Leftover' \subseteq Leftover /\ UNCHANGED faults
  BY <1>1, <1>3 DEF Begin, Leftover, There, Unmade
<1>4. ASSUME NEW d \in Requests, Enter(d)
      PROVE  Leftover' \subseteq Leftover /\ UNCHANGED faults
  <2>1. dir[d].has = "none" /\ req[d] = "lock"
    BY <1>4 DEF Enter, Unmade
  <2>2. \A e \in Requests : e # d => dir'[e] = Without(Expired)[e] /\ req'[e] = req[e]
    BY <1>1, <1>4 DEF Enter, Without
  <2>3. d \notin Leftover'
    <3>1. CASE dir' = Without(Expired)
      BY <2>1, <3>1 DEF Leftover, There, Without, NoDir
    <3>2. CASE req' = [req EXCEPT ![d] = "connect"]
      BY <1>1, <3>2 DEF Leftover
    <3>3. QED
      BY <1>4, <3>1, <3>2 DEF Enter
  <2>4. QED
    BY <1>4, <2>2, <2>3 DEF Enter, Leftover, There, Without, NoDir
<1>5. ASSUME NEW d \in Requests, EnterFails(d)
      PROVE  Leftover' \subseteq Leftover /\ faults' \in {faults, faults + 1}
  BY <1>1, <1>2, <1>5 DEF EnterFails, SweepRaises, Unmade, There
<1>6. ASSUME NEW d \in Requests, Open(d) \/ Receive(d) \/ Finish(d)
      PROVE  Leftover' \subseteq Leftover /\ UNCHANGED faults
  <2>1. req'[d] \notin {"refused", "failed"}
    BY <1>1, <1>6 DEF Open, Receive, Finish
  <2>2. \A e \in Requests : e # d => dir'[e] = dir[e] /\ req'[e] = req[e]
    BY <1>1, <1>6 DEF Open, Receive, Finish
  <2>3. QED
    BY <1>6, <2>1, <2>2 DEF Open, Receive, Finish, Leftover, There
<1>7. ASSUME NEW d \in Requests, FailTransfer(d)
      PROVE  Leftover' \subseteq Leftover /\ UNCHANGED faults
  BY <1>1, <1>7 DEF FailTransfer, Leftover, There
<1>8. ASSUME NEW d \in Requests, Remove(d)
      PROVE  \/ Leftover' \subseteq Leftover /\ UNCHANGED faults
             \/ Leftover' \subseteq Leftover \cup {d} /\ faults' = faults + 1
  BY <1>1, <1>8 DEF Remove, Leftover, There, Without, NoDir
<1>9. CASE Sweep \/ SweepFails
  <2>1. PICK D : dir' = Without(D) /\ UNCHANGED req
    BY <1>9 DEF Sweep, SweepFails
  <2>2. Leftover' \subseteq Leftover
    BY <1>2, <2>1
  <2>3. QED
    BY <1>9, <2>2 DEF Sweep, SweepFails, SweepRaises
<1>10. CASE Crash \/ Tick \/ UNCHANGED vars
  BY <1>1, <1>10 DEF Crash, Tick, vars, Leftover, There
<1>11. QED
  BY <1>3, <1>4, <1>5, <1>6, <1>7, <1>8, <1>9, <1>10 DEF Next, Step

\* Beside those the Gateway died under, every directory a failed request leaves behind is
\* paid for by a removal that raised.
THEOREM LeftoversAreCounted == Spec => []LeftoversCounted
<1>1. LeftoversCounted <=> Cardinality(Leftover) <= faults
  BY DEF LeftoversCounted, Leftover
<1>2. Init => Unmade /\ LeftoversCounted
  <2>1. SUFFICES ASSUME Init
                 PROVE  Unmade /\ Leftover = {}
    BY <1>1, FS_EmptySet DEF Init
  <2>2. QED
    BY <2>1 DEF Init, Unmade, Leftover, There, NoDir
<1>3. ASSUME Types, Unmade, LeftoversCounted, [Next]_vars
      PROVE  Unmade' /\ LeftoversCounted'
  <2>1. Unmade'
    BY <1>3, UnmadeStep
  <2>2. IsFiniteSet(Leftover) /\ IsFiniteSet(Leftover')
    <3>1. Leftover \subseteq Requests /\ Leftover' \subseteq Requests
      BY DEF Leftover, There
    <3>2. QED
      BY <3>1, Bounds, FS_Subset
  <2>3. Cardinality(Leftover) \in Nat /\ Cardinality(Leftover') \in Nat
    BY <2>2, FS_CardinalityType
  <2>4. faults \in Nat
    BY <1>3, Bounds DEF Types
  <2>5. Cardinality(Leftover) <= faults
    BY <1>1, <1>3
  <2>6. CASE Leftover' \subseteq Leftover /\ faults' \in {faults, faults + 1}
    <3>1. Cardinality(Leftover') <= Cardinality(Leftover)
      BY <2>2, <2>6, FS_Subset
    <3>2. Cardinality(Leftover') <= faults'
      BY <2>3, <2>4, <2>5, <2>6, <3>1
    <3>3. QED
      BY <2>1, <3>2 DEF LeftoversCounted, Leftover
  <2>7. ASSUME NEW d \in Requests, Leftover' \subseteq Leftover \cup {d}, faults' = faults + 1
        PROVE  LeftoversCounted'
    <3>1. /\ IsFiniteSet(Leftover \cup {d})
          /\ Cardinality(Leftover \cup {d}) \in Nat
          /\ Cardinality(Leftover \cup {d}) <= Cardinality(Leftover) + 1
      <4>1. IsFiniteSet(Leftover \cup {d})
        BY <2>2, FS_AddElement
      <4>2. Cardinality(Leftover \cup {d}) \in {Cardinality(Leftover), Cardinality(Leftover) + 1}
        BY <2>2, FS_AddElement
      <4>3. QED
        BY <2>3, <4>1, <4>2
    <3>2. Cardinality(Leftover') <= Cardinality(Leftover \cup {d})
      BY <2>7, <3>1, FS_Subset
    <3>3. Cardinality(Leftover') <= faults'
      BY <2>3, <2>4, <2>5, <2>7, <3>1, <3>2
    <3>4. QED
      BY <3>3 DEF LeftoversCounted, Leftover
  <2>8. \/ Leftover' \subseteq Leftover /\ faults' \in {faults, faults + 1}
        \/ faults' = faults + 1 /\ \E d \in Requests : Leftover' \subseteq Leftover \cup {d}
    BY <1>3, LeftoverKinds
  <2>9. QED
    BY <2>1, <2>6, <2>7, <2>8
<1>4. QED
  BY <1>2, <1>3, TypesAlways, PTL DEF Spec
=============================================================================
