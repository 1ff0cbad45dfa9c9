------------------------- MODULE MCAttachmentCache -------------------------
(* Values of the constants of AttachmentCache for TLC. *)
EXTENDS AttachmentCache, TLC

CONSTANTS f1, f2, p1, p2, s1, s2, s3, t1

\* Every file is sent by p1's employee, or the second one by p2's.
OwnerAll1 == [f \in Files |-> p1]
Owner12 == [f \in Files |-> IF f = f1 THEN p1 ELSE p2]
\* Only s3 is a Session of p2.
ProfileOf12 == [s \in Sessions |-> IF s = s3 THEN p2 ELSE p1]
SizeOne == [f \in Files |-> 1]

\* With SizeOne and OwnerAll1 the two files, and the two Sessions of p1, are alike.
Alike == Permutations({f1, f2}) \cup Permutations({s1, s2})
=============================================================================
