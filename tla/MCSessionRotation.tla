-------------------------- MODULE MCSessionRotation --------------------------
(* Model values of the constants of SessionRotation for TLC. *)
EXTENDS SessionRotation, TLC

CONSTANTS c1, c2, c3, p1, p2

\* Threads are alike, and so are Profiles.
Alike == Permutations({c1, c2, c3}) \cup Permutations({p1, p2})
=============================================================================
