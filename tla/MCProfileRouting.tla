-------------------------- MODULE MCProfileRouting --------------------------
(* Model values of the constants of ProfileRouting for TLC. *)
EXTENDS ProfileRouting, TLC

CONSTANTS m1, m2, p1, p2, u1
=============================================================================
