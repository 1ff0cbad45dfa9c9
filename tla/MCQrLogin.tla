----------------------------- MODULE MCQrLogin -----------------------------
(* Model values of the constants of QrLogin for TLC. *)
EXTENDS QrLogin, TLC

CONSTANTS r1, r2, e1, e2, e3, i1, i2, i3, a1, a2
=============================================================================
