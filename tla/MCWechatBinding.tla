--------------------------- MODULE MCWechatBinding ---------------------------
(* Model values of the constants of WechatBinding for TLC. *)
EXTENDS WechatBinding, TLC

CONSTANTS w1, w2, b1, b2, p1, p2, u1, u2
=============================================================================
