----------------------------- MODULE RouteTable -----------------------------
(***************************************************************************)
(* What the provisioner promises to the Gateway: the managed routes of     *)
(* config.yaml, as pairs of a Profile and the WeChat user whose chat it    *)
(* serves.  One atomic write of the file binds a pair, displacing only     *)
(* what conflicts with it, or removes exactly one pair.  WechatBinding     *)
(* implements this module; ProfileRouting reads the table it describes.    *)
(***************************************************************************)
CONSTANTS Profiles, Users

VARIABLE table

Route(p, u) == [prof |-> p, user |-> u]

Init == table = {}

Bind(p, u) == table' = {r \in table : r.prof # p /\ r.user # u} \cup {Route(p, u)}

Unbind(p, u) == table' = table \ {Route(p, u)}

Next == \E p \in Profiles, u \in Users : Bind(p, u) \/ Unbind(p, u)

Spec == Init /\ [][Next]_table
=============================================================================
