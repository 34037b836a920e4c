------------------------- MODULE MCPushSubscriptions -------------------------
(* Instances of PushSubscriptions for TLC. *)
EXTENDS PushSubscriptions, TLC

Symmetry == Permutations(Handler)
=============================================================================
