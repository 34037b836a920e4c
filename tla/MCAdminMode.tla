----------------------------- MODULE MCAdminMode -----------------------------
(* Instances of AdminMode for TLC. *)
EXTENDS AdminMode, TLC

Symmetry == Permutations(Session) \cup Permutations(Handler)
=============================================================================
