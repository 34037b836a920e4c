---------------------------- MODULE MCCredentials ----------------------------
(* Model values for Credentials, interchangeable where only equality counts. *)
EXTENDS Credentials, TLC

Symmetry == Permutations(Device) \cup Permutations(Pair)
=============================================================================
