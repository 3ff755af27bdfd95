-------------------------- MODULE MCConnectionSpec --------------------------
(* A small instance of ConnectionSpec for TLC. *)
EXTENDS ConnectionSpec, TLC

Symmetries == Permutations(Peers) \cup Permutations(ConnIds)
=============================================================================
