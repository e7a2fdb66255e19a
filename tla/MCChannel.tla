----------------------------- MODULE MCChannel -----------------------------
(* Channel for TLC. *)
EXTENDS Channel, TLC

Symmetry == Permutations(Receivers) \cup Permutations(Threads \ Receivers)
=============================================================================
