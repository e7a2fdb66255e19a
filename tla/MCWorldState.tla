---------------------------- MODULE MCWorldState ----------------------------
(* WorldState for TLC. *)
EXTENDS WorldState
=============================================================================
