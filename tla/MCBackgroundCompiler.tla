------------------------ MODULE MCBackgroundCompiler ------------------------
(* BackgroundCompiler for TLC. *)
EXTENDS BackgroundCompiler
=============================================================================
