-------------------------- MODULE MCSignalDelivery --------------------------
(* SignalDelivery for TLC. *)
EXTENDS SignalDelivery
=============================================================================
