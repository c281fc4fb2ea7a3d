------------------------------ MODULE MCTransmit ------------------------------
(* Transmit with a few items. *)
EXTENDS Transmit
=============================================================================
