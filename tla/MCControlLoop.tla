--------------------------- MODULE MCControlLoop ----------------------------
(* A counter that wraps every few periods. *)
EXTENDS ControlLoop
=============================================================================
