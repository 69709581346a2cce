-------------------------------- MODULE MCAppend --------------------------------
(* Append with the bounds of Append.cfg. *)
EXTENDS Append
=============================================================================
