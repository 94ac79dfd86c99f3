------------------------------ MODULE MCForward ------------------------------
(* Instances of Forward for TLC; the sizes are in the configurations. *)
EXTENDS Forward
=============================================================================
