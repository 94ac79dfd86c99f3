----------------------------- MODULE MCEventFlags -----------------------------
(* An instance of EventFlags for TLC; the sizes are in the configuration. *)
EXTENDS EventFlags

CONSTANTS a, b
=============================================================================
