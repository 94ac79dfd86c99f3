--------------------------- MODULE MCCountedSignal ---------------------------
(* Instances of CountedSignal for TLC; the sizes are in the configuration. *)
EXTENDS CountedSignal, TLC

CONSTANTS a, b
=============================================================================
