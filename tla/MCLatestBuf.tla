---------------------------- MODULE MCLatestBuf ----------------------------
(* Instances of LatestBuf for TLC; the sizes are in the configurations. *)
EXTENDS LatestBuf

CONSTANTS a, b
=============================================================================
