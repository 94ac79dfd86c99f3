------------------------------ MODULE MCRingBuf ------------------------------
(* Instances of RingBuf for TLC; the sizes are in the configuration. *)
EXTENDS RingBuf
=============================================================================
