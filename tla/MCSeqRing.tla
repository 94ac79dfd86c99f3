----------------------------- MODULE MCSeqRing -----------------------------
(* Instances of SeqRing for TLC; the sizes are in the configurations. *)
EXTENDS SeqRing
=============================================================================
