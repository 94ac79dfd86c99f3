---------------------------- MODULE MCBlockBuilder ----------------------------
(* Instances of BlockBuilder for TLC; the sizes are in the configurations. *)
EXTENDS BlockBuilder
=============================================================================
