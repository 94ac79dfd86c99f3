----------------------------- MODULE MCStaticSpsc -----------------------------
(* An instance of StaticSpsc for TLC; the sizes are in the configuration. *)
EXTENDS StaticSpsc

CONSTANTS a, b, c
=============================================================================
