----------------------------- MODULE MCEventBuf -----------------------------
(* Instances of EventBuf for TLC; the sizes are in the configurations. *)
EXTENDS EventBuf, TLC

CONSTANTS a, b, c, x, y

Values == {x, y}
OneValue == {x}
ValueSymmetry == Permutations(Values)
=============================================================================
