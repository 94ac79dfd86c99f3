---------------------------- MODULE SlidingWindow ----------------------------
(***************************************************************************)
(* What a RingBuf promises: it holds the last Capacity values pushed since *)
(* it was created or cleared, and every accessor answers from them.  An    *)
(* answer is the set of what the returned Option holds.                    *)
(***************************************************************************)
EXTENDS Naturals, Sequences

CONSTANTS Capacity,   \* the const generic N of RingBuf<T, N>
          Val         \* the values a push may carry

VARIABLES window,     \* the values held, oldest first
          pos,        \* values the live iterator has yielded
          answer      \* what the last read returned

vars == <<window, pos, answer>>

Init == window = <<>> /\ pos = 0 /\ answer = {}

Keep(v) ==
    /\ window' = IF Len(window) < Capacity THEN Append(window, v)
                 ELSE Append(Tail(window), v)
    /\ UNCHANGED <<pos, answer>>

Forget == window' = <<>> /\ UNCHANGED <<pos, answer>>

At(k) == IF k \in DOMAIN window THEN {window[k]} ELSE {}

Get(k)  == answer' = At(k) /\ UNCHANGED <<window, pos>>
Newest  == Get(Len(window))
Size    == answer' = {Len(window)} /\ UNCHANGED <<window, pos>>
Restart == pos' = 0 /\ UNCHANGED <<window, answer>>

Yield ==
    /\ answer' = At(pos + 1)
    /\ pos' = IF pos < Len(window) THEN pos + 1 ELSE pos
    /\ UNCHANGED window

Remaining == answer' = {Len(window) - pos} /\ UNCHANGED <<window, pos>>

Next ==
    \/ \E v \in Val : Keep(v)
    \/ Forget
    \/ \E k \in 1 .. Capacity + 1 : Get(k)
    \/ Size \/ Newest \/ Restart \/ Yield \/ Remaining

Spec == Init /\ [][Next]_vars
=============================================================================
