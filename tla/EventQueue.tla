----------------------------- MODULE EventQueue -----------------------------
(***************************************************************************)
(* What an EventBuf promises its users: a bounded first-in first-out       *)
(* queue.  An accepted event is delivered exactly once, in order, with the *)
(* value it was pushed with; an event is accepted only while fewer than    *)
(* Capacity accepted events are waiting.  Rejected pushes and empty pops   *)
(* change nothing, so they are stuttering steps here.                      *)
(***************************************************************************)
EXTENDS Naturals, Sequences

CONSTANTS Capacity,   \* the const generic N of EventBuf<T, N>
          Val         \* the values a push may carry

VARIABLES queue,      \* accepted events that were not delivered yet
          delivered   \* every event a pop has returned, oldest first

vars == <<queue, delivered>>

Init == queue = <<>> /\ delivered = <<>>

Accept(v) ==
    /\ Len(queue) < Capacity
    /\ queue' = Append(queue, v)
    /\ UNCHANGED delivered

Deliver ==
    /\ queue # <<>>
    /\ queue' = Tail(queue)
    /\ delivered' = Append(delivered, Head(queue))

Next == Deliver \/ \E v \in Val : Accept(v)

Spec == Init /\ [][Next]_vars
=============================================================================
