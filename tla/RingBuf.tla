------------------------------- MODULE RingBuf -------------------------------
(***************************************************************************)
(* src/ring.rs: the single-owner ring that overwrites its oldest entry.    *)
(*                                                                         *)
(* Slots start uninitialised and clear leaves them as they are.  usize     *)
(* arithmetic wraps, as it does in a release build; N may be usize::MAX.   *)
(* While an iterator borrows the ring, nothing can change it.              *)
(***************************************************************************)
EXTENDS Integers, Sequences

CONSTANTS N,          \* capacity, the const generic of RingBuf<T, N>
          UsizeMax,   \* usize::MAX
          Val,        \* the values a push may carry
          Uninit      \* what an uninitialised slot holds

ASSUME WindowCapacityAssumption == N \in Nat \ {0} /\ UsizeMax \in Nat /\ N <= UsizeMax
ASSUME WindowValueAssumption == Uninit \notin Val

VARIABLES
    buf, head, len,  \* the fields
    borrowed, pos,   \* a RingIter is live, and its field
    answer           \* history: what the last read returned, {} for None

fields == <<buf, head, len>>
vars   == <<fields, borrowed, pos, answer>>

-----------------------------------------------------------------------------
(* usize arithmetic *)

add(a, b) == (a + b) % (UsizeMax + 1)
sub(a, b) == (a - b) % (UsizeMax + 1)

saturating_sub(a, b) == IF a < b THEN 0 ELSE a - b

-----------------------------------------------------------------------------
(* Reads *)

\* Mutant: the formula the comment on index warns of.
index_Forward(i) == add(sub(add(head, N), len), i) % N

\* Slot of the i-th live element, 0 the oldest.
index(i) ==
    LET back == sub(len, i)
    IN  IF head >= back THEN sub(head, back) ELSE sub(N, sub(back, head))

get(i) == IF i >= len THEN {} ELSE {buf[index(i)]}

latest == IF len = 0 THEN {} ELSE {buf[index(sub(len, 1))]}

size_hint == saturating_sub(len, pos)

-----------------------------------------------------------------------------
Init ==
    /\ buf = [s \in 0 .. N - 1 |-> Uninit]
    /\ head = 0 /\ len = 0
    /\ borrowed = FALSE /\ pos = 0
    /\ answer = {}

\* push, and try_push of Sink, which never refuses.
Push(v) ==
    /\ ~borrowed
    /\ buf' = [buf EXCEPT ![head] = v]
    /\ head' = add(head, 1) % N
    /\ len' = IF len < N THEN add(len, 1) ELSE len
    /\ UNCHANGED <<borrowed, pos, answer>>

\* Mutant: the slot cursor is reset, the length is not.
Clear_HeadOnly ==
    /\ ~borrowed
    /\ head' = 0
    /\ UNCHANGED <<buf, len, borrowed, pos, answer>>

Clear ==
    /\ ~borrowed
    /\ head' = 0 /\ len' = 0
    /\ UNCHANGED <<buf, borrowed, pos, answer>>

Size == answer' = {len} /\ UNCHANGED <<fields, borrowed, pos>>
Get(i) == answer' = get(i) /\ UNCHANGED <<fields, borrowed, pos>>
Latest == answer' = latest /\ UNCHANGED <<fields, borrowed, pos>>

Iter == ~borrowed /\ borrowed' = TRUE /\ pos' = 0 /\ UNCHANGED <<fields, answer>>

IterNext ==
    /\ borrowed
    /\ answer' = get(pos)
    /\ pos' = IF get(pos) = {} THEN pos ELSE add(pos, 1)
    /\ UNCHANGED <<fields, borrowed>>

IterSizeHint ==
    /\ borrowed
    /\ answer' = {size_hint}
    /\ UNCHANGED <<fields, borrowed, pos>>

IterDrop == borrowed /\ borrowed' = FALSE /\ pos' = 0 /\ UNCHANGED <<fields, answer>>

Next ==
    \/ \E v \in Val : Push(v)
    \/ Clear
    \/ \E i \in 0 .. UsizeMax : Get(i)
    \/ Size \/ Latest
    \/ Iter \/ IterNext \/ IterSizeHint \/ IterDrop

Spec == Init /\ [][Next]_vars

-----------------------------------------------------------------------------
(* Properties *)

\* Type invariant.
TypeOK ==
    /\ buf \in [0 .. N - 1 -> Val \cup {Uninit}]
    /\ head \in 0 .. N - 1
    /\ len \in 0 .. N
    /\ borrowed \in BOOLEAN
    /\ pos \in 0 .. len

\* The safety note on RingBuf: every slot a read may address is in the array
\* and has been written, also after clear has moved the cursors, and when the
\* capacity is usize::MAX.
ReadsInitialised ==
    \A i \in 0 .. len - 1 : index(i) \in 0 .. N - 1 /\ buf[index(i)] # Uninit

\* The values the accessors can reach, oldest first.
Live == [k \in 1 .. len |-> buf[index(k - 1)]]

Window == INSTANCE SlidingWindow WITH Capacity <- N, window <- Live

\* The ring is a sliding window: it holds exactly the last N values pushed
\* since the last clear, in order, nothing pushed before the clear comes back,
\* and get, latest and the iterator answer from it.
ImplementsWindow == Window!Spec
=============================================================================
