------------------------------ MODULE EventFlags ------------------------------
(***************************************************************************)
(* src/event_flags.rs: the coalescing set of conditions, used as the       *)
(* doorbell its documentation describes: the producing side writes a word  *)
(* of application state and raises a condition, the consuming side takes   *)
(* the conditions and reads the words behind them.                         *)
(*                                                                         *)
(* A mask is the set of its bit indices.  pending is only ever accessed by *)
(* RMWs, so each reads the last value and continues every earlier release  *)
(* sequence.  The application's words are accessed Relaxed; a view says,   *)
(* per word, how many of its writes a thread is obliged to see.            *)
(***************************************************************************)
EXTENDS Integers, FiniteSets, Functions

CONSTANTS BITS,        \* u32::BITS, the number of conditions
          Producers,   \* threads that may ask for the producer handle
          Consumers,   \* threads that may ask for the consumer handle
          MaxWrite     \* bound: writes to the application's words

ASSUME FlagsBitsAssumption == BITS \in Nat \ {0}
ASSUME FlagsBoundAssumption == MaxWrite \in Nat

Conditions == 0 .. BITS - 1
Threads == Producers \cup Consumers

VARIABLES
    pending,         \* [mask, view]
    producer_taken, consumer_taken,   \* the flags: [taken, view]
    prod, cons,      \* threads that hold a live Producer, a live Consumer
    view,            \* per thread: what it is obliged to see
    written,         \* application: writes made, per word
    got,             \* application: conditions a thread took and did not handle
    since,           \* history: conditions raised since the preceding take
    announced,       \* history: per condition, the writes its last raise followed
    seen             \* history: per word, the newest write a handler has read

handles == <<producer_taken, consumer_taken, prod, cons>>
history == <<since, announced, seen>>
vars    == <<pending, handles, view, written, got, history>>

-----------------------------------------------------------------------------
(* EventMask.  An Option is the set of what it holds. *)

EMPTY == {}
ALL   == Conditions

from_index(index) == IF index < BITS THEN {{index}} ELSE {}

is_empty(self)          == self = EMPTY
contains(self, other)   == self \cap other = other
intersects(self, other) == self \cap other # EMPTY
bitor(self, rhs)        == self \cup rhs
bitand(self, rhs)       == self \cap rhs

-----------------------------------------------------------------------------
Nothing == [c \in Conditions |-> 0]

Join(u, v) == [c \in Conditions |-> IF u[c] < v[c] THEN v[c] ELSE u[c]]

Init ==
    /\ pending = [mask |-> EMPTY, view |-> Nothing]
    /\ producer_taken = [taken |-> FALSE, view |-> Nothing]
    /\ consumer_taken = [taken |-> FALSE, view |-> Nothing]
    /\ prod = {} /\ cons = {}
    /\ view = [th \in Threads |-> Nothing]
    /\ written = Nothing
    /\ got = [th \in Threads |-> EMPTY]
    /\ since = EMPTY
    /\ announced = [c \in Conditions |-> Nothing]
    /\ seen = Nothing

-----------------------------------------------------------------------------
(* Handles: swap(true, AcqRel) to acquire, a Release store to drop. *)

Swapped(flag, th) == [taken |-> TRUE, view |-> Join(flag.view, view[th])]

\* Mutant: the store of Drop is Relaxed.
Released_Relaxed(th) == [taken |-> FALSE, view |-> Nothing]

Released(th) == [taken |-> FALSE, view |-> view[th]]

TryProducer(th) ==
    /\ th \in Producers
    /\ prod' = IF producer_taken.taken THEN prod ELSE prod \cup {th}
    /\ producer_taken' = Swapped(producer_taken, th)
    /\ view' = [view EXCEPT ![th] = Join(@, producer_taken.view)]
    /\ UNCHANGED <<pending, consumer_taken, cons, written, got, history>>

TryConsumer(th) ==
    /\ th \in Consumers
    /\ cons' = IF consumer_taken.taken THEN cons ELSE cons \cup {th}
    /\ consumer_taken' = Swapped(consumer_taken, th)
    /\ view' = [view EXCEPT ![th] = Join(@, consumer_taken.view)]
    /\ UNCHANGED <<pending, producer_taken, prod, written, got, history>>

DropProducer(th) ==
    /\ th \in prod
    /\ prod' = prod \ {th}
    /\ producer_taken' = Released(th)
    /\ UNCHANGED <<pending, consumer_taken, cons, view, written, got, history>>

DropConsumer(th) ==
    /\ th \in cons
    /\ cons' = cons \ {th}
    /\ consumer_taken' = Released(th)
    /\ UNCHANGED <<pending, producer_taken, prod, view, written, got, history>>

-----------------------------------------------------------------------------
(* Producer::raise and Consumer::take_all *)

\* Mutant: a plain Release store in place of fetch_or.
Raised_Store(mask, th) == [mask |-> mask, view |-> view[th]]

Raised(mask, th) ==
    [mask |-> bitor(pending.mask, mask), view |-> Join(pending.view, view[th])]

Raise(th, mask) ==
    /\ th \in prod
    /\ pending' = Raised(mask, th)
    /\ since' = since \cup mask
    /\ announced' = [c \in Conditions |-> IF c \in mask THEN written ELSE announced[c]]
    /\ UNCHANGED <<handles, view, written, got, seen>>

\* Mutant: the swap is Relaxed.
Acquired_Relaxed(th) == view[th]

\* What the swap(0, Acquire) makes visible to th.
Acquired(th) == Join(view[th], pending.view)

\* swap(0) is an RMW: what earlier raises released stays attached.
Cleared == [pending EXCEPT !.mask = EMPTY]

TakeAll(th) ==
    /\ th \in cons /\ is_empty(got[th])
    /\ got' = [got EXCEPT ![th] = pending.mask]
    /\ view' = [view EXCEPT ![th] = Acquired(th)]
    /\ pending' = Cleared
    /\ since' = EMPTY
    /\ UNCHANGED <<handles, written, announced, seen>>

-----------------------------------------------------------------------------
(* The application on both sides *)

\* The producing side updates the state behind condition c.
Write(th, c) ==
    /\ th \in prod /\ SumFunction(written) < MaxWrite
    /\ written' = [written EXCEPT ![c] = @ + 1]
    /\ view' = [view EXCEPT ![th][c] = written[c] + 1]
    /\ UNCHANGED <<pending, handles, got, history>>

\* The consuming side reads the words behind the conditions of mask.
Read(th, mask) ==
    /\ \E r \in [mask -> 0 .. MaxWrite] :
          /\ \A c \in mask : r[c] \in view[th][c] .. written[c]
          /\ view' = [view EXCEPT ![th] =
                         [c \in Conditions |-> IF c \in mask THEN r[c] ELSE @[c]]]
          /\ seen' = [c \in Conditions |->
                         IF c \in mask /\ seen[c] < r[c] THEN r[c] ELSE seen[c]]
    /\ got' = [got EXCEPT ![th] = @ \ mask]
    /\ UNCHANGED <<pending, handles, written, since, announced>>

\* One handler per condition, as in the Loom models: got.contains(ready).
HandleIndex(th, index) ==
    \E one \in from_index(index) : contains(got[th], one) /\ Read(th, one)

\* One handler for a group of conditions.
HandleGroup(th, mask) ==
    intersects(got[th], mask) /\ Read(th, bitand(got[th], mask))

Handle(th) ==
    \/ \E index \in 0 .. BITS : HandleIndex(th, index)
    \/ \E mask \in SUBSET ALL : HandleGroup(th, mask)

-----------------------------------------------------------------------------
Next == \E th \in Threads :
            \/ TryProducer(th) \/ DropProducer(th)
            \/ TryConsumer(th) \/ DropConsumer(th)
            \/ \E mask \in SUBSET ALL : Raise(th, mask)
            \/ TakeAll(th)
            \/ \E c \in Conditions : Write(th, c)
            \/ Handle(th)

Spec == Init /\ [][Next]_vars

\* The consuming side is a loop of acquiring the handle if it is free, taking
\* and handling.  Nothing is assumed of the producing side, and a consumer may
\* drop its handle at any time, so taking needs strong fairness.
Fairness == \A th \in Consumers :
                /\ WF_vars(TryConsumer(th))
                /\ SF_vars(TakeAll(th))
                /\ WF_vars(Handle(th))

FairSpec == Spec /\ Fairness

-----------------------------------------------------------------------------
(* Properties *)

View == [Conditions -> Nat]
Flag == [taken : BOOLEAN, view : View]

\* Type invariant.
TypeOK ==
    /\ pending \in [mask : SUBSET Conditions, view : View]
    /\ producer_taken \in Flag /\ consumer_taken \in Flag
    /\ prod \subseteq Producers /\ cons \subseteq Consumers
    /\ view \in [Threads -> View]
    /\ written \in View
    /\ got \in [Threads -> SUBSET Conditions]
    /\ since \subseteq Conditions
    /\ announced \in [Conditions -> View]
    /\ seen \in View

\* C1 - C3: what the next take will return is exactly the conditions raised since
\* the preceding one: nothing is lost, invented or returned twice, whoever holds
\* the handles.
TakeExact == pending.mask = since

\* What the current consumer, or the next one, is obliged to see.
Visible == IF cons = {} THEN {consumer_taken.view} ELSE {view[th] : th \in cons}

\* S1, H3: every write made before a raise is visible to the consuming side, or
\* one of the conditions raised is still pending and will tell it to look.  It
\* holds across any change of hands on either side: the writes may be those of
\* an earlier producer, and the take that of an earlier consumer.
DoorbellHolds ==
    \A c \in Conditions :
        \/ c \in pending.mask
        \/ \A v \in Visible, w \in Conditions : announced[c][w] <= v[w]

\* Whatever was written before a raise is eventually read by a handler.
NoLostWakeup ==
    \A c \in Conditions, n \in 1 .. MaxWrite :
        announced[c][c] >= n ~> seen[c] >= n
=============================================================================
