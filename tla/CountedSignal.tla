---------------------------- MODULE CountedSignal ----------------------------
(***************************************************************************)
(* src/counted_signal.rs: the saturating count of payload-free events, one *)
(* action per atomic access.                                               *)
(*                                                                         *)
(* The count is the sequence of all values stored to it.  An RMW reads the *)
(* last one; the Relaxed load that opens increment may return any value    *)
(* not older than the thread's view, a position in that sequence.  Only    *)
(* the handle flags synchronize: they carry the position along.            *)
(***************************************************************************)
EXTENDS Integers, Sequences

CONSTANTS MAX,           \* u32::MAX
          Producers,     \* threads that may ask for the producer handle
          Consumers,     \* threads that may ask for the consumer handle
          MaxIncrement,  \* bound: increments between two takes
          MaxOps         \* bound: atomic writes to the count in one behaviour

Threads == Producers \cup Consumers

ASSUME SignalMaxAssumption == MAX \in Nat \ {0}
ASSUME SignalBoundAssumption == MaxIncrement \in Nat /\ MaxOps \in Nat

VARIABLES
    count,           \* every value stored to the count, in order
    producer_taken, consumer_taken,   \* the flags: [taken, view]
    prod, cons,      \* threads that hold a live Producer, a live Consumer
    view,            \* per thread: the newest store it is obliged to see
    pc,              \* per thread: the next step of increment
    occurred,        \* history: increments done since the preceding take,
                     \* the seed before the first one
    snapshot         \* history: what the last take returned, and occurred then

flags   == <<producer_taken, consumer_taken, prod, cons>>
history == <<occurred, snapshot>>
vars    == <<count, flags, view, pc, history>>

MaxOf(a, b) == IF a < b THEN b ELSE a

Latest == count[Len(count)]

\* The constructors that seed the count, for the models and the cycle probe.
with_count(c) ==
    /\ count = <<c>>
    /\ producer_taken = [taken |-> FALSE, view |-> 1]
    /\ consumer_taken = [taken |-> FALSE, view |-> 1]
    /\ prod = {} /\ cons = {}
    /\ view = [th \in Threads |-> 1]
    /\ pc = [th \in Threads |-> "idle"]
    /\ occurred = c
    /\ snapshot = [count |-> 0, occurred |-> 0]

\* new seeds 0.
Init == \E c \in 0 .. MAX : with_count(c)

Goto(th, l) == pc' = [pc EXCEPT ![th] = l]

-----------------------------------------------------------------------------
(* Handles: swap(true, AcqRel) to acquire, a Release store to drop. *)

Swapped(flag, th) == [taken |-> TRUE, view |-> MaxOf(flag.view, view[th])]

\* Mutant: the store of Drop is Relaxed.
Released_Relaxed(th) == [taken |-> FALSE, view |-> 1]

Released(th) == [taken |-> FALSE, view |-> view[th]]

TryProducer(th) ==
    /\ th \in Producers /\ pc[th] = "idle"
    /\ prod' = IF producer_taken.taken THEN prod ELSE prod \cup {th}
    /\ producer_taken' = Swapped(producer_taken, th)
    /\ view' = [view EXCEPT ![th] = MaxOf(@, producer_taken.view)]
    /\ UNCHANGED <<count, consumer_taken, cons, pc, history>>

TryConsumer(th) ==
    /\ th \in Consumers /\ pc[th] = "idle"
    /\ cons' = IF consumer_taken.taken THEN cons ELSE cons \cup {th}
    /\ consumer_taken' = Swapped(consumer_taken, th)
    /\ view' = [view EXCEPT ![th] = MaxOf(@, consumer_taken.view)]
    /\ UNCHANGED <<count, producer_taken, prod, pc, history>>

DropProducer(th) ==
    /\ th \in prod /\ pc[th] = "idle"
    /\ prod' = prod \ {th}
    /\ producer_taken' = Released(th)
    /\ UNCHANGED <<count, consumer_taken, cons, view, pc, history>>

DropConsumer(th) ==
    /\ th \in cons /\ pc[th] = "idle"
    /\ cons' = cons \ {th}
    /\ consumer_taken' = Released(th)
    /\ UNCHANGED <<count, producer_taken, prod, view, pc, history>>

-----------------------------------------------------------------------------
(* Producer::increment *)

\* A Relaxed RMW by th that stores v.
Rmw(th, v) ==
    /\ count' = Append(count, v)
    /\ view' = [view EXCEPT ![th] = Len(count) + 1]

IncrementLoad(th) ==
    /\ th \in prod /\ pc[th] = "idle"
    /\ occurred < MaxIncrement /\ Len(count) <= MaxOps
    /\ \E i \in view[th] .. Len(count) :
          /\ view' = [view EXCEPT ![th] = i]
          /\ Goto(th, IF count[i] = MAX THEN "confirm" ELSE "add")
    /\ UNCHANGED <<count, flags, history>>

\* Mutant: a loaded MAX is believed.
Saturated_Believed == TRUE

\* What the re-read through fetch_or(0) finds.
Saturated == Latest = MAX

IncrementConfirm(th) ==
    /\ pc[th] = "confirm"
    /\ Rmw(th, Latest)
    /\ Goto(th, IF Saturated THEN "idle" ELSE "add")
    /\ occurred' = IF Saturated THEN occurred + 1 ELSE occurred
    /\ UNCHANGED <<flags, snapshot>>

\* fetch_add(1), which wraps at MAX.
IncrementAdd(th) ==
    /\ pc[th] = "add"
    /\ Rmw(th, (Latest + 1) % (MAX + 1))
    /\ occurred' = occurred + 1
    /\ Goto(th, "idle")
    /\ UNCHANGED <<flags, snapshot>>

-----------------------------------------------------------------------------
(* Consumer::take_count *)

TakeCount(th) ==
    /\ th \in cons /\ pc[th] = "idle" /\ Len(count) <= MaxOps
    /\ Rmw(th, 0)
    /\ snapshot' = [count |-> Latest, occurred |-> occurred]
    /\ occurred' = 0
    /\ UNCHANGED <<flags, pc>>

-----------------------------------------------------------------------------
Next == \E th \in Threads :
            \/ TryProducer(th) \/ DropProducer(th)
            \/ TryConsumer(th) \/ DropConsumer(th)
            \/ IncrementLoad(th) \/ IncrementConfirm(th) \/ IncrementAdd(th)
            \/ TakeCount(th)

Spec == Init /\ [][Next]_vars

-----------------------------------------------------------------------------
(* Properties *)

Flag == [taken : BOOLEAN, view : Nat]

\* Type invariant.
TypeOK ==
    /\ count \in Seq(0 .. MAX)
    /\ producer_taken \in Flag /\ consumer_taken \in Flag
    /\ prod \subseteq Producers /\ cons \subseteq Consumers
    /\ view \in [Threads -> Nat]
    /\ pc \in [Threads -> {"idle", "confirm", "add"}]
    /\ occurred \in Nat
    /\ snapshot \in [count : 0 .. MAX, occurred : Nat]

Saturate(n) == IF n < MAX THEN n ELSE MAX

\* The count never wraps and loses nothing: it is the number of increments
\* since the preceding take, saturated at MAX, however stale the loads are and
\* whoever holds the handles; and that is what every take returns.
CountExact ==
    /\ Latest = Saturate(occurred)
    /\ snapshot.count = Saturate(snapshot.occurred)
=============================================================================
