------------------------------ MODULE LatestBuf ------------------------------
(***************************************************************************)
(* src/latest_buf.rs: the three-slot freshness-first channel, one action   *)
(* per atomic access.                                                      *)
(*                                                                         *)
(* The exchange word is the sequence of all stores made to it, each with   *)
(* the view its Release half carries.  A swap always reads the last one;   *)
(* the load that opens take_latest may return any store not older than the *)
(* thread's view.  Slots and role states are plain memory: each access     *)
(* leaves a stamp, and an access is race-free if the stamp it finds is     *)
(* inside the accessing thread's view.  A payload is the number of its     *)
(* publication (1, 2, ...), so no two payloads are equal.                  *)
(***************************************************************************)
EXTENDS Integers, Sequences

CONSTANTS Producers,    \* threads that may ask for the producer handle
          Consumers,    \* threads that may ask for the consumer handle
          Modulus,      \* number of u32 values
          Uninit,       \* MaybeUninit::uninit()
          MaxPublish    \* bound: publications in one behaviour

Threads == Producers \cup Consumers

ASSUME LatestModulusAssumption == Modulus \in Nat /\ Modulus > 2
ASSUME LatestBoundAssumption == MaxPublish \in Nat
ASSUME LatestThreadsAssumption == Threads # {}
ASSUME LatestUninitAssumption == Uninit \notin [generation : Nat, value : Nat]

VARIABLES
    exchange,        \* stores to the exchange word: [word, view]
    slots,           \* per slot: the Entry, or Uninit
    producer_state,  \* [back_encoded, next_generation]
    consumer_state,  \* [front_encoded, last_generation]
    stamps,          \* per plain location: [by, at], its last access
    producer_taken, consumer_taken,   \* the flags: [taken, view]
    prod, cons,      \* threads that hold a live Producer, a live Consumer
    view,            \* per thread: [xchg, seen], see View
    pc,              \* per thread: the next step of the call it is in
    published,       \* history: publications made
    taken,           \* history: the payload last claimed
    returned,        \* history: items returned
    replaced,        \* history: reports with replaced_unread
    skips,           \* history: sum of all skipped counts returned
    inspan,          \* history: no claim ever jumped a whole generation span
    report, item     \* history: the last PublishReport, the last LatestItem

flags   == <<producer_taken, consumer_taken, prod, cons>>
history == <<published, taken, returned, replaced, skips, inspan, report,
             item>>
vars    == <<exchange, slots, producer_state, consumer_state, stamps, flags,
             view, pc, history>>

-----------------------------------------------------------------------------
(* The words of the code *)

SLOT_MASK == 3
READY_BIT == 4

encode(slot, ready) == slot + (IF ready THEN READY_BIT ELSE 0)
slot(state)  == state % (SLOT_MASK + 1)
ready(state) == (state \div READY_BIT) % 2 = 1

\* x ^ 1 and x ^ 2 on two-bit numbers; each is its own inverse.
producer_slot(encoded) == IF encoded % 2 = 0 THEN encoded + 1 ELSE encoded - 1
\* Mutant: the slot is stored without its encoding.
encode_producer_slot_Raw(s) == s

encode_producer_slot(s) == producer_slot(s)
consumer_slot(encoded) == IF encoded < 2 THEN encoded + 2 ELSE encoded - 2
encode_consumer_slot(s) == consumer_slot(s)

\* Mutant: the wrap does not skip the reserved 0.
next_generation_Plain(current) == (current + 1) % Modulus

next_generation(current) ==
    IF (current + 1) % Modulus = 0 THEN 1 ELSE (current + 1) % Modulus

\* Mutant: the distance counts the reserved 0.
generation_distance_Raw(from, to) == (to - from) % Modulus

generation_distance(from, to) ==
    LET raw == (to - from) % Modulus IN IF to < from THEN raw - 1 ELSE raw

\* Mutant: the returned publication is counted as skipped.
saturating_dec_Not(n) == n

saturating_dec(n) == IF n = 0 THEN 0 ELSE n - 1

-----------------------------------------------------------------------------
(* Views and stamps *)

\* xchg: position in the modification order of exchange; seen: per thread, how
\* many of its plain accesses happen before the viewer's next step.
View == [xchg : Nat, seen : [Threads -> Nat]]

Fresh == [xchg |-> 1, seen |-> [t \in Threads |-> 0]]

MaxOf(a, b) == IF a < b THEN b ELSE a

Join(v, w) == [xchg |-> MaxOf(v.xchg, w.xchg),
               seen |-> [t \in Threads |-> MaxOf(v.seen[t], w.seen[t])]]

\* The view of th after it has made a plain access, and the stamp that leaves.
Accessed(v, th) == [v EXCEPT !.seen[th] = @ + 1]
Stamp(v, th) == [by |-> th, at |-> v.seen[th] + 1]

\* Mutant: the swap is Relaxed.
Swapping_Relaxed(th) == [view[th] EXCEPT !.xchg = Len(exchange) + 1]

\* A swap(_, AcqRel) of the exchange word by th: what it acquires.
Swapping(th) ==
    [Join(view[th], exchange[Len(exchange)].view) EXCEPT !.xchg = Len(exchange) + 1]

\* Plain locations: the slots 0, 1, 2 and the two role states.
BackCell == 3
FrontCell == 4

-----------------------------------------------------------------------------
NoReport == [generation |-> 0, replaced_unread |-> FALSE]
NoItem   == [value |-> 0, generation |-> 0, skipped |-> 0]

Init ==
    /\ exchange = <<[word |-> 0, view |-> Fresh]>>
    /\ slots = [s \in 0 .. 2 |-> Uninit]
    /\ producer_state = [back_encoded |-> 0, next_generation |-> 0]
    /\ consumer_state = [front_encoded |-> 0, last_generation |-> 0]
    /\ stamps = [l \in 0 .. FrontCell |->
                    [by |-> CHOOSE t \in Threads : TRUE, at |-> 0]]
    /\ producer_taken = [taken |-> FALSE, view |-> Fresh]
    /\ consumer_taken = [taken |-> FALSE, view |-> Fresh]
    /\ prod = {} /\ cons = {}
    /\ view = [t \in Threads |-> Fresh]
    /\ pc = [t \in Threads |-> "idle"]
    /\ published = 0 /\ taken = 0 /\ returned = 0
    /\ replaced = 0 /\ skips = 0 /\ inspan = TRUE
    /\ report = NoReport /\ item = NoItem

Goto(th, l) == pc' = [pc EXCEPT ![th] = l]

-----------------------------------------------------------------------------
(* Handles: swap(true, AcqRel) to acquire, a Release store to drop.  The   *)
(* role states stay in the channel.                                        *)

Swapped(flag, th) == [taken |-> TRUE, view |-> Join(flag.view, view[th])]

\* Mutants: the store of Drop is Relaxed; Drop forgets the flag.
Released_Relaxed(th) == [taken |-> FALSE, view |-> Fresh]
Released_Kept(th) == [taken |-> TRUE, view |-> view[th]]

Released(th) == [taken |-> FALSE, view |-> view[th]]

TryProducer(th) ==
    /\ th \in Producers /\ pc[th] = "idle"
    /\ prod' = IF producer_taken.taken THEN prod ELSE prod \cup {th}
    /\ producer_taken' = Swapped(producer_taken, th)
    /\ view' = [view EXCEPT ![th] = Join(@, producer_taken.view)]
    /\ UNCHANGED <<exchange, slots, producer_state, consumer_state, stamps,
                   consumer_taken, cons, pc, history>>

TryConsumer(th) ==
    /\ th \in Consumers /\ pc[th] = "idle"
    /\ cons' = IF consumer_taken.taken THEN cons ELSE cons \cup {th}
    /\ consumer_taken' = Swapped(consumer_taken, th)
    /\ view' = [view EXCEPT ![th] = Join(@, consumer_taken.view)]
    /\ UNCHANGED <<exchange, slots, producer_state, consumer_state, stamps,
                   producer_taken, prod, pc, history>>

DropProducer(th) ==
    /\ th \in prod /\ pc[th] = "idle"
    /\ prod' = prod \ {th}
    /\ producer_taken' = Released(th)
    /\ UNCHANGED <<exchange, slots, producer_state, consumer_state, stamps,
                   consumer_taken, cons, view, pc, history>>

DropConsumer(th) ==
    /\ th \in cons /\ pc[th] = "idle"
    /\ cons' = cons \ {th}
    /\ consumer_taken' = Released(th)
    /\ UNCHANGED <<exchange, slots, producer_state, consumer_state, stamps,
                   producer_taken, prod, view, pc, history>>

-----------------------------------------------------------------------------
(* Producer::publish *)

Newest == exchange[Len(exchange)].word
Back  == producer_slot(producer_state.back_encoded)
Front == consumer_slot(consumer_state.front_encoded)

\* Assign the generation and write the payload into the owned slot.
PublishWrite(th) ==
    LET generation == next_generation(producer_state.next_generation)
    IN  /\ th \in prod /\ pc[th] = "idle" /\ published < MaxPublish
        /\ producer_state' = [producer_state EXCEPT !.next_generation = generation]
        /\ slots' = [slots EXCEPT ![Back] = [generation |-> generation,
                                             value |-> published + 1]]
        /\ stamps' = [stamps EXCEPT ![BackCell] = Stamp(view[th], th),
                                    ![Back] = Stamp(view[th], th)]
        /\ view' = [view EXCEPT ![th] = Accessed(@, th)]
        /\ Goto(th, "publish_swap")
        /\ UNCHANGED <<exchange, consumer_state, flags, history>>

\* The exchange, the new back slot, and the report.
PublishSwap(th) ==
    LET v == Swapping(th)
    IN  /\ pc[th] = "publish_swap"
        /\ exchange' = Append(exchange, [word |-> encode(Back, TRUE), view |-> v])
        /\ producer_state' = [producer_state EXCEPT
                !.back_encoded = encode_producer_slot(slot(Newest))]
        /\ stamps' = [stamps EXCEPT ![BackCell] = Stamp(v, th)]
        /\ view' = [view EXCEPT ![th] = Accessed(v, th)]
        /\ published' = published + 1
        /\ replaced' = IF ready(Newest) THEN replaced + 1 ELSE replaced
        /\ report' = [generation |-> producer_state.next_generation,
                      replaced_unread |-> ready(Newest)]
        /\ Goto(th, "idle")
        /\ UNCHANGED <<slots, consumer_state, flags, taken, returned, skips,
                       inspan, item>>

-----------------------------------------------------------------------------
(* Consumer::take_latest *)

\* Mutant: the ready bit is not tested before the swap.
TakeLoadAt_Untested(th, i) ==
    /\ th \in cons /\ pc[th] = "idle"
    /\ view' = [view EXCEPT ![th] =
                    Join([@ EXCEPT !.xchg = i], exchange[i].view)]
    /\ Goto(th, "take_swap")
    /\ UNCHANGED <<exchange, slots, producer_state, consumer_state, stamps,
                   flags, history>>

\* The Acquire load that returned store i; None returns unless it is ready.
TakeLoadAt(th, i) ==
    /\ th \in cons /\ pc[th] = "idle"
    /\ view' = [view EXCEPT ![th] =
                    Join([@ EXCEPT !.xchg = i], exchange[i].view)]
    /\ Goto(th, IF ready(exchange[i].word) THEN "take_swap" ELSE "idle")
    /\ UNCHANGED <<exchange, slots, producer_state, consumer_state, stamps,
                   flags, history>>

TakeLoad(th) == \E i \in view[th].xchg .. Len(exchange) : TakeLoadAt(th, i)

\* The exchange that claims a slot; the code also allows for a claim that is
\* not ready, which keeps the slot and returns None.
TakeSwap(th) ==
    LET v == Swapping(th)
    IN  /\ pc[th] = "take_swap"
        /\ exchange' = Append(exchange, [word |-> encode(Front, FALSE), view |-> v])
        /\ consumer_state' = [consumer_state EXCEPT
                !.front_encoded = encode_consumer_slot(slot(Newest))]
        /\ stamps' = [stamps EXCEPT ![FrontCell] = Stamp(v, th)]
        /\ view' = [view EXCEPT ![th] = Accessed(v, th)]
        /\ taken' = IF ready(Newest) THEN slots[slot(Newest)].value ELSE taken
        /\ inspan' = (inspan /\ taken' - taken < Modulus - 1)
        /\ Goto(th, IF ready(Newest) THEN "take_read" ELSE "idle")
        /\ UNCHANGED <<slots, producer_state, flags, published, returned,
                       replaced, skips, report, item>>

\* The LatestItem made of an entry and the consumer's last generation.
LatestItem(entry) ==
    [value |-> entry.value, generation |-> entry.generation,
     skipped |-> saturating_dec(
        generation_distance(consumer_state.last_generation, entry.generation))]

\* Copy the claimed payload, account for what was skipped, return the item.
TakeRead(th) ==
    LET entry == slots[Front]
    IN  /\ pc[th] = "take_read"
        /\ item' = LatestItem(entry)
        /\ consumer_state' = [consumer_state EXCEPT !.last_generation = entry.generation]
        /\ stamps' = [stamps EXCEPT ![FrontCell] = Stamp(view[th], th),
                                    ![Front] = Stamp(view[th], th)]
        /\ view' = [view EXCEPT ![th] = Accessed(@, th)]
        /\ returned' = returned + 1
        /\ skips' = skips + LatestItem(entry).skipped
        /\ Goto(th, "idle")
        /\ UNCHANGED <<exchange, slots, producer_state, flags, published, taken,
                       replaced, inspan, report>>

-----------------------------------------------------------------------------
Handles(th) == \/ TryProducer(th) \/ DropProducer(th)
               \/ TryConsumer(th) \/ DropConsumer(th)
Publish(th) == PublishWrite(th) \/ PublishSwap(th)
Take(th) == TakeLoad(th) \/ TakeSwap(th) \/ TakeRead(th)

Next == \E th \in Threads : Handles(th) \/ Publish(th) \/ Take(th)

Spec == Init /\ [][Next]_vars

\* A consumer that keeps polling: a store becomes visible to a load that is
\* repeated for ever, and every call is finished.
Fairness ==
    \A th \in Threads :
        /\ WF_vars(TryConsumer(th))
        /\ SF_vars(TakeLoadAt(th, Len(exchange)))
        /\ WF_vars(TakeSwap(th) \/ TakeRead(th))
        /\ WF_vars(PublishSwap(th))

FairSpec == Spec /\ Fairness

-----------------------------------------------------------------------------
(* Properties *)

Entries == [generation : 1 .. Modulus - 1, value : Nat \ {0}]

PCs == {"idle", "publish_swap", "take_swap", "take_read"}

\* Type invariant: words, encoded slots and generations stay in their ranges,
\* the reserved generation 0 is never in a slot.
TypeOK ==
    /\ exchange \in Seq([word : 0 .. 6, view : View]) /\ exchange # <<>>
    /\ slots \in [0 .. 2 -> Entries \cup {Uninit}]
    /\ producer_state \in [back_encoded : 0 .. 3, next_generation : 0 .. Modulus - 1]
    /\ consumer_state \in [front_encoded : 0 .. 3, last_generation : 0 .. Modulus - 1]
    /\ stamps \in [0 .. FrontCell -> [by : Threads, at : Nat]]
    /\ producer_taken \in [taken : BOOLEAN, view : View]
    /\ consumer_taken \in [taken : BOOLEAN, view : View]
    /\ prod \subseteq Producers /\ cons \subseteq Consumers
    /\ view \in [Threads -> View]
    /\ pc \in [Threads -> PCs]
    /\ {published, taken, returned, replaced, skips} \subseteq Nat

\* The three roles never share a slot, whatever swaps interleave.
OwnershipDisjoint ==
    /\ {Back, Front, slot(Newest)} = 0 .. 2
    /\ ready(Newest) => slots[slot(Newest)] # Uninit

\* Every plain access a thread is about to make, to a slot or to a role state,
\* happens after every earlier access to it, also across a handle hand-over.
Ordered(th, l) == stamps[l].at <= view[th].seen[stamps[l].by]

NoSlotRace ==
    \A th \in Threads :
        /\ th \in prod /\ pc[th] = "idle" => Ordered(th, BackCell) /\ Ordered(th, Back)
        /\ pc[th] = "publish_swap" => Ordered(th, BackCell)
        /\ pc[th] = "take_swap" => Ordered(th, FrontCell)
        /\ pc[th] = "take_read" => Ordered(th, FrontCell) /\ Ordered(th, Front)

\* The ready hint of take_latest never lies: the swap that follows it always
\* claims a publication, so the empty path after the swap is dead.
HintHolds == \A th \in Threads : pc[th] = "take_swap" => ready(Newest)

TakeInFlight == \E th \in Threads : pc[th] = "take_read"
Pending == IF ready(Newest) THEN 1 ELSE 0

\* Conservation: every publication was returned, reported as replaced, or is
\* pending; and the skipped counts add up to what the takes jumped over, exact
\* within a span, never too many beyond it.
Conservation ==
    ~TakeInFlight =>
        /\ published = returned + replaced + Pending
        /\ returned + skips <= taken
        /\ inspan => returned + skips = taken

\* The channel as its contract describes it.  A take linearizes at its swap: the
\* item of a take that is still to copy its payload is already determined.
Channel == INSTANCE LatestChannel
    WITH pending <- IF ready(Newest) THEN slots[slot(Newest)].value ELSE 0,
         item <- IF TakeInFlight THEN LatestItem(slots[Front]) ELSE item
ImplementsChannel == Channel!Spec

\* The newest publication is eventually claimed by a consumer that keeps polling.
EventuallyTaken ==
    \A k \in 1 .. MaxPublish : (published >= k) ~> (taken >= k)
=============================================================================
