# ph-eventing: specification, model checking and proofs

`ph-eventing` is a `no_std` crate of fixed-size hand-over primitives for embedded
targets: lock-free single-producer single-consumer buffers and signals between
an interrupt handler, tasks and threads. This directory models the primitives in
TLA+ at the level of single atomic accesses, checks them with TLC on small
instances and proves the safety of the primitives with TLAPS.

Paths below are relative to the repository; `src/x.rs` is a file of the crate.

## 1. Inventory

| Component | State | Operations | What makes it correct |
|---|---|---|---|
| `EventBuf<T, N>` (`src/event_buf.rs`) | cursors `head`, `tail` (u32, wrapping), `N` slots, two handle flags | `try_producer`, `try_consumer`, `push`, `pop`, `peek`, `drain`, `len`/`is_empty`/`is_full`, drop of a handle | bounded FIFO: no accepted event lost, repeated or reordered; no race on a slot; `len` never above `N` |
| `LatestBuf<T>` (`src/latest_buf.rs`) | exchange word, three slots, role state of each side, two flags | `publish`, `take_latest`, handles | three disjoint owners; the newest publication is what a take returns; every publication is returned, replaced or pending; skip counts |
| `SeqRing<T, N>` (`src/seq_ring.rs`) | `next_seq`, `published_seq`, per slot a sequence and a payload, two flags; in the consumer `last_seq`, `dropped_accum` | `push`, `poll_one`, `poll_one_value`, `poll_up_to`, `latest`, `latest_value`, `skip_to_latest`, `dropped`, `reset_dropped`, handles | no torn or foreign item; every push is read or counted as dropped; a poll is bounded; loss only after a lag of `N` |
| `CountedSignal` (`src/counted_signal.rs`) | one counter, two flags | `increment`, `take_count`, handles | a take returns the increments since the last one, saturated; the counter never wraps |
| `EventFlags` (`src/event_flags.rs`) | one word of 32 conditions, two flags | `raise`, `take_all`, mask operations, handles | takes partition the raises; a taken bit makes the data written before its raise visible; no lost wake-up |
| `RingBuf<T, N>` (`src/ring.rs`) | array, `head`, `len`, single owner | `push`, `get`, `latest`, `iter`, `clear` | holds the last `N` values since the last clear, oldest first; reads no uninitialised slot |
| `BlockBuilder<T, N>` (`src/block.rs`) | partial block, first and last sequence | `push`, `clear` | a block is `N` consecutive sequences; a sample is in one block, in an error, or dropped by a policy |
| `Sink`, `Source`, `Link`, `forward` (`src/traits.rs`) | none | `forward` | what leaves the source arrives or is returned; the count is exact; the call ends |
| `static_spsc!` (`src/macros.rs`) | a static buffer | `take`, `buffer`/`ring` | both handles or none; a failed take strands nothing |

Interaction is by shared memory only. Each primitive has at most one live
`Producer` and one live `Consumer`; both are `Send + !Sync`, so a handle may move
between threads, and the flag (`swap(true, AcqRel)` to acquire, a `Release` store
in `Drop`) is what orders the old holder before the new one. `forward` and the
users' own code compose primitives by calling one and then the other.

What is hard here: weak memory (a `Relaxed` or `Acquire` load may return an old
value, plain memory is covered only by happens-before), interleavings of two
sides in the middle of an operation, handles that change hands, u32 counters that
wrap after 2^32 operations with or without a reserved 0, and `SeqRing`'s
intentional race between copy and overwrite. There is no persistence, no
messaging and no blocking, so crashes, lost messages and deadlock do not arise.
`PROJECT.json` lists each hazard with its line and the properties that cover it.

## 2. Modules

| Module | Role |
|---|---|
| `EventQueue` | abstract bounded FIFO queue |
| `EventBuf` | `src/event_buf.rs`, every operation |
| `LatestChannel` | abstract newest-value channel with loss evidence |
| `LatestBuf` | `src/latest_buf.rs`, every operation |
| `SeqRing` | `src/seq_ring.rs`, every operation |
| `CountedSignal` | `src/counted_signal.rs`, every operation |
| `EventFlags` | `src/event_flags.rs`, every operation, with the application state the flags are the doorbell of |
| `SlidingWindow` | abstract window of the last `N` values |
| `RingBuf` | `src/ring.rs`, every operation |
| `BlockBuilder` | `src/block.rs`, between a stream with gaps and a transport of blocks |
| `StaticSpsc` | `take()` of `src/macros.rs` and single acquisitions, on the two flags |
| `Forward` | `forward` of `src/traits.rs`, between a source and a sink in use |
| `MC...` | instances for TLC |
| `WrapArithmetic` | lemmas on `%` |
| `EventBufProof`, `LatestBufProof`, `SeqRingProof`, `CountedSignalProof`, `EventFlagsProof` | the theorems about the component of that name and their proofs |
| `RingBufProof` | the same for `RingBuf` |
| `GlueProof` | the same for `StaticSpsc`, `BlockBuilder` and `Forward`, each by itself |

`GlueProof` extends three component modules at once, so the last two of them prefix the
names they would share: `BlockSpec`, `BlockTypeOK`, `ForwardSpec`, `ForwardTypeOK` and so on.

### How the code is modelled

*One action per access to shared memory.* `push`, for example, is `PushLoadHead`,
`PushLoadTail` (with its early return), `PushWrite`, `PushStore`; the local
variables of a call are kept per thread (`lhead`, `ltail`, `lval`, `pc`).

*Memory.* An atomic location that several threads write or read is the sequence of
all stores made to it. A thread has a view, a position in each sequence: a load
returns any store at or after the view, an `Acquire` load joins the view that a
`Release` store carries, a read-modify-write returns the last store. Plain memory
(slots, role state) carries stamps of its accesses, and `NoSlotRace` demands that
every access about to be made happens after every earlier conflicting one: a data
race is a violated invariant, not a silently atomic access. This is the
release/acquire fragment of the C++ memory model without load buffering. Every
store to a location is appended at the end, that is, in the order of execution:
each plain or atomic store in this code is made by the only writer of its
location, or is a read-modify-write.

*SeqRing's memory.* The producer is the only one to store, so memory is the log of
its stores in program order, each with the prefix that an acquiring reader is
obliged to see. A payload is two words copied one by one, so a torn copy exists in
the model; the volatile accesses are taken as Relaxed word accesses, which is what
the module's documentation claims of the hardware (in the language they are a
documented data race). A handed-over consumer inherits its predecessor's view (the
flag transfers it); a handed-over producer inherits the stores but not the
predecessor's Release fence. A failed `try_producer` or `try_consumer` of SeqRing
changes nothing and is a stutter.

*Flags and static buffers.* All accesses to the word of `EventFlags` and to the
handle flags are read-modify-writes or the holder's store, so each reads the last
value; what matters is the view it hands on. In `EventFlags` the views are of the
application's words: the producing side writes a word and raises, the consuming side
takes and reads, in one handler per condition or per group of them. In `StaticSpsc`
they are of the state only the owner of a handle writes (cursor and slots, counted as
`work`). Both arms of `static_spsc!` have the same `take`; a single acquisition through
`buffer()` or `ring()` is what makes it fail half-way.

*Compositions.* `BlockBuilder` is put between an upstream that numbers its samples and
omits some (up to a whole span at once) and a transport for the blocks, which is a
bounded queue that refuses or a channel that keeps the newest: what `EventBuf` and
`LatestBuf` promise (`keepLatest`, chosen in `Init`, says which; so does `overwrites` in
`Forward`). The caller's policies for a refused sample (drop it, or `clear`
and offer it again) and a refused block (retry, or drop it) are actions. `Forward`
likewise uses its ends by their contracts: an `EventBuf` sink refuses on the evidence of
a tail that may be stale (`freed` counts the pops it has not seen), a `SeqRing` or
`RingBuf` sink overwrites, and a source may answer `None` although an item is left (a
stale head; a ring overwritten under the poll).

*RingBuf.* One owner, so an operation is one action; a live iterator is a borrow that
excludes `push` and `clear`. `usize` wraps at `UsizeMax`, which the capacity may equal.

*Numbers.* u32 values wrap at `Modulus` (2^32 in the code), and `Start` lets a
behaviour begin just before the wrap, in the state of a buffer through which that
many events have passed. `saturating_add` keeps its limit `UsizeMax`.

*History variables* (`accepted`, `popped`, `published`, `taken`, `occurred`, `pos`,
...) record what happened, number it without wrap, and influence no action of the program
(the bound `MaxDrops` reads one).

The masks of `EventFlags` are sets of bit indices; `from_index` answers `None` beyond the
last. `CountedSignal` may start at any count, which is what the seeding constructors of
the Loom models and of the cycle probe do.

Left out: `capacity`, `is_empty`, `is_full` of `RingBuf` and `BlockBuilder`, `Debug` and `Default`, `&T` hooks other than what they are
given (a hook cannot reach the handle that calls it), the Loom variants of constructors, and the layout of statics.

## 3. Runs

| Run | Instance | Shows |
|---|---|---|
| `event_fifo` | N 2, 4 cursor values, starts at 3, thread `a` producer, thread `b` both roles, drain up to 2, 3 pushes of 2 values (symmetric) | `NoSlotRace`, `OldestInPlace`, `NothingLost`, `ImplementsQueue`, `AnswersJustified` |
| `event_len` | N 1, 4 cursor values, 2 pushes, a producer and two threads that pass the consumer handle on, one of which also calls `len`; `FairSpec` | `LenBounded`, `LenBracketed`, `EventuallyDelivered` |
| `event_wrap` | N 3, 4 cursor values | violation: `NothingLost` (finding 1) |
| `latest_exchange` | 2 generations, 3 publications, both handles shared by two threads; `FairSpec` | `OwnershipDisjoint`, `NoSlotRace`, `HintHolds`, `Conservation`, `ImplementsChannel`, `EventuallyTaken` |
| `ring_aligned` | N 2, span 4, starts after push 3, polls of 0 to 2, drop counters saturating at 3, 3 pushes, a `skip_to_latest` only after at most 2 drops | `GenuineItem`, `CursorExact`, `EveryPushCounted`, `PollBounded`, `CursorNear`, `NoEarlyMiss`, `JumpOverOne` |
| `ring_power_of_two` | N 4, span 15 | violation: `OneEarlyMiss` (finding 2) |
| `signal_count` | MAX 2, two threads that may each hold either handle, 4 increments between takes, 7 writes | `CountExact` |
| `flags_doorbell` | 2 conditions, two threads that trade both handles, one write to either word; `FairSpec` | `TakeExact`, `DoorbellHolds`, `NoLostWakeup` |
| `ringbuf_window` | N = `usize::MAX` = 3, three values | `ReadsInitialised`, `ImplementsWindow` |
| `block_transport` | blocks of 3, span 4, a queue of 1 or a newest-value channel, 11 samples, gaps up to a span | `BlocksContiguous`, `NoFalseGap`, `SamplesConserved` |
| `spsc_take` | two threads in `take()`, one acquiring single handles; `FairSpec` | `NothingStranded`, `HandoffVisible`, `TakeSucceeds` |
| `forward_transfer` | source and sink of 2, refusing or overwriting, calls of 0 to 3, 5 tags; `FairForwardSpec` | `ForwardLossless`, `TransferExact`, `CallEnds` |

The first run of each of the three buffers checks its `TypeOK` as well.

Each passing run has a mutant of the code for each property: a weaker memory
order, a missing fence, an off-by-one in a test, a wrap that is not skipped. The
mutated definitions stand before the ones they change.

*Why the bounds suffice.* The cursor arithmetic has two regimes, before and after
the wrap; every instance starts at most one step before the wrap and passes it. Two
slots and three events reach full, empty, reuse of a slot and a slot reused
across the wrap; the third event reuses the slot of the first. Two threads are
enough for every hand-over, since a handle has one holder at a time, and a thread
with both roles is among them. LatestBuf's three publications fill its three
slots and exceed its two generations, so that a take can jump a whole span. The
producer of SeqRing overwrites a slot while it is being copied, laps the consumer
across the wrap, and can get a whole span ahead of a read that has begun (from push 2
to push 6), so that the re-check can be fooled. One write to one of two words is enough
for every order of a write, a raise of either condition, a take and a hand-over. Blocks are longer than what is left
before the wrap, and an omitted span makes two samples look consecutive. `forward` has
no unbounded state: the tags of items are reused, and the run covers behaviours of any
length. With two writers of a flag a third thread adds no new order of two swaps and
a store; `spsc_take` has three because a take can fail at either step. Where a proof exists the question of bounds
does not arise.

*What SeqRing counts.* `CursorExact` says that the cursor is the sequence of the push `pos` it
stands for. `EveryPushCounted` says that the counts fit that: `pos - excused` is the number
of pushes the polls went past without giving them to a hook, `excused` being what
precedes the first poll or the last `reset_dropped`, plus what `skip_to_latest` jumped over,
plus one for each hook call; `dropped()` and what the poll under way has yet to add to it must
be that number, and in the poll itself `read + dropped` must be the way since its entry, each
up to `usize::MAX`. The counts in the run go from 0 to 4 with a limit of 3, so they are exact
below it and stay at it. `skip_to_latest` may step back over an entry that was dropped, and
with a slot left invalid it can be dropped again and again: `MaxDrops` ends that, since a
repetition only adds one more to a count that has reached its limit. Pushes a whole number of
spans behind are not gone past and not counted, as the module documents.

*What the run of `len` does not reach.* Its two pushes do not let the last, unverified pair of
the fallback get further apart than N, so in `event_len` the clamp never changes the
answer: that takes four pushes, with which the liveness of that run is too long to check. The
clamped answer is covered by theorems `LenWithin` and `LenBetween` only.

`LenBounded` and `LenBracketed` hold while fewer than `Modulus` pushes happen; with
more, the two loads of `tail` in `len` can be equal although a whole span of pops
lies between, and the argument at `src/event_buf.rs:181` does not hold for a caller
suspended that long. `SeqRing` documents the like ("whole-span sequence aliasing"):
`GenuineItem` excepts the copy whose sequence came round a whole number of times, and
nothing else; `PollBounded` and `CursorNear` count modulo the span.

Deadlock checking is on in all runs: threads may always try for a handle.

*Fairness* of `EventBuf` and `LatestBuf`. A step of a call that has
begun is taken eventually (weak fairness: no operation waits for another thread);
a thread that may acquire the consumer handle tries; a holder polls again and
again (strong fairness, because it may drop and reacquire the handle); and a load
repeated for ever eventually returns the newest store (strong fairness of the load
of the last store; the language requires stores to become visible in finite time).
Nothing is assumed of the producer except that a call once begun is finished.
For `SeqRing` no liveness is stated: `PollBounded` and `CursorNear` are its wait freedom
as safety, since every poll that finds something ends close to the mark it sampled,
wherever the producer stopped. `EventFlags` assumes a consuming side that tries for a free handle, takes
again and again (strong fairness, as it may drop the handle) and handles what it took.
`StaticSpsc` assumes threads that call `take()` while they have nothing, finish the call, and
drop what they got in the end (strong fairness: a holder may call `take()` again in
between). As long as single handles are claimed past `take()`, it may rightly fail for
ever; `TakeSucceeds` excepts that. `Forward` assumes only that the thread inside the call keeps running.

A `take()` that fails holds the producer flag for a moment, so a call of `try_producer` or
another `take()` may answer `None` in that window although no handle was handed out.
`NothingStranded` shows that the window closes, `TakeSucceeds` that such failures do not
feed on each other.

## 4. Findings

1. **EventBuf loses events at the cursor wrap if `N` is not a power of two**
   (run `event_wrap`). Slots are `pos % N` and `pos` wraps at 2^32; unless `N` divides
   2^32 the positions 2^32 - 1 and 0 are not neighbours: for `N = 3` they share slot 0. An
   accepted event is overwritten and its successor delivered twice. The module
   documentation says "no events are silently lost" (`src/event_buf.rs:5`) and
   "The producer and consumer never touch the same slot" (`src/event_buf.rs:23`),
   `README.md:453` that "no indexing or capacity logic requires" a power of two.
2. **A power-of-two `SeqRing` may lose up to `N - 1` entries at the wrap, not
   "Exactly 1"** (run `ring_power_of_two`; `src/seq_ring.rs:110`, `README.md:460`).
   The slot walk slips by one, so every entry in front of the wrap that the consumer
   has not reached is overwritten one push early. N = 4: 13 is lost to push 1,
   then 14 to push 2, each with three newer entries.
The recovery jump counts the reserved 0 and may step over one live entry, for divisors of
2^32 - 1 too, where the table at `src/seq_ring.rs:111` says "0"; the text at
`src/seq_ring.rs:121` admits it, and `JumpOverOne` shows that it is never more than one.

## 5. Proofs

All theorems hold for every value of the constants allowed by the named
assumptions in the component modules: any capacity above 0 and below `Modulus`, any
sets of threads, any number of pushes.

`EventBuf`:

* `TypeCorrect`: `Spec => []TypeOK`. The inductive invariant `Typed` adds that every
  view points into the modification orders and that the loop counters stay in range;
  without it a load could index outside the sequence.
* `Answers`: `Spec => AnswersJustified`, for every capacity.
* `RaceFree`, `OldestFirst`, `NoLoss`: `NoSlotRace`, `OldestInPlace`, `NothingLost`,
  assuming `Modulus % N = 0`. Finding 1 shows that the assumption is needed.
* `Refinement`: `Spec => ImplementsQueue` under the same assumption: `PushStore` is an
  `Accept`, `PopStore` a `Deliver`, every other step a stutter.
* `LenWithin`, `LenBetween`: `LenBounded`, `LenBracketed`, for every capacity, assuming
  `MaxPush < Modulus`, that is, in behaviours of fewer pushes than the cursors have values;
  why the assumption is needed is said in section 3.

The argument has two layers. `Ordered` needs no assumption on the capacity: the k-th
store of a cursor holds `Start + k - 1` wrapped (`Cursors`), a flag admits one holder
(`Handled`), a holder knows its own cursor exactly and enough of the other one, and a free
flag carries that knowledge to the next holder (`Knowing`), and the locals of a
call agree with the shared state (`Locals`). From the wrapped difference of two cursors
at most `N` apart, with `N < Modulus`, the full test is exact (`CursorDistance`).
`Contents` then says which slot holds which event; it uses that positions less than
`N` apart have different slots, which holds across the wrap only if `N` divides
`Modulus` (`SlotOfCursor`, `SlotsApart`). `WrapArithmetic` holds the facts about `%`.
For `len`, `Measured` adds that its two locals are the stores the caller's view stands at and that
whoever acquires a store of one cursor knows the other one well enough (`Carried`): with the
fence, a second load of `tail` that finds the same value bounds the head read in between.

`LatestBuf`:

* `TypeCorrect`, `Ownership`, `RaceFree`, `HintSound`, `Conserved`: `TypeOK`,
  `OwnershipDisjoint`, `NoSlotRace`, `HintHolds`, `Conservation`, for every number of
  generations, any set of threads and any number of publications and hand-overs.
* `Refinement`: `Spec => ImplementsChannel`: the swap of `publish` is a `Publish`, the
  swap of `take_latest` a `Take`, every other step a stutter.

Back slot, front slot and the slot in the exchange word are a permutation (`Distinct`); the
ready bit is set exactly while the newest word is a publication nobody took (`Hinted`, which
is why the None after the swap is never reached). Races are excluded by `Covered`: each
slot's last accesses are seen by its owner, or are carried by the word or by the free flag
through which the next owner gets it; a swap hands on what it read and what it writes in one
step, so the three slots go round without a gap. `Contents` says which publication each
slot holds and `Accounts` adds up the skipped counts; the generation distance is modulo the
span, so exactness is claimed only while a take stays within one (`inspan`), as the code
documents. Two assumptions are on the model's own values, that there is a thread and that the
mark of an unwritten slot is no item.

`SeqRing`:

* `TypeCorrect`, `Genuine`, `Exact`, `Bounded`, `Near`, `JumpsOne`: `TypeOK`, `GenuineItem`,
  `CursorExact`, `PollBounded`, `CursorNear`, `JumpOverOne`, for every capacity smaller than
  the span and any number of pushes.
* `Counted`: `EveryPushCounted`, for every `usize::MAX` as well.
* `NoneMissed`: `NoEarlyMiss`, assuming `Span % N = 0`. Finding 2 shows that the assumption
  is needed.

`Logged` says what the log of stores is: push k is the five stores at 5k - 4 .. 5k, in
program order, with the sequences and words of push k and with the prefixes that the fence
and the Release store carry. So what a load may return follows from where the reader's view
stands (`StoresOf`, `ReadSlot`, `ReadWord`). `Cursor` says that `last_seq` is push `pos` up
to whole spans, `Sampled` that the mark of a poll or of `latest` names a push begun. `Copying`
carries the argument of the sequence lock: a word of the copy is that of the push wanted, or
the copy's view has passed the invalidation by a later push; after the acquire fence the
re-check is obliged to see that invalidation or a newer store, so an unchanged sequence means
an unchanged slot or a whole number of spans. `Distance`, `Resume` and `Jump` are the u32
arithmetic of the lag test and the jump, with the reserved 0 stepped over. `Counts` is
inductive beside that invariant: nothing is counted outside a poll, a jump adds its distance to
both `pos` and `dropped`, and a turn adds one to `pos` and to either `excused` or a
counter; `SaturatedSum` and `SaturatedTurn` say that saturating additions, in whatever
order, give the saturated sum.

`EventFlags`:

* `Exact`: `Spec => [](TypeOK /\ TakeExact)`, for any set of conditions.
* `Doorbell`: `Spec => []DoorbellHolds`. A raise comes after the writes of its thread and of the
  holders before it (`ProducerKnows`, `RaisesAfterWrites`); a pending bit carries them
  (`PendingCarries`), and a take moves them to its thread and from there to every later
  holder of the consumer handle (`Rung`).

`RingBuf`:

* `InitialisedReads`: `Spec => [](TypeOK /\ ReadsInitialised)`, for every capacity and every
  `usize::MAX` not below it. The invariant says that the `len` slots behind `head` were
  written (`Written`) and a position only exists within a borrow (`NoIterator`).
* `Refinement`: `Spec => ImplementsWindow`; the window is the sequence of those slots, and
  the three forms of the code's slot arithmetic are the same index (none overflows).

`StaticSpsc`:

* `Stranding`: `Spec => [](TypeOK /\ NothingStranded)`, for any number of threads in `take()`.
  A thread in the middle of `take()` accounts for the producer flag (`MidTake`), so that a
  set flag has exactly one owner (`SoleOwner`).
* `Handoff`: `Spec => []HandoffVisible`: a free flag carries all the work of its role
  (`FreeCarries`), a rolled back claim included.

`CountedSignal`:

* `SignalExact`: `Spec => [](TypeOK /\ CountExact)`, from any seed. The invariant says that since the
  producer's view only takes have written, so any value a stale load returns is at
  least the current one (`Falling`); hence an observed value below `MAX` leaves room for
  `fetch_add` (`RoomToAdd`), and the free flag hands the same knowledge on.

`BlockBuilder` (in `GlueProof`):

* `BlockTyped`: `BlockSpec => []BlockTypeOK`.
* `Contiguous`: `BlocksContiguous`, for every block size and sequence width, number
  of samples and pattern of gaps. The partial block is what a faithful block is, up to
  `len` (`Held`), and everything that left the builder is faithful (`Shipped`), so no refusal,
  clear or retry in between can break one. The lemmas are `NextOf` (the wrap past the
  reserved 0) and `DueFollows` (a later sample with the sequence that is due follows, or a
  whole number of spans was omitted).
* `GapReal`: `NoFalseGap`. It needs that a refused sample comes back with the sequence it was
  offered with (`Returned`).
* `Conservation`: `SamplesConserved`, for either transport, every capacity and every
  policy of the caller. The samples made are split into six sets, one per place
  (`Conserved`), and each action moves a set as a whole (`Moves`, `Joins`). That a block also
  arrives once and in order needs more than the sets: each place holds only samples older than
  those of the places behind it (`Below`, in `Ordered`), the refused sample being newer than
  the partial block, so the order of the line follows from where a block stands.

`Forward` (in `GlueProof`):

* `Lossless`: `ForwardSpec => [](ForwardTypeOK /\ ForwardLossless)`, for every capacity of
  source and sink and every `max`. At most one item is outside the two (`OneInHand`); where it
  is does not matter to the run of items (`Moved`), and the run only grows at one end and
  shrinks at the other (`LinkedNext`, `Popped`).
* `CountExact`: `TransferExact`; the local count is the number of items entered and leaves
  room for the one in hand (`CountKept`).

Each inductive invariant was checked by TLC on the instance of the component's run before
it was proved.

### Only model-checked

Liveness (`EventuallyDelivered`, `EventuallyTaken`, `NoLostWakeup`, `TakeSucceeds`,
`CallEnds`): fairness and `ENABLED` are out of reach of the prover.

The bound "Up to `N - 1`" that `src/seq_ring.rs:112` gives for other `N` is not checked:
`ring_aligned` has an `N` that divides the span, and finding 2 is about one that does not.

Facts that need induction over data cannot be proved with the installed
backends (the induction theorems take an operator as a parameter), nor can anything be
proved in a module that reaches a `RECURSIVE` operator; the modules here have none.

## 6. Plan

Every component that keeps state is modelled, and every safety and action property that a
passing run checks is proved. The hypotheses that some theorems carry are limits of the code:
`Modulus % N = 0` (finding 1), `Span % N = 0` (finding 2) and `MaxPush < Modulus` (`len`, section 3).
If the cursors or the slot index are changed to lift one, its theorem is the one to prove again
without it.

## 7. Not modelled

`src/sync.rs` re-exports the atomics, whose semantics is the memory model above; its
`TrackedCell` is the stamped cells. `src/lib.rs` (documentation and features), `build.rs` (a
build-time check that two features are not combined), `src/loom_tests.rs` (tests of the same
protocols with Loom) and `scripts/` keep no state of the library: `scripts/cycles` and
`scripts/codesize` are straight-line calls between markers, measured from outside,
`scripts/probes/block_shape.rs` is a copy of `Block` and `BlockBuilder` that those probes
measure, the rest is CI. The critical sections
that `portable-atomic` uses on single-core targets without atomics are outside the
repository; they are at least as strong as the atomics modelled.
