------------------------------- MODULE SeqRing -------------------------------
(***************************************************************************)
(* src/seq_ring.rs: the overwriting SPSC ring, one action per access to    *)
(* shared memory.                                                          *)
(*                                                                         *)
(* Only the producer stores, so memory is the log of its stores in program *)
(* order; rel is how much of the log an acquiring reader of that store is  *)
(* obliged to see.  The consumer's view is a prefix of the log (known) and *)
(* the last store it read at each location; a load may return any store    *)
(* not older than these.  A payload is two words, lo and hi, written and   *)
(* copied separately: the volatile accesses are taken as Relaxed word      *)
(* accesses, which is what the module documentation claims of hardware.    *)
(* Pushes are numbered without wrap; the payload of push k is k, k.        *)
(***************************************************************************)
EXTENDS Integers, Sequences, FiniteSetsExt

CONSTANTS N,          \* capacity, the const generic of SeqRing<T, N>
          Modulus,    \* number of u32 values
          Start,      \* pushes made, all of them visible, before Init
          UsizeMax,   \* usize::MAX
          MaxPoll,    \* largest max passed to poll_up_to
          MaxPush,    \* bound: pushes in one behaviour
          MaxDrops    \* bound: drops counted before a skip_to_latest, which may
                      \* go back and have an entry dropped again

Span == Modulus - 1   \* number of sequence values, 0 is reserved

ASSUME RingCapacityAssumption == N \in Nat \ {0}
ASSUME RingModulusAssumption == Modulus \in Nat /\ N < Span
ASSUME RingStartAssumption == Start \in 0 .. Span
ASSUME RingBoundAssumption == {UsizeMax, MaxPoll, MaxPush, MaxDrops} \subseteq Nat

VARIABLES
    next_seq,        \* the producer's counter
    log,             \* the producer's stores: [loc, val, rel]
    fenced,          \* length of the log at the producer thread's last Release fence
    producer_taken,  \* a Producer is live
    ppc, pseq,       \* producer: next step of push, its local seq
    pushes,          \* history: pushes finished since Init
    consumer_taken,  \* a Consumer is live
    last_seq, dropped_accum,   \* its fields
    known, cview,    \* consumer's view
    cpc,             \* consumer: next step of the call it is in
    newest, target,  \* locals newest, and the sequence read_seq_inner is after
    max, got_read, dropped,    \* locals max, read and dropped of poll_up_to
    copy, acquired,  \* the copied words, and what the fence will acquire
    newestAbs,       \* history: number of the push newest was sampled from
    pos,             \* history: number of the last push accounted for, -1 if
                     \* this Consumer has not polled anything yet
    excused,         \* history: how many pushes up to pos this Consumer need not
                     \* count as dropped: those before its first poll or its last
                     \* reset_dropped, those skip_to_latest passed over, and those
                     \* a poll's hook was given; -1 while pos is
    entry,           \* history: pos at the entry of the poll under way
    missed, jumpedOver,  \* history: pushes this Consumer dropped though fewer
                     \* than N were newer, by a failed read and by the jump
    got              \* history: what the last hook was given

producerVars == <<next_seq, log, fenced, producer_taken, ppc, pseq, pushes>>
handleVars   == <<consumer_taken, last_seq, dropped_accum, pos, excused>>
callVars     == <<newest, target, max, got_read, dropped, copy, acquired, newestAbs,
                  entry>>
losses       == <<missed, jumpedOver>>
vars == <<producerVars, handleVars, callVars, known, cview, cpc, losses, got>>

-----------------------------------------------------------------------------
(* Sequence arithmetic *)

wrapping_add(a, b) == (a + b) % Modulus
wrapping_sub(a, b) == (a - b) % Modulus

idx_for(seq) == wrapping_sub(seq, 1) % N

\* Mutant: the wrap does not skip the reserved 0.
next_after_Plain(seq) == wrapping_add(seq, 1)

next_after(seq) == IF wrapping_add(seq, 1) = 0 THEN 1 ELSE wrapping_add(seq, 1)

\* Mutant: the distance counts the reserved 0.
seq_distance_Raw(from, to) == wrapping_sub(to, from)

seq_distance(from, to) ==
    IF to < from THEN wrapping_sub(to, from) - 1 ELSE wrapping_sub(to, from)

\* Mutant: the lag is never tested.
Lags_Never(last, new) == FALSE

Lags(last, new) == seq_distance(last, new) > N

\* Mutant: resumes after the newest, dropping the whole backlog.
resume_after_Newest(new) == new

\* Where a consumer that lags by more than N resumes.
resume_after(new) == wrapping_sub(wrapping_sub(new, N - 1), 1)

saturating_add(a, b) == IF a + b > UsizeMax THEN UsizeMax ELSE a + b

\* The sequence push number k was given.
SeqOf(k) == IF k = 0 THEN 0 ELSE ((k - 1) % Span) + 1

-----------------------------------------------------------------------------
(* Memory *)

Published == <<"published_seq", 0>>
SlotSeq(i) == <<"slot_seq", i>>
Lo(i) == <<"lo", i>>
Hi(i) == <<"hi", i>>

Locs == {Published} \cup {<<l, i>> : l \in {"slot_seq", "lo", "hi"}, i \in 0 .. N - 1}

\* What the pushes before Init left at a location.
Before(loc) ==
    LET last == Max({k \in 1 .. Start : idx_for(SeqOf(k)) = loc[2]} \cup {0})
    IN  IF loc = Published THEN SeqOf(Start)
        ELSE IF loc[1] = "slot_seq" THEN SeqOf(last) ELSE last

\* The store at position j of the log; position 0 is what Init left.
StoreAt(loc, j) == IF j = 0 THEN [loc |-> loc, val |-> Before(loc), rel |-> 0]
                   ELSE log[j]

\* Positions a load of loc by the consumer may return, when it is obliged to
\* see the first p stores.
Visible(loc, p) ==
    LET at == {j \in 1 .. Len(log) : log[j].loc = loc} \cup {0}
        oldest == Max({j \in at : j <= p} \cup {cview[loc]})
    IN  {j \in at : oldest <= j}

Saw(loc, j) == cview' = [cview EXCEPT ![loc] = j]

-----------------------------------------------------------------------------
Init ==
    /\ next_seq = SeqOf(Start)
    /\ log = <<>> /\ fenced = 0
    /\ producer_taken = FALSE /\ ppc = "idle" /\ pseq = 0 /\ pushes = 0
    /\ consumer_taken = FALSE /\ last_seq = 0 /\ dropped_accum = 0
    /\ known = 0 /\ cview = [l \in Locs |-> 0] /\ cpc = "idle"
    /\ newest = 0 /\ target = 0 /\ max = 0 /\ got_read = 0 /\ dropped = 0
    /\ copy = <<0, 0>> /\ acquired = 0
    /\ newestAbs = 0 /\ pos = -1 /\ excused = -1 /\ entry = 0
    /\ missed = {} /\ jumpedOver = {} /\ got = <<>>

-----------------------------------------------------------------------------
(* Producer::push *)

\* Append a store; a Relaxed one carries the last Release fence, a Release one
\* everything before it.
Store(loc, val, rel) == log' = Append(log, [loc |-> loc, val |-> val, rel |-> rel])
Relaxed == fenced

\* Mutant: the sequences are published Relaxed.
Release_Relaxed == fenced

Release == Len(log) + 1

PushTo(step) ==
    /\ ppc' = step
    /\ UNCHANGED <<producer_taken, handleVars, callVars, known, cview, cpc,
                   losses, got>>

\* fetch_add, and the restart at 1 when the counter wraps.
Assigned == next_after(next_seq)

\* Assign the sequence, invalidate the slot, and the Release fence after that.
PushInvalidate ==
    /\ producer_taken /\ ppc = "idle" /\ pushes < MaxPush
    /\ next_seq' = Assigned
    /\ pseq' = Assigned
    /\ Store(SlotSeq(idx_for(Assigned)), 0, Relaxed)
    /\ fenced' = Len(log) + 1
    /\ UNCHANGED pushes
    /\ PushTo("lo")

\* write_volatile, a word at a time.
PushLo ==
    /\ ppc = "lo"
    /\ Store(Lo(idx_for(pseq)), Start + pushes + 1, Relaxed)
    /\ UNCHANGED <<next_seq, pseq, fenced, pushes>>
    /\ PushTo("hi")

PushHi ==
    /\ ppc = "hi"
    /\ Store(Hi(idx_for(pseq)), Start + pushes + 1, Relaxed)
    /\ UNCHANGED <<next_seq, pseq, fenced, pushes>>
    /\ PushTo("seq")

PushSeq ==
    /\ ppc = "seq"
    /\ Store(SlotSeq(idx_for(pseq)), pseq, Release)
    /\ UNCHANGED <<next_seq, pseq, fenced, pushes>>
    /\ PushTo("pub")

PushPublish ==
    /\ ppc = "pub"
    /\ Store(Published, pseq, Release)
    /\ pushes' = pushes + 1
    /\ pseq' = 0
    /\ UNCHANGED <<next_seq, fenced>>
    /\ PushTo("idle")

Push == PushInvalidate \/ PushLo \/ PushHi \/ PushSeq \/ PushPublish

\* try_producer and Drop: push keeps nothing in the handle.  The flag hands all
\* earlier stores over, but a fence counts only for the thread that executed it:
\* the new holder may be one that has executed none.
TryProducer ==
    /\ ~producer_taken
    /\ producer_taken' = TRUE
    /\ fenced' \in {0, fenced}
    /\ UNCHANGED <<next_seq, log, ppc, pseq, pushes, handleVars, callVars,
                   known, cview, cpc, losses, got>>

DropProducer ==
    /\ producer_taken /\ ppc = "idle"
    /\ producer_taken' = FALSE
    /\ UNCHANGED <<next_seq, log, fenced, ppc, pseq, pushes, handleVars,
                   callVars, known, cview, cpc, losses, got>>

-----------------------------------------------------------------------------
(* The Consumer handle: a new one starts at sequence 0, whatever came before *)

TryConsumer ==
    /\ ~consumer_taken
    /\ consumer_taken' = TRUE
    /\ last_seq' = 0 /\ dropped_accum' = 0 /\ pos' = -1 /\ excused' = -1
    /\ UNCHANGED <<producerVars, callVars, known, cview, cpc, losses, got>>

DropConsumer ==
    /\ consumer_taken /\ cpc = "idle"
    /\ consumer_taken' = FALSE
    /\ last_seq' = 0 /\ dropped_accum' = 0 /\ pos' = -1 /\ excused' = -1
    /\ missed' = {} /\ jumpedOver' = {} /\ got' = <<>>
    /\ UNCHANGED <<producerVars, callVars, known, cview, cpc>>

ResetDropped ==
    /\ consumer_taken /\ cpc = "idle" /\ dropped_accum # 0
    /\ dropped_accum' = 0 /\ excused' = pos
    /\ UNCHANGED <<producerVars, consumer_taken, last_seq, pos, callVars, known,
                   cview, cpc, losses, got>>

-----------------------------------------------------------------------------
(* Consumer calls.  newest_seq is the Acquire load of published_seq that   *)
(* opens each of them.                                                     *)

\* Number of the push whose sequence stands at position j of Published.
AbsAt(j) ==
    Start + Cardinality({i \in 1 .. j : log[i].loc = Published})

newest_seq(j) ==
    /\ consumer_taken /\ cpc = "idle"
    /\ Saw(Published, j)
    /\ known' = Max({known, StoreAt(Published, j).rel})

\* Pushes begun so far, the unfinished one included.
Begun == Start + pushes + (IF ppc = "idle" THEN 0 ELSE 1)

\* Those of the pushes from + 1 .. to that have fewer than N newer ones.
Early(from, to) == {k \in from + 1 .. to : Begun - k < N}

\* The end of poll_up_to, or of latest.
Return ==
    /\ newest' = 0 /\ target' = 0 /\ max' = 0 /\ got_read' = 0 /\ dropped' = 0
    /\ copy' = <<0, 0>> /\ acquired' = 0
    /\ newestAbs' = 0 /\ entry' = 0
    /\ cpc' = "idle"

\* poll_up_to(m, hook) up to the head of its loop, when the load returns store
\* j; m = 0 and "nothing new" return at once, a lag above N jumps.  poll_one,
\* poll_one_value and try_pop pass 1.
PollBeginAt(m, j) ==
    LET new  == StoreAt(Published, j).val
        from == IF pos = -1 THEN AbsAt(j) - new ELSE pos
        jump == Lags(last_seq, new)
        jumped == IF jump THEN seq_distance(last_seq, resume_after(new)) ELSE 0
        after  == IF jump THEN resume_after(new) ELSE last_seq
    IN  /\ newest_seq(j)
        /\ got' = <<>>
        /\ \/ /\ m = 0 \/ new \in {0, last_seq}
              /\ UNCHANGED <<last_seq, pos, excused, jumpedOver, cpc, callVars>>
           \/ /\ m > 0 /\ new \notin {0, last_seq}
              /\ newest' = new /\ newestAbs' = AbsAt(j)
              /\ max' = m /\ got_read' = 0 /\ dropped' = saturating_add(0, jumped)
              /\ last_seq' = after
              /\ target' = next_after(after)
              /\ pos' = from + jumped /\ entry' = from
              /\ excused' = excused + (from - pos)
              /\ jumpedOver' = jumpedOver \cup Early(from, from + jumped)
              /\ cpc' = "s1"
              /\ UNCHANGED <<copy, acquired>>
        /\ UNCHANGED <<producerVars, consumer_taken, dropped_accum, missed>>

PollBegin(m) == \E j \in Visible(Published, known) : PollBeginAt(m, j)

\* latest(hook): the target is the newest sequence; max = 0 tells it from a poll.
LatestBegin ==
    \E j \in Visible(Published, known) :
        LET new == StoreAt(Published, j).val
        IN  /\ newest_seq(j)
            /\ got' = <<>>
            /\ \/ /\ new = 0
                  /\ UNCHANGED <<cpc, callVars>>
               \/ /\ new # 0
                  /\ newest' = new /\ newestAbs' = AbsAt(j) /\ target' = new
                  /\ cpc' = "s1"
                  /\ UNCHANGED <<max, got_read, dropped, copy, acquired, entry>>
            /\ UNCHANGED <<producerVars, handleVars, losses>>

SkipToLatest ==
    /\ pos - excused <= MaxDrops
    /\ \E j \in Visible(Published, known) :
           LET new == StoreAt(Published, j).val
           IN  /\ newest_seq(j)
               /\ last_seq' = IF new = 0 THEN last_seq ELSE wrapping_sub(new, 1)
               /\ pos' = IF new = 0 THEN pos ELSE AbsAt(j) - 1
               /\ excused' = excused + (pos' - pos)
               /\ got' = <<>>
               /\ UNCHANGED <<producerVars, consumer_taken, dropped_accum,
                              callVars, cpc, losses>>

-----------------------------------------------------------------------------
(* read_seq_inner(target) and what poll_up_to or latest does with it *)

\* One turn of the poll's loop is over: d of the pushes it passed were dropped.
Advance(r, d) ==
    /\ last_seq' = target
    /\ pos' = pos + 1
    /\ missed' = IF d = 0 THEN missed ELSE missed \cup Early(pos, pos + 1)
    /\ IF got_read + r = max \/ target = newest
       THEN /\ dropped_accum' = saturating_add(dropped_accum, saturating_add(dropped, d))
            /\ Return
       ELSE /\ got_read' = got_read + r /\ dropped' = saturating_add(dropped, d)
            /\ target' = next_after(target)
            /\ copy' = <<0, 0>> /\ acquired' = 0
            /\ cpc' = "s1"
            /\ UNCHANGED <<newest, max, newestAbs, entry, dropped_accum>>
    /\ UNCHANGED <<consumer_taken, jumpedOver>>

\* Mutant: a poll gives up on a missing entry and leaves the cursor before it.
Miss_Stays ==
    /\ got' = <<>>
    /\ Return
    /\ UNCHANGED <<handleVars, losses>>

\* Mutant: a poll passes a missing entry without counting it.
Miss_Uncounted ==
    /\ got' = <<>>
    /\ \/ max > 0 /\ Advance(0, 0) /\ UNCHANGED excused
       \/ max = 0 /\ Return /\ UNCHANGED <<handleVars, losses>>

\* None: a poll counts the target as dropped, latest gives up.
Miss ==
    /\ got' = <<>>
    /\ \/ max > 0 /\ Advance(0, 1) /\ UNCHANGED excused
       \/ max = 0 /\ Return /\ UNCHANGED <<handleVars, losses>>

\* Some(v): the hook runs; only a poll advances the cursor.  p is the push whose
\* sequence the second load found.
Hit(p) ==
    /\ got' = <<target, copy[1], copy[2],
                IF max > 0 THEN pos + 1 ELSE newestAbs, p>>
    /\ \/ max > 0 /\ Advance(1, 0) /\ excused' = excused + 1
       \/ max = 0 /\ Return /\ UNCHANGED <<handleVars, losses>>

Idx == idx_for(target)

\* Number of the push that stored position j of the slot's sequence.
PushAt(j) == IF j = 0 THEN Before(Lo(Idx)) ELSE AbsAt(j) + 1

\* The first, Acquire, load of the slot's sequence.
ReadSeq1 ==
    /\ cpc = "s1"
    /\ \E j \in Visible(SlotSeq(Idx), known) :
          /\ Saw(SlotSeq(Idx), j)
          /\ known' = Max({known, StoreAt(SlotSeq(Idx), j).rel})
          /\ \/ /\ StoreAt(SlotSeq(Idx), j).val # target
                /\ Miss
             \/ /\ StoreAt(SlotSeq(Idx), j).val = target
                /\ cpc' = "lo" /\ got' = <<>>
                /\ UNCHANGED <<handleVars, newest, target, max, got_read, dropped,
                               copy, acquired, newestAbs, entry, losses>>
    /\ UNCHANGED producerVars

\* read_volatile, a word at a time; what it saw counts only from the fence on.
CopyWord(w, loc, from, to) ==
    /\ cpc = from
    /\ \E j \in Visible(loc, known) :
          /\ Saw(loc, j)
          /\ copy' = [copy EXCEPT ![w] = StoreAt(loc, j).val]
          /\ acquired' = Max({acquired, StoreAt(loc, j).rel})
    /\ cpc' = to
    /\ UNCHANGED <<producerVars, handleVars, newest, target, max, got_read,
                   dropped, newestAbs, entry, known, losses, got>>

CopyLo == CopyWord(1, Lo(Idx), "lo", "hi")
CopyHi == CopyWord(2, Hi(Idx), "hi", "s2")

\* Mutant: no fence between the copy and the second check.
AfterFence_Missing == known

\* fence(Acquire)
AfterFence == Max({known, acquired})

\* The second, Relaxed, load of the slot's sequence.
ReadSeq2 ==
    /\ cpc = "s2"
    /\ known' = AfterFence
    /\ \E j \in Visible(SlotSeq(Idx), AfterFence) :
          /\ Saw(SlotSeq(Idx), j)
          /\ \/ StoreAt(SlotSeq(Idx), j).val # target /\ Miss
             \/ StoreAt(SlotSeq(Idx), j).val = target /\ Hit(PushAt(j))
    /\ UNCHANGED producerVars

-----------------------------------------------------------------------------
Calls == LatestBegin \/ SkipToLatest \/ \E m \in 0 .. MaxPoll : PollBegin(m)
Steps == ReadSeq1 \/ CopyLo \/ CopyHi \/ ReadSeq2

Next == \/ TryProducer \/ DropProducer \/ Push
        \/ TryConsumer \/ DropConsumer \/ ResetDropped
        \/ Calls \/ Steps

Spec == Init /\ [][Next]_vars

-----------------------------------------------------------------------------
(* Properties *)

\* Type invariant: the sequences the code computes stay u32 values, and the
\* reserved 0 is never asked for.
TypeOK ==
    /\ {next_seq, pseq, last_seq, newest, target} \subseteq 0 .. Modulus - 1
    /\ \A j \in 1 .. Len(log) : log[j].loc \in Locs /\ log[j].rel \in 0 .. Len(log)
    /\ fenced \in 0 .. Len(log) /\ known \in 0 .. Len(log)
    /\ cview \in [Locs -> 0 .. Len(log)]
    /\ ppc \in {"idle", "lo", "hi", "seq", "pub"}
    /\ cpc \in {"idle", "s1", "lo", "hi", "s2"}
    /\ cpc # "idle" => target # 0
    /\ dropped_accum \in 0 .. UsizeMax

\* A hook never sees a torn payload, nor that of another push: it is given the
\* two words that the push with that sequence wrote, unless the sequence the
\* second load found is that of a push a whole number of spans later.
GenuineItem ==
    got # <<>> =>
        /\ got[1] = SeqOf(got[4])
        /\ \/ got[2] = got[4] /\ got[3] = got[4]
           \/ got[5] - got[4] >= Span /\ (got[5] - got[4]) % Span = 0

\* The cursor is the sequence of the push it stands for when the polls' turns are
\* counted one by one and a jump by the distance it computed: also across the wrap
\* no turn and no jump moves the one by more pushes than the other.
CursorExact ==
    pos # -1 => \/ last_seq = SeqOf(pos)
                \/ last_seq = 0 /\ SeqOf(pos) = Span

Saturated(n) == IF n > UsizeMax THEN UsizeMax ELSE n

\* Every push a Consumer's polls go past is counted once, as read or as dropped:
\* dropped(), with what the poll under way has yet to add to it, is the number of
\* those that no hook was given, and in that poll (max is 0 outside) read + dropped
\* is the number it has gone past.  Both hold up to the limit where the counters
\* saturate; whole spans of lag, which no sequence tells, are not gone past.
EveryPushCounted ==
    /\ Saturated(dropped_accum + dropped) = Saturated(pos - excused)
    /\ max > 0 => dropped = Saturated(pos - entry - got_read)

\* Pushes between the cursor and push k; a whole span is not noticed.
Behind(k, cursor) == (k - cursor) % Span

\* A poll is bounded however fast the producer is: at the head of its loop at
\* least one and at most N pushes are left before the mark frozen at its entry.
PollBounded ==
    cpc # "idle" /\ max > 0 => Behind(newestAbs, pos) \in 1 .. N

\* A poll that found something leaves the cursor at most N - 1 behind the newest
\* push it observed at entry, also if the producer has stopped for good in the
\* middle of a push and left a slot invalid: the consumer waits for nobody.
CursorNear ==
    [][cpc # "idle" /\ max > 0 /\ cpc' = "idle"
          => Behind(newestAbs, pos') \in 0 .. N - 1]_vars

\* A read fails only when at least N newer pushes were begun: if N divides the
\* span this holds across the wrap too.
NoEarlyMiss == missed = {}

\* "resume up to one sequence later than it strictly needs to": no jump passes
\* over more than one entry that the ring still held.
JumpOverOne == [][Cardinality(jumpedOver' \ jumpedOver) <= 1]_vars

\* "A power of two | Exactly 1": at most one entry is lost early at a wrap.
OneEarlyMiss == Cardinality(missed) <= 1
=============================================================================
