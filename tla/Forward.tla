------------------------------- MODULE Forward -------------------------------
(***************************************************************************)
(* src/traits.rs: forward, which moves items from a Source to a Sink while *)
(* the threads at the far ends keep using them.  Source and Sink are what  *)
(* their implementors promise: both yield and keep items in order; as a    *)
(* sink an EventBuf refuses a push when full, a SeqRing or RingBuf takes   *)
(* every push and overwrites its oldest item.                              *)
(*                                                                         *)
(* An item is numbered, modulo Tags, when it leaves the source: which item *)
(* a lossy source yields next is its own affair.                           *)
(*                                                                         *)
(* Init, Next and the like have the prefix Forward, so that one module can *)
(* extend this one together with others.                                   *)
(***************************************************************************)
EXTENDS Integers, Sequences

CONSTANTS SrcCap, SnkCap,  \* capacities
          MaxCall,         \* largest max passed to forward
          Tags             \* number of item tags

ASSUME ForwardCapacityAssumption ==
    SrcCap \in Nat \ {0} /\ SnkCap \in Nat \ {0} /\ Tags \in Nat /\ Tags > SnkCap + 2
ASSUME ForwardCallAssumption == MaxCall \in Nat

VARIABLES
    avail,           \* number of items in the source
    overwrites,      \* which sink it is: a SeqRing or RingBuf, or else an EventBuf
    snk,             \* items in the sink, oldest first
    freed,           \* pops of the sink the pushing side may not see yet
    next,            \* tag of the next item to leave the source
    last,            \* tag of the last item to leave the sink
    stage, max, count, val,   \* forward: next step, argument and locals
    result, err,     \* what the last call returned, err until it is dealt with
    entered          \* history: items that entered the sink during the call,
                     \* counted up to MaxCall + 1

call == <<stage, max, count, val>>
ret  == <<result, err>>
forwardVars == <<overwrites, avail, snk, freed, next, last, call, ret, entered>>

Succ(t) == (t + 1) % Tags

ForwardInit ==
    /\ overwrites \in BOOLEAN
    /\ avail = 0 /\ snk = <<>> /\ freed = 0
    /\ next = 0 /\ last = Tags - 1
    /\ stage = "idle" /\ max = 0 /\ count = 0 /\ val = <<>>
    /\ result = 0 /\ err = <<>>
    /\ entered = 0

-----------------------------------------------------------------------------
(* The far ends *)

\* On a full source, a push is refused or overwrites: no more items either way.
Produce ==
    /\ avail < SrcCap
    /\ avail' = avail + 1
    /\ UNCHANGED <<snk, freed, next, last, call, ret, entered>>

Consume ==
    /\ snk # <<>>
    /\ snk' = Tail(snk)
    /\ last' = Head(snk)
    /\ freed' = freed + 1
    /\ UNCHANGED <<avail, next, call, ret, entered>>

-----------------------------------------------------------------------------
(* forward(src, snk, max) *)

\* A caller that still holds a refused item does not move others past it.
Call ==
    /\ stage = "idle" /\ err = <<>>
    /\ max' \in 0 .. MaxCall
    /\ stage' = "loop" /\ count' = 0 /\ entered' = 0
    /\ UNCHANGED <<avail, snk, freed, next, last, val, ret>>

Return(e) ==
    /\ stage' = "idle" /\ result' = count /\ err' = e
    /\ val' = <<>>
    /\ UNCHANGED <<max, count, entered>>

\* Mutant: one item too many.
Continues_Inclusive == count <= max

Continues == count < max

Finish ==
    /\ stage = "loop" /\ ~Continues
    /\ Return(<<>>)
    /\ UNCHANGED <<avail, snk, freed, next, last>>

\* Some(v) => v
TryPopSome ==
    /\ stage = "loop" /\ Continues
    /\ avail > 0
    /\ avail' = avail - 1
    /\ val' = <<next>> /\ next' = Succ(next)
    /\ stage' = "push"
    /\ UNCHANGED <<snk, freed, last, max, count, ret, entered>>

\* None => break.  A stale cursor, or a SeqRing overwritten under the poll, also
\* yields None: items may be left.
TryPopNone ==
    /\ stage = "loop" /\ Continues
    /\ Return(<<>>)
    /\ UNCHANGED <<avail, snk, freed, next, last>>

\* Mutant: the loop never counts.
Counted_Never == count

Counted == count + 1

Pushed ==
    /\ count' = Counted
    /\ entered' = IF entered > MaxCall THEN entered ELSE entered + 1
    /\ val' = <<>> /\ stage' = "loop"
    /\ UNCHANGED <<avail, next, max, ret>>

\* Ok(()): there is room, k of the pops that made it still unseen.
TryPushOk ==
    /\ stage = "push"
    /\ \E k \in 0 .. freed : Len(snk) + k < SnkCap /\ freed' = k
    /\ snk' = snk \o val
    /\ Pushed
    /\ UNCHANGED last

\* Ok(()), and the oldest item is gone.
TryPushOverwrites ==
    /\ stage = "push" /\ overwrites
    /\ Len(snk) = SnkCap
    /\ snk' = Tail(snk) \o val
    /\ last' = Head(snk)
    /\ Pushed
    /\ UNCHANGED freed

\* Mutant: the error does not carry the item.
Rejected_Dropped == <<>>

Rejected == val

\* Err(e): the sink is full as far as the pushing side can see.
TryPushErr ==
    /\ stage = "push" /\ ~overwrites
    /\ Len(snk) + freed >= SnkCap
    /\ Return(Rejected)
    /\ freed' = SnkCap - Len(snk)
    /\ UNCHANGED <<avail, snk, next, last>>

\* The caller pushes the item it got back once there is room.
Retry ==
    /\ stage = "idle" /\ err # <<>>
    /\ \E k \in 0 .. freed : Len(snk) + k < SnkCap /\ freed' = k
    /\ snk' = snk \o err
    /\ err' = <<>>
    /\ UNCHANGED <<avail, next, last, call, result, entered>>

-----------------------------------------------------------------------------
Step == Finish \/ TryPopSome \/ TryPopNone
        \/ TryPushOk \/ TryPushOverwrites \/ TryPushErr

ForwardNext == UNCHANGED overwrites /\ (Produce \/ Consume \/ Call \/ Step \/ Retry)

ForwardSpec == ForwardInit /\ [][ForwardNext]_forwardVars

\* The thread inside forward keeps running; nothing is assumed of the others.
FairForwardSpec == ForwardSpec /\ WF_forwardVars(Step /\ UNCHANGED overwrites)

-----------------------------------------------------------------------------
(* Properties *)

\* Type invariant.
ForwardTypeOK ==
    /\ overwrites \in BOOLEAN /\ avail \in 0 .. SrcCap
    /\ snk \in Seq(0 .. Tags - 1) /\ freed \in Nat /\ Len(snk) + freed <= SnkCap
    /\ {next, last} \subseteq 0 .. Tags - 1
    /\ stage \in {"idle", "loop", "push"}
    /\ {max, count, result, entered} \subseteq Nat

\* forward loses, duplicates and reorders nothing: what has left the source and
\* not yet the sink, with the item in flight or handed back by the error, is
\* the run of items in the order they were popped.
ForwardLossless ==
    LET run == <<last>> \o snk \o err \o val \o <<next>>
    IN  \A i \in 1 .. Len(run) - 1 : run[i + 1] = Succ(run[i])

\* The count a call returns is the number of items that entered the sink during
\* it, also when an error cuts it short, and never exceeds max.
TransferExact ==
    /\ entered <= max
    /\ stage = "idle" => result = entered

\* A call ends, even if the source never runs dry and the sink never fills up.
CallEnds == stage # "idle" ~> stage = "idle"
=============================================================================
