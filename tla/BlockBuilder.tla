----------------------------- MODULE BlockBuilder -----------------------------
(***************************************************************************)
(* src/block.rs: the builder that releases complete, contiguous blocks,    *)
(* between a lossy stream of sequenced samples and one of the transports   *)
(* its documentation composes it with, EventBuf<Block, Q> or               *)
(* LatestBuf<Block>, each by what it promises.                             *)
(*                                                                         *)
(* Upstream numbers its samples 1, 2, ... without wrap; the sample is its  *)
(* number, and its u32 sequence wraps around past the reserved 0.          *)
(*                                                                         *)
(* Init, Next and the like have the prefix Block, so that one module can   *)
(* extend this one together with others.                                   *)
(***************************************************************************)
EXTENDS Integers, Sequences, FiniteSets, Functions

CONSTANTS N,          \* samples in a block, the const generic
          Modulus,    \* number of u32 values
          Q,          \* capacity of the EventBuf
          MaxGap,     \* bound: samples upstream omits at a time
          MaxSample   \* bound: samples upstream numbers

ASSUME BlockSizeAssumption == N \in Nat \ {0}
ASSUME BlockModulusAssumption == Modulus \in Nat /\ Modulus > 2
ASSUME BlockTransportAssumption == Q \in Nat \ {0}
ASSUME BlockBoundAssumption == MaxGap \in Nat /\ MaxSample \in Nat

VARIABLES
    samples, len, first_sequence, last_sequence,   \* the builder's fields
    made,            \* number of the last sample upstream made
    refused,         \* the FillError the caller has not dealt with yet, if any
    complete,        \* the block the caller has not got rid of yet, if any
    keepLatest,      \* which transport it is: a LatestBuf, or else an EventBuf
    transport,       \* blocks in the transport, oldest first
    delivered,       \* history: blocks taken out of it
    prior,           \* history: last sample the builder accepted since it was empty
    lost             \* history: samples omitted, cleared, or discarded by a policy

builder == <<samples, len, first_sequence, last_sequence>>
channel == <<keepLatest, transport, delivered>>
blockVars == <<builder, made, refused, complete, channel, prior, lost>>

Span == Modulus - 1

SequenceOf(k) == ((k - 1) % Span) + 1

Uninit == 0

BlockInit ==
    /\ samples = [i \in 1 .. N |-> Uninit]
    /\ len = 0 /\ first_sequence = 0 /\ last_sequence = 0
    /\ made = 0
    /\ refused = {} /\ complete = {}
    /\ keepLatest \in BOOLEAN /\ transport = <<>> /\ delivered = <<>>
    /\ prior = 0 /\ lost = {}

-----------------------------------------------------------------------------
(* The builder *)

\* Mutant: the wrap does not skip the reserved 0.
next_sequence_Plain(sequence) == (sequence + 1) % Modulus

next_sequence(sequence) == IF sequence = Modulus - 1 THEN 1 ELSE sequence + 1

\* The Option as a set.
expected_sequence == IF len = 0 THEN {} ELSE {next_sequence(last_sequence)}

\* Mutant: any later sequence will do.
Discontinuous_Behind(sequence) == len # 0 /\ sequence = last_sequence

Discontinuous(sequence) == len # 0 /\ sequence # next_sequence(last_sequence)

Partial == {samples[i] : i \in 1 .. len}

\* Mutant: the sequences are reset, the length is not.
clear_KeepsLen ==
    /\ first_sequence' = 0 /\ last_sequence' = 0
    /\ prior' = 0
    /\ UNCHANGED len

clear ==
    /\ len' = 0 /\ first_sequence' = 0 /\ last_sequence' = 0
    /\ prior' = 0

Refuse(error) ==
    /\ refused' = {error}
    /\ UNCHANGED <<builder, complete, prior>>

First(sequence) == IF len = 0 THEN sequence ELSE first_sequence

\* The N-th sample completes the block, which is copied out and clears the builder.
Append1(sequence, sample) ==
    LET filled == [samples EXCEPT ![len + 1] = sample] IN
    /\ samples' = filled
    /\ refused' = {}
    /\ IF len + 1 # N
       THEN /\ len' = len + 1
            /\ first_sequence' = First(sequence)
            /\ last_sequence' = sequence
            /\ prior' = sample
            /\ UNCHANGED complete
       ELSE /\ complete' = {[first_sequence |-> First(sequence),
                             last_sequence |-> sequence, samples |-> filled]}
            /\ clear

push(sequence, sample) ==
    IF sequence = 0 THEN Refuse([error |-> "ReservedSequence", sample |-> sample])
    ELSE IF Discontinuous(sequence)
         THEN Refuse([error |-> "Discontinuous", expected |-> next_sequence(last_sequence),
                      received |-> sequence, sample |-> sample])
         ELSE Append1(sequence, sample)

-----------------------------------------------------------------------------
(* The caller *)

\* The caller is rid of a block before the next one is complete.
Room == complete = {} \/ len + 1 < N

\* Upstream omits gap samples, and the next one is pushed.
Push(gap) ==
    /\ refused = {} /\ Room
    /\ made + gap < MaxSample
    /\ made' = made + gap + 1
    /\ lost' = lost \cup made + 1 .. made + gap
    /\ push(SequenceOf(made + gap + 1), made + gap + 1)
    /\ UNCHANGED channel

\* Upstream has no sequence for the next sample.
PushReserved ==
    /\ refused = {} /\ Room
    /\ made < MaxSample
    /\ made' = made + 1
    /\ push(0, made + 1)
    /\ UNCHANGED <<channel, lost>>

Clear ==
    /\ clear
    /\ lost' = lost \cup Partial
    /\ UNCHANGED <<samples, made, refused, complete, channel>>

\* A refused sample is dropped and the partial block kept ...
DropRefused ==
    /\ refused # {}
    /\ lost' = lost \cup {e.sample : e \in refused}
    /\ refused' = {}
    /\ UNCHANGED <<builder, made, complete, channel, prior>>

\* ... or offered again, once clear has made room for it.
RetryRefused ==
    /\ len = 0 /\ Room
    /\ \E e \in refused : e.error = "Discontinuous" /\ push(e.received, e.sample)
    /\ UNCHANGED <<made, channel, lost>>

-----------------------------------------------------------------------------
(* The transport.  A refused push leaves the block with the caller, who tries  *)
(* again or gives up; a LatestBuf takes it and displaces the unread one.       *)

Capacity == IF keepLatest THEN 1 ELSE Q

SamplesOf(blocks) == {b.samples[i] : b \in blocks, i \in 1 .. N}

Send ==
    /\ \E b \in complete :
         \/ /\ Len(transport) < Capacity
            /\ transport' = Append(transport, b)
            /\ UNCHANGED lost
         \/ /\ Len(transport) = Capacity /\ keepLatest
            /\ transport' = <<b>>
            /\ lost' = lost \cup SamplesOf(Range(transport))
    /\ complete' = {}
    /\ UNCHANGED <<builder, made, refused, keepLatest, delivered, prior>>

DropBlock ==
    /\ complete # {} /\ Len(transport) = Capacity /\ ~keepLatest
    /\ complete' = {}
    /\ lost' = lost \cup SamplesOf(complete)
    /\ UNCHANGED <<builder, made, refused, channel, prior>>

Receive ==
    /\ transport # <<>>
    /\ transport' = Tail(transport)
    /\ delivered' = Append(delivered, Head(transport))
    /\ UNCHANGED <<builder, made, refused, complete, keepLatest, prior, lost>>

BlockNext ==
    \/ \E gap \in 0 .. MaxGap : Push(gap)
    \/ PushReserved \/ Clear \/ DropRefused \/ RetryRefused
    \/ Send \/ DropBlock \/ Receive

BlockSpec == BlockInit /\ [][BlockNext]_blockVars

-----------------------------------------------------------------------------
(* Properties *)

Blocks == complete \cup Range(transport) \cup Range(delivered)

\* Type invariant.
BlockTypeOK ==
    /\ samples \in [1 .. N -> Nat]
    /\ len \in 0 .. N - 1
    /\ {first_sequence, last_sequence} \subseteq 0 .. Modulus - 1
    /\ made \in Nat /\ prior \in Nat /\ lost \subseteq 1 .. made
    /\ Cardinality(refused) <= 1 /\ Cardinality(complete) <= 1
    /\ keepLatest \in BOOLEAN /\ Len(transport) <= Capacity

\* Every block that leaves the builder is what it claims to be: it carries the
\* sequences of its first and last sample, and each sample follows the one
\* before it, across the wrap, after refusals and after clears.  Only an
\* omission of a whole span goes unnoticed, which is the documented limit.
BlocksContiguous ==
    \A b \in Blocks :
        /\ b.first_sequence = SequenceOf(b.samples[1])
        /\ b.last_sequence = SequenceOf(b.samples[N])
        /\ \A i \in 1 .. N - 1 :
              LET step == b.samples[i + 1] - b.samples[i]
              IN  step = 1 \/ (step > Span /\ step % Span = 1 % Span)

\* A sample that follows the last one accepted is never taken for a gap, also
\* when the sequence wraps: a refused sample is without sequence or there is a
\* gap.  And expected_sequence names the one sequence a push will take.
NoFalseGap ==
    /\ \A e \in refused :
          e.error = "Discontinuous" /\ len # 0 => e.sample # prior + 1
    /\ len # 0 => expected_sequence = {SequenceOf(prior + 1)}

\* The places a sample can be in.
Places == <<SamplesOf(Range(delivered)), SamplesOf(Range(transport)), SamplesOf(complete),
            Partial, {e.sample : e \in refused}, lost>>

Rising(s, n)  == \A i, j \in 1 .. n : i < j => s[i] < s[j]
Before(b, c) == \A i, j \in 1 .. N : b.samples[i] < c.samples[j]

\* No sample vanishes or is in two places: each one upstream made is in a block,
\* in the partial block, in the caller's hands, or was lost to a policy.  The
\* blocks arrive in the order of their samples and none repeats one: no slot
\* written before a clear comes back.
SamplesConserved ==
    LET line == delivered \o transport
    IN  /\ UNION Range(Places) = 1 .. made
        /\ \A p, q \in DOMAIN Places : p # q => Places[p] \cap Places[q] = {}
        /\ \A b \in Blocks : Rising(b.samples, N)
        /\ Rising(samples, len)
        /\ \A i, j \in DOMAIN line : i < j => Before(line[i], line[j])
        /\ \A i \in DOMAIN line, b \in complete : Before(line[i], b)
=============================================================================
