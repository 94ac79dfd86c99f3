----------------------------- MODULE GlueProof -----------------------------
(***************************************************************************)
(* What stands between the buffers, each part by itself.                   *)
(*                                                                         *)
(* static_spsc!: take() strands no claim flag and every owner sees the     *)
(* work of the owners before it, for every set of threads and number of    *)
(* operations.  BlockBuilder: its blocks have no visible gap, it sees no   *)
(* gap that is not there, and no sample vanishes, appears twice or leaves  *)
(* its order on the way to the consumer, for every block size, sequence    *)
(* width, transport and number of samples.  forward: it loses, duplicates  *)
(* and reorders nothing and returns the number of items it moved, for      *)
(* every capacity, argument and number of calls.                           *)
(***************************************************************************)
EXTENDS StaticSpsc, BlockBuilder, Forward, WrapArithmetic,
        FiniteSetTheorems, SequenceTheorems, TLAPS

-----------------------------------------------------------------------------
(* static_spsc!: the claim flags and what their owners see.                *)

\* No view is ahead of the work done.
ViewsBehind ==
    /\ \A th \in Threads, r \in Roles : view[th][r] <= work[r]
    /\ \A q \in Roles, r \in Roles : flag[q].view[r] <= work[r]

SoleOwner ==
    /\ \A r \in Roles, th \in Threads, u \in Threads :
           th \in owners[r] /\ u \in owners[r] => th = u
    /\ \A r \in Roles : flag[r].taken <=> owners[r] # {}

\* A take() that has the producer flag and not the consumer flag accounts for
\* the first.
MidTake == \A th \in Threads : pc[th] # "idle" => th \in owners["producer"]

\* The flag of a free handle carries the work of its owners to the next one.
FreeCarries == \A r \in Roles : ~flag[r].taken => flag[r].view[r] = work[r]

Inv == TypeOK /\ ViewsBehind /\ SoleOwner /\ MidTake /\ FreeCarries /\ HandoffVisible

\* The static starts with both flags clear.
LEMMA InitInv == Init => Inv
<1> SUFFICES ASSUME Init PROVE Inv
  OBVIOUS
<1>1. \A r \in Roles : Nothing[r] = 0
  BY DEF Nothing
<1>2. Nothing \in [Roles -> Nat]
  BY DEF Nothing
<1>3. FALSE \in BOOLEAN
  OBVIOUS
<1>4. /\ \A r \in Roles : flag[r] = [taken |-> FALSE, view |-> Nothing] /\ owners[r] = {}
      /\ \A th \in Threads : view[th] = Nothing /\ pc[th] = "idle"
      /\ work = Nothing
  BY DEF Init
<1>5. TypeOK
  BY <1>2, <1>3 DEF Init, TypeOK
<1>6. ViewsBehind /\ FreeCarries
  BY <1>1, <1>4 DEF ViewsBehind, FreeCarries
<1>7. SoleOwner /\ MidTake /\ HandoffVisible
  BY <1>4 DEF SoleOwner, MidTake, HandoffVisible
<1> QED BY <1>5, <1>6, <1>7 DEF Inv

\* Joining views that are behind gives one that is behind and misses nothing
\* that either of them has.
LEMMA JoinFacts ==
    ASSUME NEW u \in [Roles -> Nat], NEW v \in [Roles -> Nat], NEW w \in [Roles -> Nat],
           \A r \in Roles : u[r] <= w[r] /\ v[r] <= w[r]
    PROVE  /\ Join(u, v) \in [Roles -> Nat]
           /\ \A r \in Roles : /\ Join(u, v)[r] <= w[r]
                               /\ u[r] = w[r] => Join(u, v)[r] = w[r]
                               /\ v[r] = w[r] => Join(u, v)[r] = w[r]
BY DEF Join

\* A claim, successful or not, keeps all of the invariant that does not speak
\* of program counters.
LEMMA SwapKeeps ==
    ASSUME Inv, NEW th \in Threads, NEW r \in Roles, Swap(th, r),
           pc' \in [Threads -> {"idle", "rx", "roll back"}],
           MidTake'
    PROVE  Inv'
<1>a. /\ flag \in [Roles -> [taken : BOOLEAN, view : [Roles -> Nat]]]
      /\ owners \in [Roles -> SUBSET Threads]
      /\ view \in [Threads -> [Roles -> Nat]] /\ work \in [Roles -> Nat]
  BY DEF Inv, TypeOK
<1> DEFINE f == Join(flag[r].view, view[th])
           v == Join(view[th], flag[r].view)
<1>b. /\ f \in [Roles -> Nat] /\ v \in [Roles -> Nat]
      /\ \A q \in Roles : f[q] <= work[q] /\ v[q] <= work[q]
      /\ \A q \in Roles : view[th][q] = work[q] => v[q] = work[q]
      /\ flag[r].view[r] = work[r] => v[r] = work[r]
  <2>1. flag[r].view \in [Roles -> Nat] /\ view[th] \in [Roles -> Nat]
    BY <1>a
  <2>2. \A q \in Roles : flag[r].view[q] <= work[q] /\ view[th][q] <= work[q]
    BY DEF Inv, ViewsBehind
  <2>3. /\ f \in [Roles -> Nat] /\ \A q \in Roles : f[q] <= work[q]
    BY <1>a, <2>1, <2>2, JoinFacts, Zenon
  <2>4. /\ v \in [Roles -> Nat]
        /\ \A q \in Roles : /\ v[q] <= work[q]
                            /\ view[th][q] = work[q] => v[q] = work[q]
                            /\ flag[r].view[q] = work[q] => v[q] = work[q]
    <3>1. \A q \in Roles : view[th][q] <= work[q] /\ flag[r].view[q] <= work[q]
      BY <2>2, Zenon
    <3>2. PICK x \in [Roles -> Nat] : x = view[th]
      BY <2>1
    <3>3. PICK y \in [Roles -> Nat] : y = flag[r].view
      BY <2>1
    <3>4. PICK w \in [Roles -> Nat] : w = work
      BY <1>a
    <3>5. /\ Join(x, y) \in [Roles -> Nat]
          /\ \A q \in Roles : /\ Join(x, y)[q] <= w[q]
                              /\ x[q] = w[q] => Join(x, y)[q] = w[q]
                              /\ y[q] = w[q] => Join(x, y)[q] = w[q]
      BY ONLY <3>1, <3>2, <3>3, <3>4, JoinFacts
    <3>6. v = Join(x, y)
      BY <3>2, <3>3
    <3> HIDE DEF v
    <3> QED BY ONLY <3>2, <3>3, <3>4, <3>5, <3>6
  <2> QED BY <2>3, <2>4, Zenon
<1> HIDE DEF f, v
<1>c. /\ flag' = [flag EXCEPT ![r] = [taken |-> TRUE, view |-> f]]
      /\ view' = [view EXCEPT ![th] = v]
      /\ owners' = IF ~flag[r].taken THEN [owners EXCEPT ![r] = @ \cup {th}] ELSE owners
      /\ work' = work
  BY DEF Swap, Claimed, f, v
<1>d. /\ flag'[r].taken = TRUE /\ flag'[r].view = f
      /\ \A q \in Roles : q # r => flag'[q] = flag[q]
      /\ view'[th] = v /\ \A u \in Threads : u # th => view'[u] = view[u]
      /\ \A q \in Roles : owners'[q] = owners[q] \/ owners'[q] = owners[q] \cup {th}
      /\ \A q \in Roles : q # r => owners'[q] = owners[q]
      /\ flag[r].taken => owners'[r] = owners[r]
      /\ ~flag[r].taken => owners'[r] = owners[r] \cup {th}
  BY <1>a, <1>c
<1>1. TypeOK'
  <2>1. TRUE \in BOOLEAN
    OBVIOUS
  <2>2. [taken |-> TRUE, view |-> f] \in [taken : BOOLEAN, view : [Roles -> Nat]]
    BY <1>b, <2>1
  <2>3. owners' \in [Roles -> SUBSET Threads]
    BY <1>a, <1>c
  <2> QED BY <1>a, <1>b, <1>c, <2>2, <2>3 DEF TypeOK
<1>2. ViewsBehind'
  BY <1>b, <1>c, <1>d, ZenonT(30) DEF Inv, ViewsBehind
<1>3. SoleOwner'
  BY <1>d, ZenonT(30) DEF Inv, SoleOwner
<1>4. FreeCarries'
  BY <1>c, <1>d, ZenonT(30) DEF Inv, FreeCarries
<1>5. HandoffVisible'
  <2> SUFFICES ASSUME NEW q \in Roles, NEW u \in Threads, u \in owners'[q]
               PROVE  view'[u][q] = work[q]
    BY <1>c DEF HandoffVisible
  <2>1. CASE u \in owners[q]
    <3>1. view[u][q] = work[q]
      BY <2>1 DEF Inv, HandoffVisible
    <3>2. CASE u = th
      BY <1>b, <1>d, <3>1, <3>2, Zenon
    <3>3. CASE u # th
      BY <1>d, <3>1, <3>3, Zenon
    <3> QED BY <3>2, <3>3
  <2>2. CASE u \notin owners[q]
    <3>1. u = th /\ q = r /\ ~flag[r].taken
      BY <1>d, <2>2
    <3> QED BY <1>b, <1>d, <3>1 DEF Inv, FreeCarries
  <2> QED BY <2>1, <2>2
<1> QED BY <1>1, <1>2, <1>3, <1>4, <1>5 DEF Inv

\* So does the end of a handle, dropped by its owner or rolled back by take().
LEMMA DropKeeps ==
    ASSUME Inv, NEW th \in Threads, NEW r \in Roles, Drop(th, r),
           pc' \in [Threads -> {"idle", "rx", "roll back"}],
           MidTake'
    PROVE  Inv'
<1>a. /\ flag \in [Roles -> [taken : BOOLEAN, view : [Roles -> Nat]]]
      /\ owners \in [Roles -> SUBSET Threads]
      /\ view \in [Threads -> [Roles -> Nat]] /\ work \in [Roles -> Nat]
  BY DEF Inv, TypeOK
<1>b. /\ th \in owners[r]
      /\ flag' = [flag EXCEPT ![r] = [taken |-> FALSE, view |-> view[th]]]
      /\ owners' = [owners EXCEPT ![r] = @ \ {th}]
      /\ UNCHANGED <<view, work>>
  BY DEF Drop, Released
<1>c. /\ flag'[r].taken = FALSE /\ flag'[r].view = view[th]
      /\ \A q \in Roles : q # r => flag'[q] = flag[q] /\ owners'[q] = owners[q]
      /\ \A q \in Roles : owners'[q] \subseteq owners[q]
  BY <1>a, <1>b
<1>d. owners'[r] = {}
  BY <1>a, <1>b DEF Inv, SoleOwner
<1>1. TypeOK'
  <2>1. FALSE \in BOOLEAN
    OBVIOUS
  <2>2. [taken |-> FALSE, view |-> view[th]] \in [taken : BOOLEAN, view : [Roles -> Nat]]
    BY <1>a, <2>1
  <2>3. owners' \in [Roles -> SUBSET Threads]
    BY <1>a, <1>b
  <2> QED BY <1>a, <1>b, <2>2, <2>3 DEF TypeOK
<1>2. ViewsBehind'
  BY <1>b, <1>c DEF Inv, ViewsBehind
<1>3. SoleOwner'
  BY <1>c, <1>d, ZenonT(30) DEF Inv, SoleOwner
<1>4. FreeCarries'
  <2>1. view[th][r] = work[r]
    BY <1>b DEF Inv, HandoffVisible
  <2>2. ASSUME NEW q \in Roles, ~flag'[q].taken PROVE flag'[q].view[q] = work[q]
    <3>1. CASE q = r
      BY <1>c, <2>1, <3>1
    <3>2. CASE q # r
      BY <1>c, <2>2, <3>2 DEF Inv, FreeCarries
    <3> QED BY <3>1, <3>2
  <2> QED BY <1>b, <2>2 DEF FreeCarries
<1>5. HandoffVisible'
  BY <1>b, <1>c DEF Inv, HandoffVisible
<1> QED BY <1>1, <1>2, <1>3, <1>4, <1>5 DEF Inv

\* Every step keeps the invariant.
LEMMA NextInv == Inv /\ [Next]_vars => Inv'
<1> SUFFICES ASSUME Inv, [Next]_vars PROVE Inv'
  OBVIOUS
<1>a. /\ owners \in [Roles -> SUBSET Threads]
      /\ pc \in [Threads -> {"idle", "rx", "roll back"}]
      /\ view \in [Threads -> [Roles -> Nat]] /\ work \in [Roles -> Nat]
  BY DEF Inv, TypeOK
<1>b. "producer" \in Roles /\ "consumer" \in Roles /\ "producer" # "consumer"
  BY DEF Roles
<1>c. MidTake /\ SoleOwner /\ HandoffVisible
  BY DEF Inv
<1>1. ASSUME NEW th \in Threads, TakeTx(th) PROVE Inv'
  <2>1. /\ pc' = [pc EXCEPT ![th] = IF Claimed("producer") THEN "rx" ELSE "idle"]
        /\ Swap(th, "producer")
    BY <1>1 DEF TakeTx, Goto
  <2>2. owners["producer"] \subseteq owners'["producer"]
        /\ (Claimed("producer") => th \in owners'["producer"])
    BY <1>a, <1>b, <2>1 DEF Swap
  <2>3. MidTake'
    BY <1>a, <1>c, <2>1, <2>2 DEF MidTake
  <2> QED BY <1>a, <1>b, <2>1, <2>3, SwapKeeps
<1>2. ASSUME NEW th \in Threads, TakeRx(th) PROVE Inv'
  <2>1. /\ pc[th] = "rx"
        /\ pc' = [pc EXCEPT ![th] = IF Claimed("consumer") THEN "idle" ELSE "roll back"]
        /\ Swap(th, "consumer")
    BY <1>2 DEF TakeRx, Goto
  <2>2. owners'["producer"] = owners["producer"]
    BY <1>a, <1>b, <2>1 DEF Swap
  <2>3. MidTake'
    BY <1>a, <1>c, <2>1, <2>2 DEF MidTake
  <2> QED BY <1>a, <1>b, <2>1, <2>3, SwapKeeps
<1>3. ASSUME NEW th \in Threads, RollBack(th) PROVE Inv'
  <2>1. pc' = [pc EXCEPT ![th] = "idle"] /\ Drop(th, "producer")
    BY <1>3 DEF RollBack, Goto
  <2>2. owners'["producer"] = owners["producer"] \ {th}
    BY <1>a, <1>b, <2>1 DEF Drop
  <2>3. MidTake'
    BY <1>a, <1>c, <2>1, <2>2 DEF MidTake
  <2> QED BY <1>a, <1>b, <2>1, <2>3, DropKeeps
<1>4. ASSUME NEW th \in Threads, NEW r \in Roles, Try(th, r) PROVE Inv'
  <2>1. pc' = pc /\ Swap(th, r)
    BY <1>4 DEF Try
  <2>2. owners["producer"] \subseteq owners'["producer"]
    BY <1>a, <1>b, <2>1 DEF Swap
  <2>3. MidTake'
    BY <1>c, <2>1, <2>2 DEF MidTake
  <2> QED BY <1>a, <2>1, <2>3, SwapKeeps
<1>5. ASSUME NEW th \in Threads, NEW r \in Roles, Release(th, r) PROVE Inv'
  <2>1. pc' = pc /\ Drop(th, r) /\ pc[th] = "idle"
    BY <1>5 DEF Release
  <2>2. \A u \in Threads : u # th /\ u \in owners["producer"] => u \in owners'["producer"]
    BY <1>a, <1>b, <2>1 DEF Drop
  <2>3. MidTake'
    BY <1>c, <2>1, <2>2 DEF MidTake
  <2> QED BY <1>a, <2>1, <2>3, DropKeeps
<1>6. ASSUME NEW th \in Threads, NEW r \in Roles, Work(th, r) PROVE Inv'
  <2>1. /\ th \in owners[r] /\ UNCHANGED <<flag, owners, pc>>
        /\ work' = [work EXCEPT ![r] = @ + 1]
        /\ view' = [view EXCEPT ![th][r] = work[r] + 1]
    BY <1>6 DEF Work
  <2>2. /\ work' \in [Roles -> Nat] /\ view' \in [Threads -> [Roles -> Nat]]
        /\ work'[r] = work[r] + 1 /\ \A q \in Roles : q # r => work'[q] = work[q]
        /\ \A q \in Roles : work[q] <= work'[q]
        /\ view'[th][r] = work[r] + 1 /\ \A q \in Roles : q # r => view'[th][q] = view[th][q]
        /\ \A u \in Threads : u # th => view'[u] = view[u]
    <3>1. work[r] \in Nat /\ work[r] + 1 \in Nat /\ view[th] \in [Roles -> Nat]
      <4>1. work[r] \in Nat
        BY <1>a
      <4>2. view[th] \in [Roles -> Nat]
        BY <1>a
      <4> QED BY <4>1, <4>2
    <3>2. /\ work' \in [Roles -> Nat]
          /\ work'[r] = work[r] + 1 /\ \A q \in Roles : q # r => work'[q] = work[q]
      BY <1>a, <2>1, <3>1
    <3>3. \A q \in Roles : work[q] <= work'[q]
      <4> TAKE q \in Roles
      <4>1. work[q] \in Nat
        BY <1>a
      <4> QED BY <3>1, <3>2, <4>1
    <3>4. view' = [view EXCEPT ![th] = [view[th] EXCEPT ![r] = work[r] + 1]]
      BY <2>1
    <3>5. [view[th] EXCEPT ![r] = work[r] + 1] \in [Roles -> Nat]
      BY <3>1
    <3>6. /\ view' \in [Threads -> [Roles -> Nat]]
          /\ view'[th] = [view[th] EXCEPT ![r] = work[r] + 1]
          /\ \A u \in Threads : u # th => view'[u] = view[u]
      BY <1>a, <3>4, <3>5
    <3>7. view'[th][r] = work[r] + 1 /\ \A q \in Roles : q # r => view'[th][q] = view[th][q]
      BY <3>1, <3>6
    <3> QED BY <3>2, <3>3, <3>6, <3>7
  <2>3. TypeOK'
    BY <2>1, <2>2 DEF Inv, TypeOK
  <2>4. ViewsBehind'
    <3>1. /\ \A u \in Threads, q \in Roles : view[u][q] <= work[q]
          /\ \A p \in Roles, q \in Roles : flag[p].view[q] <= work[q]
          /\ \A p \in Roles : flag[p].view \in [Roles -> Nat]
      BY DEF Inv, ViewsBehind, TypeOK
    <3>2. \A p \in Roles, q \in Roles : flag[p].view[q] <= work'[q]
      <4> TAKE p \in Roles, q \in Roles
      <4>1. flag[p].view[q] \in Nat /\ work[q] \in Nat /\ work'[q] \in Nat
        BY <1>a, <2>2, <3>1
      <4> QED BY <2>2, <3>1, <4>1
    <3>3. \A u \in Threads, q \in Roles : view'[u][q] <= work'[q]
      <4> TAKE u \in Threads, q \in Roles
      <4>1. view[u][q] \in Nat /\ work[q] \in Nat /\ work'[q] \in Nat
        BY <1>a, <2>2
      <4>2. view[u][q] <= work'[q]
        BY <2>2, <3>1, <4>1
      <4>3. CASE u = th /\ q = r
        <5>1. view'[u][q] = work'[q]
          BY <2>2, <4>3
        <5> QED BY <4>1, <5>1
      <4>4. CASE u = th /\ q # r
        BY <2>2, <4>2, <4>4
      <4>5. CASE u # th
        BY <2>2, <4>2, <4>5
      <4> QED BY <4>3, <4>4, <4>5
    <3> QED BY <2>1, <3>2, <3>3 DEF ViewsBehind
  <2>5. SoleOwner' /\ MidTake'
    BY <1>c, <2>1 DEF SoleOwner, MidTake
  <2>6. flag[r].taken /\ \A u \in Threads : u \in owners[r] => u = th
    BY <1>c, <2>1 DEF SoleOwner
  <2>7. FreeCarries'
    BY <2>1, <2>2, <2>6 DEF Inv, FreeCarries
  <2>8. HandoffVisible'
    BY <1>c, <2>1, <2>2, <2>6 DEF HandoffVisible
  <2> QED BY <2>3, <2>4, <2>5, <2>7, <2>8 DEF Inv
<1>7. CASE UNCHANGED vars
  BY <1>7 DEF vars, Inv, TypeOK, ViewsBehind, SoleOwner, MidTake, FreeCarries, HandoffVisible
<1> QED BY <1>1, <1>2, <1>3, <1>4, <1>5, <1>6, <1>7 DEF Next

\* The inductive invariant holds in every behaviour.
LEMMA AlwaysInv == Spec => []Inv
BY InitInv, NextInv, PTL DEF Spec

-----------------------------------------------------------------------------
(* The claim flags, proved.                                               *)

\* However many calls of take() race with each other and with single claims
\* through buffer(), there is at most one handle of each kind and a flag is set
\* exactly while somebody accounts for it.
THEOREM Stranding == Spec => [](TypeOK /\ NothingStranded)
<1>1. Inv => TypeOK /\ NothingStranded
  <2> SUFFICES ASSUME Inv, NEW r \in Roles PROVE Cardinality(owners[r]) <= 1
    BY DEF Inv, SoleOwner, NothingStranded
  <2>1. owners[r] \subseteq Threads
    BY DEF Inv, TypeOK
  <2>2. CASE owners[r] = {}
    BY <2>2, FS_EmptySet
  <2>3. CASE owners[r] # {}
    <3>1. PICK th \in Threads : owners[r] = {th}
      BY <2>1, <2>3 DEF Inv, SoleOwner
    <3>2. Cardinality({th}) = 1
      BY FS_Singleton
    <3> QED BY <3>1, <3>2
  <2> QED BY <2>2, <2>3
<1> QED BY AlwaysInv, <1>1, PTL

\* An owner sees all the work of earlier owners of the same handle: the Release
\* store of drop and the AcqRel swap of the claim suffice, also with failed
\* takes and rolled back claims in between.
THEOREM Handoff == Spec => []HandoffVisible
<1>1. Inv => HandoffVisible
  BY DEF Inv
<1> QED BY AlwaysInv, <1>1, PTL

-----------------------------------------------------------------------------
(* BlockBuilder: what a block is, and where the samples are.               *)

\* Sample y was made after x, by a whole number of spans and one.
Follows(x, y) ==
    LET step == y - x IN step = 1 \/ (step > Span /\ step % Span = 1 % Span)

Block == [first_sequence : Nat, last_sequence : Nat, samples : [1 .. N -> Nat]]

\* The blocks that are what they claim to be.
Faithful ==
    {b \in Block : /\ b.first_sequence = SequenceOf(b.samples[1])
                   /\ b.last_sequence = SequenceOf(b.samples[N])
                   /\ \A i \in 1 .. N - 1 : Follows(b.samples[i], b.samples[i + 1])
                   /\ Rising(b.samples, N)}

\* The builder's fields are in their ranges.
Fields ==
    /\ samples \in [1 .. N -> Nat] /\ len \in 0 .. N - 1
    /\ {first_sequence, last_sequence} \subseteq 0 .. Modulus - 1
    /\ made \in Nat /\ prior \in 0 .. made

\* The caller holds at most one refused sample and one block.
Hands ==
    /\ \A e \in refused : refused = {e}
    /\ \A b \in complete : complete = {b}
    /\ keepLatest \in BOOLEAN /\ Len(transport) <= Capacity

\* The partial block so far, which may still become a faithful one.
Held ==
    len # 0 =>
        /\ prior = samples[len] /\ prior # 0
        /\ first_sequence = SequenceOf(samples[1])
        /\ last_sequence = SequenceOf(prior)
        /\ \A i \in 1 .. len - 1 : Follows(samples[i], samples[i + 1])
        /\ Rising(samples, len)

\* A refused sample comes back with its own sequence, and was refused for a gap
\* that the partial block still has.
Returned ==
    \A e \in refused : e.error = "Discontinuous" =>
        /\ e.sample \in 1 .. made /\ e.received = SequenceOf(e.sample)
        /\ len # 0 => e.sample # prior + 1

\* Only faithful blocks have left the builder.
Shipped ==
    /\ complete \subseteq Faithful
    /\ transport \in Seq(Faithful) /\ delivered \in Seq(Faithful)

\* The samples in each place.
Arrived == SamplesOf(Range(delivered))
Waiting == SamplesOf(Range(transport))
Ready   == SamplesOf(complete)
Back    == {e.sample : e \in refused}

\* Every sample of A is older than every one of B.
Below(A, B) == \A x \in A, y \in B : x < y

\* Six sets are parts of one, no two of them meeting.
Split(all, A, B, C, D, E, F) ==
    /\ A \cup B \cup C \cup D \cup E \cup F = all
    /\ A \cap (B \cup C \cup D \cup E \cup F) = {}
    /\ B \cap (C \cup D \cup E \cup F) = {}
    /\ C \cap (D \cup E \cup F) = {}
    /\ D \cap (E \cup F) = {}
    /\ E \cap F = {}

Conserved == Split(1 .. made, Arrived, Waiting, Ready, Partial, Back, lost)

\* The blocks of a line stand in the order of their samples.
InOrder(s) == \A i, j \in 1 .. Len(s) : i < j => Before(s[i], s[j])

\* Old samples are further down the line.
Ordered ==
    /\ Below(Arrived, Waiting)
    /\ Below(Arrived \cup Waiting, Ready)
    /\ Below(Arrived \cup Waiting \cup Ready, Partial \cup Back)
    /\ InOrder(delivered) /\ InOrder(transport)

\* Builder, caller and transport by themselves.
Shape == Fields /\ Hands /\ Held /\ Returned /\ Shipped

BlockInv == Shape /\ Conserved /\ Ordered

-----------------------------------------------------------------------------
(* The sequence of a sample.                                               *)

\* What next_sequence returns for the sequence of sample k is that of k + 1,
\* and neither is the reserved 0.
LEMMA NextOf ==
    ASSUME NEW k \in Nat \ {0}
    PROVE  /\ SequenceOf(k) \in 1 .. Modulus - 1
           /\ next_sequence(SequenceOf(k)) = SequenceOf(k + 1)
<1>1. PICK m \in Nat \ {0} : m = Span /\ Modulus = m + 1
  BY BlockModulusAssumption DEF Span
<1>2. PICK r \in 0 .. m - 1 : r = (k - 1) % m
  BY ModRange
<1>3. (r + 1) % m = k % m
  <2>1. PICK j \in Int : j = k - 1
    OBVIOUS
  <2>2. ((j % m) + 1) % m = (j + 1) % m
    BY ModSucc
  <2>3. j + 1 = k
    BY <2>1
  <2> QED BY <1>2, <2>1, <2>2, <2>3
<1>4. SequenceOf(k) = r + 1 /\ SequenceOf(k + 1) = ((r + 1) % m) + 1
  BY <1>1, <1>2, <1>3 DEF SequenceOf
<1>5. CASE r = m - 1
  <2>1. m % m = 0
    <3>1. m = m * 1 + 0 /\ 0 \in 0 .. m - 1
      OBVIOUS
    <3> QED BY <3>1, ModUnique
  <2> QED BY <1>1, <1>4, <1>5, <2>1 DEF next_sequence
<1>6. CASE r # m - 1
  <2>1. (r + 1) % m = r + 1
    <3>1. r + 1 = m * 0 + (r + 1) /\ r + 1 \in 0 .. m - 1
      BY <1>6
    <3> QED BY <3>1, ModUnique
  <2> QED BY <1>1, <1>4, <1>6, <2>1 DEF next_sequence
<1>7. SequenceOf(k) \in 1 .. Modulus - 1
  BY <1>1, <1>2, <1>4
<1> QED BY <1>5, <1>6, <1>7

\* A later sample with the sequence that is due follows, or upstream omitted a
\* whole span of samples.
LEMMA DueFollows ==
    ASSUME NEW x \in Nat, NEW y \in Nat, y > x,
           SequenceOf(y) = SequenceOf(x + 1)
    PROVE  Follows(x, y)
<1>1. PICK m \in Nat \ {0} : m = Span /\ m > 1
  BY BlockModulusAssumption DEF Span
<1>2. PICK a \in Int : a = y - 1
  OBVIOUS
<1>x. x \in Int
  OBVIOUS
<1>3. a % m = x % m
  <2>1. a % m \in Int /\ x % m \in Int
    BY <1>1, ModRange
  <2>2. x + 1 - 1 = x
    OBVIOUS
  <2> QED BY <1>1, <1>2, <2>1, <2>2 DEF SequenceOf
<1>4. CASE a = x
  BY <1>2, <1>4 DEF Follows
<1>5. CASE x < a
  <2>1. a - x >= m
    <3>1. x \in Int /\ x % m = a % m
      BY <1>3
    <3> QED BY <1>5, <3>1, ModApart
  <2>2. PICK p \in Int : a = m * p + (a % m)
    BY DivMod
  <2>3. PICK q \in Int : x = m * q + (x % m)
    BY <1>x, DivMod
  <2>4. PICK r \in 0 .. m - 1 : r = x % m
    BY <1>x, ModRange
  <2>5. a - x = m * p - m * q
    BY <1>3, <2>2, <2>3, <2>4
  <2>6. a - x = m * (p - q)
    BY <1>1, <2>5, MulDist
  <2>7. PICK d \in Int : d = p - q
    OBVIOUS
  <2>8. y - x = m * d + 1 /\ y - x \in Int
    BY <1>2, <2>6, <2>7
  <2>9. 1 \in 0 .. m - 1
    BY <1>1
  <2>10. (y - x) % m = 1
    BY ONLY <2>7, <2>8, <2>9, m \in Nat \ {0}, ModUnique
  <2>11. 1 % m = 1
    <3>1. 1 = m * 0 + 1
      BY <1>1
    <3> QED BY <1>1, <2>9, <3>1, ModUnique
  <2>12. y - x > m
    BY <1>2, <2>1
  <2> QED BY <1>1, <2>10, <2>11, <2>12 DEF Follows
<1> QED BY <1>2, <1>4, <1>5

\* The builder starts empty.
LEMMA InitShape == BlockInit => Shape
<1> SUFFICES ASSUME BlockInit PROVE Shape
  OBVIOUS
<1>1. Fields
  BY BlockSizeAssumption, BlockModulusAssumption DEF BlockInit, Fields, Uninit
<1>2. Held /\ Returned /\ Hands
  BY BlockTransportAssumption DEF BlockInit, Held, Returned, Hands, Capacity
<1>3. <<>> \in Seq(Faithful)
  OBVIOUS
<1>4. Shipped
  BY <1>3 DEF BlockInit, Shipped
<1> QED BY <1>1, <1>2, <1>4 DEF Shape

\* The sequence due after a partial block is that of the next sample.
LEMMA Due ==
    ASSUME Fields, Held, len # 0
    PROVE  /\ prior \in Nat \ {0}
           /\ next_sequence(last_sequence) = SequenceOf(prior + 1)
<1>1. prior \in Nat \ {0} /\ last_sequence = SequenceOf(prior)
  BY DEF Fields, Held
<1> QED BY <1>1, NextOf

\* A sample whose sequence is due extends the partial block, or completes a
\* faithful one.
LEMMA AppendShape ==
    ASSUME Shape, NEW k \in Nat \ {0}, Append1(SequenceOf(k), k),
           len # 0 => Follows(prior, k) /\ k > prior,
           made' \in Nat, k <= made', UNCHANGED channel
    PROVE  Shape'
<1> DEFINE filled == [samples EXCEPT ![len + 1] = k]
           block == [first_sequence |-> First(SequenceOf(k)),
                     last_sequence |-> SequenceOf(k), samples |-> filled]
<1>a. /\ N \in Nat \ {0} /\ samples \in [1 .. N -> Nat] /\ len \in Nat /\ len < N
      /\ first_sequence \in 0 .. Modulus - 1 /\ SequenceOf(k) \in 0 .. Modulus - 1
      /\ Modulus \in Nat
  <2>1. SequenceOf(k) \in 1 .. Modulus - 1
    BY NextOf
  <2> QED BY <2>1, BlockSizeAssumption, BlockModulusAssumption DEF Shape, Fields
<1>b. /\ filled \in [1 .. N -> Nat] /\ filled[len + 1] = k
      /\ \A i \in 1 .. len : filled[i] = samples[i]
  BY <1>a
<1>c. First(SequenceOf(k)) \in 0 .. Modulus - 1 /\ First(SequenceOf(k)) = SequenceOf(filled[1])
  <2>1. CASE len = 0
    BY <1>a, <1>b, <2>1 DEF First
  <2>2. CASE len # 0
    <3>1. 1 \in 1 .. len /\ first_sequence = SequenceOf(samples[1])
      BY <1>a, <2>2 DEF Shape, Held
    <3>2. filled[1] = samples[1]
      BY <1>b, <3>1
    <3> QED BY <1>a, <2>2, <3>1, <3>2 DEF First
  <2> QED BY <2>1, <2>2
<1>d. \A i \in 1 .. len : Follows(filled[i], filled[i + 1])
  <2> SUFFICES ASSUME NEW i \in 1 .. len PROVE Follows(filled[i], filled[i + 1])
    OBVIOUS
  <2>0. len # 0
    BY <1>a
  <2>1. CASE i = len
    <3>1. filled[i] = prior /\ filled[i + 1] = k
      BY <1>a, <1>b, <2>0, <2>1 DEF Shape, Held
    <3> QED BY <2>0, <3>1
  <2>2. CASE i # len
    <3>1. i \in 1 .. len - 1 /\ i + 1 \in 1 .. len
      BY <1>a, <2>2
    <3>2. Follows(samples[i], samples[i + 1])
      BY <2>0, <3>1 DEF Shape, Held
    <3> QED BY <1>b, <3>1, <3>2
  <2> QED BY <2>1, <2>2
<1>r. Rising(filled, len + 1)
  <2> SUFFICES ASSUME NEW i \in 1 .. len + 1, NEW j \in 1 .. len + 1, i < j
               PROVE  filled[i] < filled[j]
    BY DEF Rising
  <2>1. i \in 1 .. len /\ len # 0
    BY <1>a
  <2>2. Rising(samples, len) /\ prior = samples[len] /\ len \in 1 .. len
    BY <1>a, <2>1 DEF Shape, Held
  <2>3. samples[i] \in Nat /\ prior \in Nat /\ samples[i] <= prior
    <3>1. CASE i = len
      BY <1>a, <2>1, <2>2, <3>1 DEF Shape, Fields
    <3>2. CASE i # len
      <4>1. i < len
        BY <1>a, <2>1, <3>2
      <4>2. samples[i] < samples[len]
        BY <2>1, <2>2, <4>1 DEF Rising
      <4>3. samples[i] \in Nat /\ samples[len] \in Nat
        BY <1>a, <2>1, <2>2
      <4> QED BY <2>2, <4>2, <4>3
    <3> QED BY <3>1, <3>2
  <2>4. CASE j = len + 1
    <3>1. samples[i] < k
      BY <2>1, <2>3
    <3> QED BY <1>b, <2>1, <2>4, <3>1
  <2>5. CASE j # len + 1
    <3>1. j \in 1 .. len
      BY <1>a, <2>5
    <3> QED BY <1>b, <2>1, <2>2, <3>1 DEF Rising
  <2> QED BY <2>4, <2>5
<1>e. samples' = filled /\ refused' = {}
  BY DEF Append1
<1> HIDE DEF filled
<1>g. keepLatest' \in BOOLEAN /\ Len(transport') <= Capacity'
  BY DEF Shape, Hands, Capacity, channel
<1>f. Returned' /\ transport' \in Seq(Faithful) /\ delivered' \in Seq(Faithful)
  BY <1>e DEF Shape, Returned, Shipped, channel
<1>1. CASE len + 1 # N
  <2>1. /\ len' = len + 1 /\ first_sequence' = First(SequenceOf(k))
        /\ last_sequence' = SequenceOf(k) /\ prior' = k /\ complete' = complete
    BY <1>1 DEF Append1, filled
  <2>2. Fields'
    <3>2. samples' \in [1 .. N -> Nat] /\ len' \in 0 .. N - 1 /\ prior' \in 0 .. made'
      BY <1>a, <1>b, <1>e, <1>1, <2>1
    <3>3. {first_sequence', last_sequence'} \subseteq 0 .. Modulus - 1
      BY <1>a, <1>c, <2>1
    <3> QED BY <3>2, <3>3 DEF Fields
  <2>4. Hands'
    BY <1>e, <1>g, <2>1 DEF Shape, Hands
  <2>3. Held'
    <3>1. k # 0 /\ samples'[len'] = k
      BY <1>b, <1>e, <2>1
    <3>2. \A i \in 1 .. len' - 1 : Follows(samples'[i], samples'[i + 1])
      BY <1>a, <1>d, <1>e, <2>1
    <3>3. Rising(samples', len')
      BY <1>e, <1>r, <2>1
    <3> QED BY <1>c, <1>e, <2>1, <3>1, <3>2, <3>3 DEF Held
  <2> QED BY <1>f, <2>1, <2>2, <2>3, <2>4 DEF Shape, Shipped
<1>2. CASE len + 1 = N
  <2>1. /\ len' = 0 /\ first_sequence' = 0 /\ last_sequence' = 0 /\ prior' = 0
        /\ complete' = {block}
    BY <1>2 DEF Append1, clear, filled
  <2>2. Fields' /\ Held'
    <3>1. samples' \in [1 .. N -> Nat] /\ len' \in 0 .. N - 1 /\ prior' \in 0 .. made'
      BY <1>a, <1>b, <1>e, <2>1
    <3>2. {first_sequence', last_sequence'} \subseteq 0 .. Modulus - 1
      BY <1>a, <2>1
    <3> HIDE DEF block
    <3> QED BY <2>1, <3>1, <3>2 DEF Fields, Held
  <2>4. Hands'
    <3> HIDE DEF block
    <3> QED BY <1>e, <1>g, <2>1 DEF Hands
  <2>3. block \in Faithful
    <3>1. block \in Block
      BY <1>a, <1>b, <1>c DEF Block
    <3>2. /\ block.first_sequence = SequenceOf(filled[1])
          /\ block.last_sequence = SequenceOf(filled[N]) /\ block.samples = filled
      BY <1>b, <1>c, <1>2
    <3>3. \A i \in 1 .. N - 1 : Follows(filled[i], filled[i + 1])
      BY <1>a, <1>d, <1>2
    <3>4. Rising(filled, N)
      BY <1>r, <1>2
    <3> HIDE DEF block
    <3> QED BY <3>1, <3>2, <3>3, <3>4 DEF Faithful
  <2> QED BY <1>f, <2>1, <2>2, <2>3, <2>4 DEF Shape, Shipped
<1> QED BY <1>1, <1>2

\* What a sample that was offered with its own sequence leaves behind.
LEMMA PushShape ==
    ASSUME Shape, NEW k \in Nat \ {0}, push(SequenceOf(k), k),
           len # 0 => k > prior,
           made' \in Nat, made <= made', k <= made', UNCHANGED channel
    PROVE  Shape'
<1>1. SequenceOf(k) # 0
  BY NextOf
<1>2. CASE ~Discontinuous(SequenceOf(k))
  <2>1. Append1(SequenceOf(k), k)
    BY <1>1, <1>2 DEF push
  <2>2. len # 0 => Follows(prior, k) /\ k > prior
    <3> SUFFICES ASSUME len # 0 PROVE Follows(prior, k)
      OBVIOUS
    <3>1. prior \in Nat /\ SequenceOf(k) = SequenceOf(prior + 1)
      BY <1>2, Due DEF Shape, Discontinuous
    <3> QED BY <3>1, DueFollows
  <2> QED BY <2>1, <2>2, AppendShape
<1>3. CASE Discontinuous(SequenceOf(k))
  <2>1. /\ refused' = {[error |-> "Discontinuous",
                        expected |-> next_sequence(last_sequence),
                        received |-> SequenceOf(k), sample |-> k]}
        /\ UNCHANGED <<builder, complete, prior>>
    BY <1>1, <1>3 DEF push, Refuse
  <2>2. len # 0 => k # prior + 1
    <3> SUFFICES ASSUME len # 0, k = prior + 1 PROVE FALSE
      OBVIOUS
    <3>1. next_sequence(last_sequence) = SequenceOf(k)
      BY Due DEF Shape
    <3> QED BY <1>3, <3>1 DEF Discontinuous
  <2>3. Fields' /\ Held'
    BY <2>1 DEF Shape, Fields, Held, builder
  <2>4. Returned'
    BY <2>1, <2>2 DEF Returned, builder
  <2>5. Shipped' /\ Hands'
    BY <2>1 DEF Shape, Shipped, Hands, Capacity, channel
  <2> QED BY <2>3, <2>4, <2>5 DEF Shape
<1> QED BY <1>2, <1>3

\* No step of the builder, its caller or the transport breaks a block.
LEMMA NextShape == Shape /\ [BlockNext]_blockVars => Shape'
<1> SUFFICES ASSUME Shape, [BlockNext]_blockVars PROVE Shape'
  OBVIOUS
<1>a. Fields /\ Hands /\ Held /\ Returned /\ Shipped
  BY DEF Shape
<1>1. ASSUME NEW gap \in 0 .. MaxGap, Push(gap) PROVE Shape'
  <2>1. made \in Nat /\ gap \in Nat /\ prior \in 0 .. made
    BY <1>a, BlockBoundAssumption DEF Fields
  <2>2. PICK k \in Nat \ {0} : k = made + gap + 1
    BY <2>1
  <2>3. made' = k /\ push(SequenceOf(k), k) /\ UNCHANGED channel
    BY <1>1, <2>2 DEF Push
  <2>4. k > prior /\ made <= k
    BY <2>1, <2>2
  <2> QED BY <2>3, <2>4, PushShape
<1>2. CASE PushReserved
  <2>1. /\ refused' = {[error |-> "ReservedSequence", sample |-> made + 1]}
        /\ made' = made + 1 /\ UNCHANGED <<builder, complete, prior, channel>>
    BY <1>2 DEF PushReserved, push, Refuse
  <2>2. Fields' /\ Held'
    BY <1>a, <2>1 DEF Fields, Held, builder
  <2>3. Returned' /\ Shipped'
    BY <1>a, <2>1 DEF Returned, Shipped, channel
  <2>4. Hands'
    BY <1>a, <2>1 DEF Hands, Capacity, channel
  <2> QED BY <2>2, <2>3, <2>4 DEF Shape
<1>3. CASE Clear
  <2>1. /\ len' = 0 /\ first_sequence' = 0 /\ last_sequence' = 0 /\ prior' = 0
        /\ UNCHANGED <<samples, made, refused, complete, channel>>
    BY <1>3 DEF Clear, clear
  <2>2. Fields' /\ Held'
    BY <1>a, <2>1, BlockSizeAssumption, BlockModulusAssumption DEF Fields, Held
  <2>3. Returned' /\ Shipped'
    BY <1>a, <2>1 DEF Returned, Shipped, channel
  <2>4. Hands'
    BY <1>a, <2>1 DEF Hands, Capacity, channel
  <2> QED BY <2>2, <2>3, <2>4 DEF Shape
<1>4. CASE DropRefused
  <2>1. refused' = {} /\ UNCHANGED <<builder, made, complete, channel, prior>>
    BY <1>4 DEF DropRefused
  <2>2. Fields' /\ Held'
    BY <1>a, <2>1 DEF Fields, Held, builder
  <2>3. Returned' /\ Shipped'
    BY <1>a, <2>1 DEF Returned, Shipped, channel
  <2>4. Hands'
    BY <1>a, <2>1 DEF Hands, Capacity, channel
  <2> QED BY <2>2, <2>3, <2>4 DEF Shape
<1>5. CASE RetryRefused
  <2>1. PICK e \in refused : e.error = "Discontinuous" /\ push(e.received, e.sample)
    BY <1>5 DEF RetryRefused
  <2>2. len = 0 /\ UNCHANGED <<made, channel>>
    BY <1>5 DEF RetryRefused
  <2>3. e.sample \in 1 .. made /\ e.received = SequenceOf(e.sample) /\ made \in Nat
    BY <1>a, <2>1 DEF Returned, Fields
  <2>4. PICK k \in Nat \ {0} : k = e.sample /\ k <= made
    BY <2>3
  <2>5. push(SequenceOf(k), k)
    BY <2>1, <2>3, <2>4
  <2> QED BY <2>2, <2>3, <2>4, <2>5, PushShape
<1>6. CASE Send
  <2>1. PICK b \in complete : \/ transport' = Append(transport, b) /\ Len(transport) < Capacity
                            \/ transport' = <<b>>
    BY <1>6 DEF Send
  <2>2. complete' = {} /\ UNCHANGED <<builder, made, refused, delivered, prior>>
    BY <1>6 DEF Send
  <2>3. transport' \in Seq(Faithful)
    <3>1. b \in Faithful /\ transport \in Seq(Faithful)
      BY <1>a DEF Shipped
    <3>2. Append(transport, b) \in Seq(Faithful) /\ <<b>> \in Seq(Faithful)
      BY <3>1
    <3> QED BY <2>1, <3>2
  <2>4. Fields' /\ Held' /\ Returned'
    BY <1>a, <2>2 DEF Fields, Held, Returned, builder
  <2>5. Shipped'
    BY <1>a, <2>2, <2>3 DEF Shipped
  <2>6. Hands'
    <3>1. Len(transport') <= Capacity
      <4>1. b \in Faithful /\ transport \in Seq(Faithful) /\ Capacity \in Nat \ {0}
        BY <1>a, BlockTransportAssumption DEF Shipped, Capacity
      <4>2. Len(Append(transport, b)) = Len(transport) + 1 /\ Len(<<b>>) = 1
            /\ Len(transport) \in Nat
        BY <4>1
      <4>3. CASE transport' = Append(transport, b) /\ Len(transport) < Capacity
        BY <4>1, <4>2, <4>3
      <4>4. CASE transport' = <<b>>
        BY <4>1, <4>2, <4>4
      <4> QED BY <2>1, <4>3, <4>4
    <3>2. keepLatest' = keepLatest
      BY <1>6 DEF Send
    <3> QED BY <1>a, <2>2, <3>1, <3>2 DEF Hands, Capacity
  <2> QED BY <2>4, <2>5, <2>6 DEF Shape
<1>7. CASE DropBlock
  <2>1. complete' = {} /\ UNCHANGED <<builder, made, refused, channel, prior>>
    BY <1>7 DEF DropBlock
  <2>2. Fields' /\ Held' /\ Returned'
    BY <1>a, <2>1 DEF Fields, Held, Returned, builder
  <2>3. Shipped'
    BY <1>a, <2>1 DEF Shipped, channel
  <2>4. Hands'
    BY <1>a, <2>1 DEF Hands, Capacity, channel
  <2> QED BY <2>2, <2>3, <2>4 DEF Shape
<1>8. CASE Receive
  <2>1. /\ transport # <<>> /\ transport' = Tail(transport)
        /\ delivered' = Append(delivered, Head(transport))
        /\ UNCHANGED <<builder, made, refused, complete, prior>>
    BY <1>8 DEF Receive
  <2>2. transport' \in Seq(Faithful) /\ delivered' \in Seq(Faithful)
    <3>1. transport \in Seq(Faithful) /\ delivered \in Seq(Faithful)
      BY <1>a DEF Shipped
    <3>2. Head(transport) \in Faithful /\ Tail(transport) \in Seq(Faithful)
      BY <2>1, <3>1, HeadTailProperties
    <3>3. Append(delivered, Head(transport)) \in Seq(Faithful)
      BY <3>1, <3>2
    <3> QED BY <2>1, <3>2, <3>3
  <2>3. Fields' /\ Held' /\ Returned'
    BY <1>a, <2>1 DEF Fields, Held, Returned, builder
  <2>4. Shipped'
    BY <1>a, <2>1, <2>2 DEF Shipped
  <2>5. Hands'
    <3>1. keepLatest' = keepLatest
      BY <1>8 DEF Receive
    <3>2. Len(transport') <= Capacity
      <4>1. Len(Tail(transport)) <= Len(transport) /\ Len(Tail(transport)) \in Nat
            /\ Len(transport) \in Nat /\ Len(transport) <= Capacity /\ Capacity \in Nat
        BY <1>a, <2>1, HeadTailProperties, BlockTransportAssumption DEF Shipped, Hands, Capacity
      <4> QED BY <2>1, <4>1
    <3> QED BY <1>a, <2>1, <3>1, <3>2 DEF Hands, Capacity
  <2> QED BY <2>3, <2>4, <2>5 DEF Shape
<1>9. CASE UNCHANGED blockVars
  <2>1. Fields' /\ Hands' /\ Held' /\ Returned' /\ Shipped'
    BY <1>a, <1>9
    DEF blockVars, builder, channel, Fields, Hands, Capacity, Held, Returned, Shipped
  <2> QED BY <2>1 DEF Shape
<1> QED BY <1>1, <1>2, <1>3, <1>4, <1>5, <1>6, <1>7, <1>8, <1>9 DEF BlockNext

-----------------------------------------------------------------------------
(* Where the samples are.                                                  *)

\* The samples of one block more.
LEMMA SamplesAdd ==
    ASSUME NEW A, NEW b
    PROVE  /\ SamplesOf({}) = {}
           /\ SamplesOf({b}) = {b.samples[i] : i \in 1 .. N}
           /\ SamplesOf(A \cup {b}) = SamplesOf(A) \cup SamplesOf({b})
BY DEF SamplesOf

\* The values of a function that is another one but for one argument more.
LEMMA ImageAdd ==
    ASSUME NEW f, NEW g, NEW A, NEW x, \A i \in A : f[i] = g[i]
    PROVE  {f[i] : i \in A \cup {x}} = {g[i] : i \in A} \cup {f[x]}
<1>1. \A y : y \in {f[i] : i \in A \cup {x}} => y \in {g[i] : i \in A} \cup {f[x]}
  OBVIOUS
<1>2. \A y : y \in {g[i] : i \in A} \cup {f[x]} => y \in {f[i] : i \in A \cup {x}}
  OBVIOUS
<1> QED BY <1>1, <1>2

\* The blocks of a line that one joins at the end or leaves at the front.
LEMMA RangeAppend ==
    ASSUME NEW S, NEW s \in Seq(S), NEW b \in S
    PROVE  /\ Range(Append(s, b)) = Range(s) \cup {b}
           /\ \A i \in 1 .. Len(s) : s[i] \in Range(s)
<1>1. /\ DOMAIN s = 1 .. Len(s) /\ Len(s) \in Nat
      /\ DOMAIN Append(s, b) = 1 .. Len(s) + 1
      /\ Append(s, b)[Len(s) + 1] = b
      /\ \A i \in 1 .. Len(s) : Append(s, b)[i] = s[i]
  OBVIOUS
<1>2. 1 .. Len(s) + 1 = (1 .. Len(s)) \cup {Len(s) + 1}
  BY <1>1
<1>3. Range(Append(s, b)) = Range(s) \cup {b}
  <2>1. PICK f : f = Append(s, b)
    OBVIOUS
  <2>2. /\ \A i \in 1 .. Len(s) : f[i] = s[i]
        /\ f[Len(s) + 1] = b /\ DOMAIN f = (1 .. Len(s)) \cup {Len(s) + 1}
    BY <1>1, <1>2, <2>1
  <2>3. {f[i] : i \in DOMAIN f} = {s[i] : i \in 1 .. Len(s)} \cup {b}
    <3>1. PICK A, x : A = 1 .. Len(s) /\ x = Len(s) + 1
      OBVIOUS
    <3>2. {f[i] : i \in A \cup {x}} = {s[i] : i \in A} \cup {f[x]}
      BY <2>2, <3>1, ImageAdd
    <3> QED BY <2>2, <3>1, <3>2
  <2>4. Range(f) = {f[i] : i \in DOMAIN f} /\ Range(s) = {s[i] : i \in 1 .. Len(s)}
    BY <1>1 DEF Range
  <2> QED BY <2>1, <2>3, <2>4
<1>4. \A i \in 1 .. Len(s) : s[i] \in Range(s)
  BY <1>1 DEF Range
<1> QED BY <1>3, <1>4

\* And those that are left when the first one leaves.
LEMMA RangeTail ==
    ASSUME NEW S, NEW s \in Seq(S), s # <<>>
    PROVE  /\ Head(s) \in S /\ Tail(s) \in Seq(S)
           /\ Range(s) = Range(Tail(s)) \cup {Head(s)}
<1>1. /\ Head(s) \in S /\ Tail(s) \in Seq(S) /\ Len(s) \in Nat \ {0}
      /\ Len(Tail(s)) = Len(s) - 1 /\ Head(s) = s[1]
      /\ \A i \in 1 .. Len(Tail(s)) : Tail(s)[i] = s[i + 1]
  BY HeadTailProperties, EmptySeq
<1>2. DOMAIN s = 1 .. Len(s) /\ DOMAIN Tail(s) = 1 .. Len(Tail(s))
  BY <1>1
<1>3. Range(Tail(s)) \cup {Head(s)} \subseteq Range(s)
  <2>1. \A i \in 1 .. Len(Tail(s)) : i + 1 \in 1 .. Len(s)
    BY <1>1
  <2>2. 1 \in 1 .. Len(s)
    BY <1>1
  <2> QED BY <1>1, <1>2, <2>1, <2>2 DEF Range
<1>4. Range(s) \subseteq Range(Tail(s)) \cup {Head(s)}
  <2> SUFFICES ASSUME NEW i \in 1 .. Len(s), i # 1 PROVE s[i] \in Range(Tail(s))
    BY <1>1, <1>2 DEF Range
  <2>1. i - 1 \in 1 .. Len(Tail(s)) /\ (i - 1) + 1 = i
    BY <1>1
  <2>2. Tail(s)[i - 1] = s[i]
    BY <1>1, <2>1
  <2> QED BY <1>2, <2>1, <2>2 DEF Range
<1> QED BY <1>1, <1>3, <1>4

\* Whether all samples of one block are before those of another.
LEMMA BeforeBelow ==
    ASSUME NEW b, NEW c
    PROVE  Before(b, c) <=> Below(SamplesOf({b}), SamplesOf({c}))
<1>1. ASSUME NEW d
      PROVE  /\ \A i \in 1 .. N : d.samples[i] \in SamplesOf({d})
             /\ \A x \in SamplesOf({d}) : \E i \in 1 .. N : x = d.samples[i]
  BY DEF SamplesOf
<1>2. ASSUME Before(b, c) PROVE Below(SamplesOf({b}), SamplesOf({c}))
  <2> SUFFICES ASSUME NEW x \in SamplesOf({b}), NEW y \in SamplesOf({c}) PROVE x < y
    BY DEF Below
  <2>1. PICK i \in 1 .. N : x = b.samples[i]
    BY <1>1
  <2>2. PICK j \in 1 .. N : y = c.samples[j]
    BY <1>1
  <2> QED BY <1>2, <2>1, <2>2 DEF Before
<1>3. ASSUME Below(SamplesOf({b}), SamplesOf({c})) PROVE Before(b, c)
  <2> SUFFICES ASSUME NEW i \in 1 .. N, NEW j \in 1 .. N PROVE b.samples[i] < c.samples[j]
    BY DEF Before
  <2>1. b.samples[i] \in SamplesOf({b}) /\ c.samples[j] \in SamplesOf({c})
    BY <1>1
  <2> QED BY <1>3, <2>1 DEF Below
<1> QED BY <1>2, <1>3

\* Below goes by parts.
LEMMA BelowUnion ==
    ASSUME NEW A, NEW B, NEW C
    PROVE  /\ Below(A \cup B, C) <=> Below(A, C) /\ Below(B, C)
           /\ Below(C, A \cup B) <=> Below(C, A) /\ Below(C, B)
           /\ Below({}, C) /\ Below(C, {})
BY Zenon DEF Below

\* A block after all those of a line may join it.
LEMMA InOrderAppend ==
    ASSUME NEW s \in Seq(Faithful), NEW b \in Faithful, InOrder(s),
           Below(SamplesOf(Range(s)), SamplesOf({b}))
    PROVE  InOrder(Append(s, b))
<1>1. \A i \in 1 .. Len(s) : Before(s[i], b)
  <2> TAKE i \in 1 .. Len(s)
  <2>1. s[i] \in Range(s)
    BY RangeAppend
  <2>2. SamplesOf({s[i]}) \subseteq SamplesOf(Range(s))
    BY <2>1 DEF SamplesOf
  <2> QED BY <2>2, BeforeBelow DEF Below
<1>2. /\ Len(Append(s, b)) = Len(s) + 1 /\ Len(s) \in Nat
      /\ Append(s, b)[Len(s) + 1] = b
      /\ \A i \in 1 .. Len(s) : Append(s, b)[i] = s[i]
  OBVIOUS
<1> SUFFICES ASSUME NEW i \in 1 .. Len(s) + 1, NEW j \in 1 .. Len(s) + 1, i < j
             PROVE  Before(Append(s, b)[i], Append(s, b)[j])
  BY <1>2 DEF InOrder
<1>3. i \in 1 .. Len(s)
  BY <1>2
<1>4. CASE j = Len(s) + 1
  BY <1>1, <1>2, <1>3, <1>4
<1>5. CASE j # Len(s) + 1
  <2>1. j \in 1 .. Len(s)
    BY <1>2, <1>5
  <2> QED BY <1>2, <1>3, <2>1 DEF InOrder
<1> QED BY <1>4, <1>5

\* What is left of a line when its first block leaves comes after that block.
LEMMA InOrderTail ==
    ASSUME NEW s \in Seq(Faithful), s # <<>>, InOrder(s)
    PROVE  /\ InOrder(Tail(s))
           /\ Below(SamplesOf({Head(s)}), SamplesOf(Range(Tail(s))))
<1>1. /\ Len(s) \in Nat \ {0} /\ Len(Tail(s)) = Len(s) - 1 /\ Head(s) = s[1]
      /\ Tail(s) \in Seq(Faithful)
      /\ \A i \in 1 .. Len(Tail(s)) : Tail(s)[i] = s[i + 1]
  BY HeadTailProperties, EmptySeq
<1>2. InOrder(Tail(s))
  <2> SUFFICES ASSUME NEW i \in 1 .. Len(Tail(s)), NEW j \in 1 .. Len(Tail(s)), i < j
               PROVE  Before(Tail(s)[i], Tail(s)[j])
    BY DEF InOrder
  <2>1. i + 1 \in 1 .. Len(s) /\ j + 1 \in 1 .. Len(s) /\ i + 1 < j + 1
    BY <1>1
  <2>2. Before(s[i + 1], s[j + 1])
    BY <2>1 DEF InOrder
  <2> QED BY <1>1, <2>2
<1>3. ASSUME NEW c \in Range(Tail(s)) PROVE Below(SamplesOf({Head(s)}), SamplesOf({c}))
  <2>1. PICK i \in 1 .. Len(Tail(s)) : c = Tail(s)[i]
    BY <1>1 DEF Range
  <2>2. 1 \in 1 .. Len(s) /\ i + 1 \in 1 .. Len(s) /\ 1 < i + 1
    BY <1>1
  <2>3. Before(s[1], s[i + 1])
    BY <2>2 DEF InOrder
  <2> QED BY <1>1, <2>1, <2>3, BeforeBelow
<1>4. \A x \in SamplesOf(Range(Tail(s))) : \E c \in Range(Tail(s)) : x \in SamplesOf({c})
  BY DEF SamplesOf
<1>5. Below(SamplesOf({Head(s)}), SamplesOf(Range(Tail(s))))
  BY <1>3, <1>4, Zenon DEF Below
<1> QED BY <1>2, <1>5

\* Sets that split a whole still do when one moves into another: the steps that
\* take a sample into the builder, clear it, drop a refused sample, send,
\* displace, drop and receive a block.
LEMMA Moves ==
    ASSUME NEW all, NEW A, NEW B, NEW C, NEW D, NEW E, NEW F, Split(all, A, B, C, D, E, F)
    PROVE  /\ Split(all, A, B, C, D \cup E, {}, F)
           /\ C = {} => Split(all, A, B, D \cup E, {}, {}, F)
           /\ Split(all, A, B, C, {}, E, F \cup D)
           /\ Split(all, A, B, C, D, {}, F \cup E)
           /\ Split(all, A, B \cup C, {}, D, E, F)
           /\ Split(all, A, C, {}, D, E, F \cup B)
           /\ Split(all, A, B, {}, D, E, F \cup C)
           /\ \A H, T : B = H \cup T /\ H \cap T = {} => Split(all, A \cup H, T, C, D, E, F)
<1>1. Split(all, A, B, C, D \cup E, {}, F)
  BY DEF Split
<1>2. C = {} => Split(all, A, B, D \cup E, {}, {}, F)
  BY DEF Split
<1>3. Split(all, A, B, C, {}, E, F \cup D)
  BY DEF Split
<1>4. Split(all, A, B, C, D, {}, F \cup E)
  BY DEF Split
<1>5. Split(all, A, B \cup C, {}, D, E, F)
  BY DEF Split
<1>6. Split(all, A, C, {}, D, E, F \cup B)
  BY DEF Split
<1>7. Split(all, A, B, {}, D, E, F \cup C)
  BY DEF Split
<1>8. ASSUME NEW H, NEW T, B = H \cup T, H \cap T = {}
      PROVE  Split(all, A \cup H, T, C, D, E, F)
  BY <1>8 DEF Split
<1> QED BY <1>1, <1>2, <1>3, <1>4, <1>5, <1>6, <1>7, <1>8

\* A new member, and some more that are lost at once.
LEMMA Joins ==
    ASSUME NEW all, NEW A, NEW B, NEW C, NEW D, NEW F, Split(all, A, B, C, D, {}, F),
           NEW G, NEW k, k \notin all, k \notin G, G \cap all = {}
    PROVE  Split(all \cup G \cup {k}, A, B, C, D, {k}, F \cup G)
BY DEF Split

\* The places after a sample that was in nobody's hands but the caller's has been
\* offered to the builder.
LEMMA OfferPlaces ==
    ASSUME Shape, NEW k \in Nat \ {0}, push(SequenceOf(k), k), Room,
           Split(1 .. made', Arrived, Waiting, Ready, Partial, {k}, lost'),
           Below(Arrived, Waiting), Below(Arrived \cup Waiting, Ready),
           Below(Arrived \cup Waiting \cup Ready, Partial \cup {k}),
           InOrder(delivered), InOrder(transport), UNCHANGED channel
    PROVE  Conserved' /\ Ordered'
<1>1. /\ Arrived' = Arrived /\ Waiting' = Waiting
      /\ InOrder(delivered)' /\ InOrder(transport)'
  BY DEF Arrived, Waiting, channel
<1>2. SequenceOf(k) # 0 /\ len \in Nat /\ len < N /\ N \in Nat \ {0}
      /\ samples \in [1 .. N -> Nat]
  <2>1. SequenceOf(k) \in 1 .. Modulus - 1
    BY NextOf
  <2> QED BY <2>1, BlockSizeAssumption, BlockModulusAssumption DEF Shape, Fields
<1>3. CASE Discontinuous(SequenceOf(k))
  <2>1. /\ refused' = {[error |-> "Discontinuous",
                        expected |-> next_sequence(last_sequence),
                        received |-> SequenceOf(k), sample |-> k]}
        /\ UNCHANGED <<builder, complete, prior>>
    BY <1>2, <1>3 DEF push, Refuse
  <2>2. Ready' = Ready /\ Partial' = Partial
    BY <2>1 DEF Ready, Partial, builder
  <2>3. Back' = {k}
    BY <2>1 DEF Back
  <2> QED BY <1>1, <2>2, <2>3 DEF Conserved, Ordered
<1>4. CASE ~Discontinuous(SequenceOf(k))
  <2> DEFINE filled == [samples EXCEPT ![len + 1] = k]
  <2>1. Append1(SequenceOf(k), k)
    BY <1>2, <1>4 DEF push
  <2>2. samples' = filled /\ Back' = {}
    BY <2>1 DEF Append1, Back
  <2>3. {filled[i] : i \in 1 .. len + 1} = Partial \cup {k}
    <3>1. /\ \A i \in 1 .. len : filled[i] = samples[i]
          /\ filled[len + 1] = k
      BY <1>2
    <3>2. 1 .. len + 1 = (1 .. len) \cup {len + 1}
      BY <1>2
    <3> HIDE DEF filled
    <3>3. PICK A, x : A = 1 .. len /\ x = len + 1
      OBVIOUS
    <3>4. {filled[i] : i \in A \cup {x}} = {samples[i] : i \in A} \cup {filled[x]}
      BY <3>1, <3>3, ImageAdd
    <3> QED BY <3>1, <3>2, <3>3, <3>4 DEF Partial
  <2>4. CASE len + 1 # N
    <3>1. len' = len + 1 /\ complete' = complete
      BY <2>1, <2>4 DEF Append1
    <3>2. Ready' = Ready /\ Partial' = Partial \cup {k}
      BY <2>2, <2>3, <3>1 DEF Ready, Partial
    <3>3. Split(1 .. made', Arrived, Waiting, Ready, Partial \cup {k}, {}, lost')
      BY Moves
    <3>4. Below(Arrived \cup Waiting \cup Ready, (Partial \cup {k}) \cup {})
      BY DEF Below
    <3> QED BY <1>1, <2>2, <3>2, <3>3, <3>4 DEF Conserved, Ordered
  <2>5. CASE len + 1 = N
    <3>1. /\ len' = 0
          /\ complete' = {[first_sequence |-> First(SequenceOf(k)),
                           last_sequence |-> SequenceOf(k), samples |-> filled]}
      BY <2>1, <2>5 DEF Append1, clear
    <3>2. Ready = {} /\ Partial' = {}
      <4>1. complete = {}
        BY <1>2, <2>5 DEF Room
      <4>2. 1 .. len' = {}
        BY <3>1
      <4> QED BY <4>1, <4>2, SamplesAdd DEF Ready, Partial
    <3>3. Ready' = Partial \cup {k}
      <4> DEFINE b == [first_sequence |-> First(SequenceOf(k)),
                       last_sequence |-> SequenceOf(k), samples |-> filled]
      <4>1. b.samples = filled
        OBVIOUS
      <4>2. complete' = {b}
        BY <3>1
      <4> HIDE DEF b, filled
      <4>3. SamplesOf({b}) = {b.samples[i] : i \in 1 .. N}
        BY SamplesAdd
      <4> QED BY <2>3, <2>5, <4>1, <4>2, <4>3 DEF Ready
    <3>4. Split(1 .. made', Arrived, Waiting, Partial \cup {k}, {}, {}, lost')
      BY <3>2, Moves
    <3>5. /\ Below(Arrived \cup Waiting, Partial \cup {k})
          /\ Below(Arrived \cup Waiting \cup (Partial \cup {k}), {} \cup {})
      BY DEF Below
    <3> QED BY <1>1, <2>2, <3>2, <3>3, <3>4, <3>5 DEF Conserved, Ordered
  <2> QED BY <2>4, <2>5
<1> QED BY <1>3, <1>4

\* Nothing has been made.
LEMMA InitPlaces == BlockInit => Conserved /\ Ordered
<1> SUFFICES ASSUME BlockInit PROVE Conserved /\ Ordered
  OBVIOUS
<1>1. /\ len = 0 /\ made = 0 /\ refused = {} /\ complete = {} /\ lost = {}
      /\ transport = <<>> /\ delivered = <<>>
  BY DEF BlockInit
<1>2. Range(<<>>) = {} /\ SamplesOf({}) = {} /\ 1 .. 0 = {}
  <2>1. Range(<<>>) = {}
    BY DEF Range
  <2>2. SamplesOf({}) = {}
    BY DEF SamplesOf
  <2> QED BY <2>1, <2>2
<1>3. /\ Arrived = {} /\ Waiting = {} /\ Ready = {} /\ Partial = {} /\ Back = {}
      /\ 1 .. made = {}
  BY <1>1, <1>2 DEF Arrived, Waiting, Ready, Partial, Back
<1>4. Conserved
  BY <1>1, <1>3 DEF Conserved, Split
<1>5. InOrder(delivered) /\ InOrder(transport)
  BY <1>1 DEF InOrder
<1> QED BY <1>3, <1>4, <1>5 DEF Ordered, Below

\* Upstream makes another sample, after leaving some out.
LEMMA Made ==
    ASSUME Shape, Conserved, Ordered, refused = {}, NEW k \in Nat, k > made
    PROVE  /\ Split(1 .. k, Arrived, Waiting, Ready, Partial, {k}, lost \cup made + 1 .. k - 1)
           /\ Below(Arrived, Waiting) /\ Below(Arrived \cup Waiting, Ready)
           /\ Below(Arrived \cup Waiting \cup Ready, Partial \cup {k})
<1>1. made \in Nat /\ Back = {}
  BY DEF Shape, Fields, Back
<1>2. Split(1 .. made, Arrived, Waiting, Ready, Partial, {}, lost)
  BY <1>1 DEF Conserved
<1>3. /\ k \notin 1 .. made /\ k \notin made + 1 .. k - 1
      /\ (made + 1 .. k - 1) \cap 1 .. made = {}
      /\ (1 .. made) \cup (made + 1 .. k - 1) \cup {k} = 1 .. k
  BY <1>1
<1>4. Split((1 .. made) \cup (made + 1 .. k - 1) \cup {k}, Arrived, Waiting, Ready, Partial,
            {k}, lost \cup made + 1 .. k - 1)
  <2> DEFINE G == made + 1 .. k - 1
             all == 1 .. made
  <2>1. /\ k \notin all /\ k \notin G /\ G \cap all = {}
        /\ Split(all, Arrived, Waiting, Ready, Partial, {}, lost)
    BY <1>2, <1>3
  <2> HIDE DEF G, all
  <2>2. Split(all \cup G \cup {k}, Arrived, Waiting, Ready, Partial, {k}, lost \cup G)
    BY <2>1, Joins
  <2> QED BY <2>2 DEF G, all
<1>5. Below(Arrived \cup Waiting \cup Ready, {k})
  <2> SUFFICES ASSUME NEW x \in Arrived \cup Waiting \cup Ready PROVE x < k
    BY DEF Below
  <2>1. x \in 1 .. made
    BY <1>2 DEF Split
  <2> QED BY <1>1, <2>1
<1>6. Below(Arrived \cup Waiting \cup Ready, Partial)
  BY <1>1 DEF Ordered, Below
<1>7. Below(Arrived \cup Waiting \cup Ready, Partial \cup {k})
  BY <1>5, <1>6, BelowUnion
<1> QED BY <1>3, <1>4, <1>7 DEF Ordered

\* No step loses a sample or takes two of them out of their order.
LEMMA NextPlaces ==
    ASSUME Shape, Conserved, Ordered, [BlockNext]_blockVars
    PROVE  Conserved' /\ Ordered'
<1>a. /\ made \in Nat /\ len \in 0 .. N - 1 /\ N \in Nat \ {0}
      /\ \A e \in refused : refused = {e}
      /\ \A b \in complete : complete = {b}
      /\ complete \subseteq Faithful /\ transport \in Seq(Faithful)
      /\ delivered \in Seq(Faithful)
  BY BlockSizeAssumption DEF Shape, Fields, Hands, Shipped
<1>b. Split(1 .. made, Arrived, Waiting, Ready, Partial, Back, lost)
  BY DEF Conserved
<1>c. /\ Below(Arrived, Waiting) /\ Below(Arrived \cup Waiting, Ready)
      /\ Below(Arrived \cup Waiting \cup Ready, Partial \cup Back)
      /\ InOrder(delivered) /\ InOrder(transport)
  BY DEF Ordered
<1>1. ASSUME NEW gap \in 0 .. MaxGap, Push(gap) PROVE Conserved' /\ Ordered'
  <2>1. gap \in Nat
    BY BlockBoundAssumption
  <2>2. PICK k \in Nat \ {0} : k = made + gap + 1
    BY <1>a, <2>1
  <2>3. k > made /\ made + gap = k - 1
    BY <1>a, <2>1, <2>2
  <2>4. /\ refused = {} /\ Room /\ made' = k /\ lost' = lost \cup made + 1 .. k - 1
        /\ push(SequenceOf(k), k) /\ UNCHANGED channel
    BY <1>1, <2>2, <2>3 DEF Push
  <2>5. /\ Split(1 .. k, Arrived, Waiting, Ready, Partial, {k}, lost \cup made + 1 .. k - 1)
        /\ Below(Arrived \cup Waiting \cup Ready, Partial \cup {k})
    BY <2>3, <2>4, Made
  <2>6. Split(1 .. made', Arrived, Waiting, Ready, Partial, {k}, lost')
    BY <2>4, <2>5
  <2> QED BY <1>c, <2>4, <2>5, <2>6, OfferPlaces
<1>2. CASE PushReserved
  <2>1. PICK k \in Nat : k = made + 1 /\ k > made
    BY <1>a
  <2>2. /\ refused = {} /\ refused' = {[error |-> "ReservedSequence", sample |-> k]}
        /\ made' = k /\ UNCHANGED <<builder, complete, channel, lost>>
    BY <1>2, <2>1 DEF PushReserved, push, Refuse
  <2>3. /\ Split(1 .. k, Arrived, Waiting, Ready, Partial, {k}, lost \cup made + 1 .. k - 1)
        /\ Below(Arrived \cup Waiting \cup Ready, Partial \cup {k})
    BY <1>a, <2>1, <2>2, Made
  <2>4. lost \cup made + 1 .. k - 1 = lost
    BY <1>a, <2>1
  <2>5. /\ Arrived' = Arrived /\ Waiting' = Waiting /\ Ready' = Ready /\ Partial' = Partial
        /\ lost' = lost /\ delivered' = delivered /\ transport' = transport
    BY <2>2 DEF Arrived, Waiting, Ready, Partial, builder, channel
  <2>6. Back' = {k}
    BY <2>2 DEF Back
  <2>7. Conserved'
    BY <2>2, <2>3, <2>4, <2>5, <2>6 DEF Conserved
  <2> QED BY <1>c, <2>3, <2>5, <2>6, <2>7 DEF Ordered
<1>3. CASE Clear
  <2>1. /\ len' = 0 /\ lost' = lost \cup Partial
        /\ UNCHANGED <<samples, made, refused, complete, channel>>
    BY <1>3 DEF Clear, clear
  <2>2. /\ Arrived' = Arrived /\ Waiting' = Waiting /\ Ready' = Ready /\ Back' = Back
        /\ delivered' = delivered /\ transport' = transport
    BY <2>1 DEF Arrived, Waiting, Ready, Back, channel
  <2>3. Partial' = {}
    <3>1. 1 .. len' = {}
      BY <2>1
    <3> QED BY <3>1 DEF Partial
  <2>4. Split(1 .. made, Arrived, Waiting, Ready, {}, Back, lost \cup Partial)
    BY <1>b, Moves
  <2>5. Conserved'
    BY <2>1, <2>2, <2>3, <2>4 DEF Conserved
  <2>6. Below(Arrived \cup Waiting \cup Ready, {} \cup Back)
    BY <1>c DEF Below
  <2> QED BY <1>c, <2>2, <2>3, <2>5, <2>6 DEF Ordered
<1>4. CASE DropRefused
  <2>1. /\ lost' = lost \cup Back /\ refused' = {}
        /\ UNCHANGED <<builder, made, complete, channel>>
    BY <1>4 DEF DropRefused, Back
  <2>2. /\ Arrived' = Arrived /\ Waiting' = Waiting /\ Ready' = Ready /\ Partial' = Partial
        /\ delivered' = delivered /\ transport' = transport
    BY <2>1 DEF Arrived, Waiting, Ready, Partial, builder, channel
  <2>3. Back' = {}
    BY <2>1 DEF Back
  <2>4. Split(1 .. made, Arrived, Waiting, Ready, Partial, {}, lost \cup Back)
    BY <1>b, Moves
  <2>5. Conserved'
    BY <2>1, <2>2, <2>3, <2>4 DEF Conserved
  <2>6. Below(Arrived \cup Waiting \cup Ready, Partial \cup {})
    BY <1>c DEF Below
  <2> QED BY <1>c, <2>2, <2>3, <2>5, <2>6 DEF Ordered
<1>5. CASE RetryRefused
  <2>1. PICK e \in refused : e.error = "Discontinuous" /\ push(e.received, e.sample)
    BY <1>5 DEF RetryRefused
  <2>2. len = 0 /\ Room /\ UNCHANGED <<made, channel, lost>>
    BY <1>5 DEF RetryRefused
  <2>3. e.sample \in 1 .. made /\ e.received = SequenceOf(e.sample)
    BY <2>1 DEF Shape, Returned
  <2>4. PICK k \in Nat \ {0} : k = e.sample
    BY <1>a, <2>3
  <2>5. push(SequenceOf(k), k)
    BY <2>1, <2>3, <2>4
  <2>6. Back = {k}
    <3>1. refused = {e}
      BY <1>a
    <3> QED BY <2>4, <3>1, Zenon DEF Back
  <2>7. Split(1 .. made', Arrived, Waiting, Ready, Partial, {k}, lost')
    BY <1>b, <2>2, <2>6
  <2> QED BY <1>c, <2>2, <2>5, <2>6, <2>7, OfferPlaces
<1>6. CASE Send
  <2>1. PICK b \in complete :
          \/ /\ transport' = Append(transport, b)
             /\ lost' = lost
          \/ /\ transport' = <<b>>
             /\ lost' = lost \cup Waiting
    BY <1>6 DEF Send, Waiting
  <2>2. complete' = {} /\ UNCHANGED <<builder, made, refused, delivered>>
    BY <1>6 DEF Send
  <2>3. b \in Faithful /\ Ready = SamplesOf({b})
    BY <1>a DEF Ready
  <2>4. /\ Arrived' = Arrived /\ Ready' = {} /\ Back' = Back /\ Partial' = Partial
        /\ delivered' = delivered /\ made' = made
    BY <2>2, SamplesAdd DEF Arrived, Ready, Back, Partial, builder
  <2>5. Below(Arrived, Ready) /\ Below(Waiting, Ready)
    BY <1>c, BelowUnion
  <2>6. CASE transport' = Append(transport, b) /\ lost' = lost
    <3>1. Waiting' = Waiting \cup Ready
      <4>1. Range(Append(transport, b)) = Range(transport) \cup {b}
        BY <1>a, <2>3, RangeAppend
      <4>2. SamplesOf(Range(transport) \cup {b}) = SamplesOf(Range(transport)) \cup SamplesOf({b})
        BY SamplesAdd
      <4> QED BY <2>3, <2>6, <4>1, <4>2 DEF Waiting
    <3>2. InOrder(transport')
      BY <1>a, <1>c, <2>3, <2>5, <2>6, InOrderAppend DEF Waiting
    <3>3. Split(1 .. made, Arrived, Waiting \cup Ready, {}, Partial, Back, lost)
      BY <1>b, Moves
    <3>4. Conserved'
      BY <2>4, <2>6, <3>1, <3>3 DEF Conserved
    <3>5. /\ Below(Arrived, Waiting \cup Ready)
          /\ Below(Arrived \cup (Waiting \cup Ready), {})
          /\ Below(Arrived \cup (Waiting \cup Ready) \cup {}, Partial \cup Back)
      BY <1>c DEF Below
    <3> QED BY <1>c, <2>4, <3>1, <3>2, <3>4, <3>5 DEF Ordered
  <2>7. CASE transport' = <<b>> /\ lost' = lost \cup Waiting
    <3>1. Waiting' = Ready
      <4>1. Range(<<b>>) = {b}
        BY DEF Range
      <4> QED BY <2>3, <2>7, <4>1 DEF Waiting
    <3>2. InOrder(transport')
      <4>1. Len(transport') = 1
        BY <2>7
      <4> QED BY <4>1 DEF InOrder
    <3>3. Split(1 .. made, Arrived, Ready, {}, Partial, Back, lost \cup Waiting)
      BY <1>b, Moves
    <3>4. Conserved'
      BY <2>4, <2>7, <3>1, <3>3 DEF Conserved
    <3>5. /\ Below(Arrived \cup Ready, {})
          /\ Below(Arrived \cup Ready \cup {}, Partial \cup Back)
      BY <1>c DEF Below
    <3> QED BY <1>c, <2>4, <2>5, <3>1, <3>2, <3>4, <3>5 DEF Ordered
  <2> QED BY <2>1, <2>6, <2>7
<1>7. CASE DropBlock
  <2>1. /\ complete' = {} /\ lost' = lost \cup Ready
        /\ UNCHANGED <<builder, made, refused, channel>>
    BY <1>7 DEF DropBlock, Ready
  <2>2. /\ Arrived' = Arrived /\ Waiting' = Waiting /\ Ready' = {} /\ Back' = Back
        /\ Partial' = Partial /\ delivered' = delivered /\ transport' = transport
    BY <2>1, SamplesAdd DEF Arrived, Waiting, Ready, Partial, Back, builder, channel
  <2>3. Split(1 .. made, Arrived, Waiting, {}, Partial, Back, lost \cup Ready)
    BY <1>b, Moves
  <2>4. Conserved'
    BY <2>1, <2>2, <2>3 DEF Conserved
  <2>5. /\ Below(Arrived \cup Waiting, {})
        /\ Below(Arrived \cup Waiting \cup {}, Partial \cup Back)
    BY <1>c DEF Below
  <2> QED BY <1>c, <2>2, <2>4, <2>5 DEF Ordered
<1>8. CASE Receive
  <2>1. /\ transport # <<>> /\ transport' = Tail(transport)
        /\ delivered' = Append(delivered, Head(transport))
        /\ UNCHANGED <<builder, made, refused, complete, lost>>
    BY <1>8 DEF Receive
  <2>2. PICK b, t : b = Head(transport) /\ t = Tail(transport)
    OBVIOUS
  <2>3. b \in Faithful /\ t \in Seq(Faithful) /\ Range(transport) = Range(t) \cup {b}
    BY <1>a, <2>1, <2>2, RangeTail
  <2>4. InOrder(t) /\ Below(SamplesOf({b}), SamplesOf(Range(t)))
    BY <1>a, <1>c, <2>1, <2>2, InOrderTail
  <2>5. PICK H, T : H = SamplesOf({b}) /\ T = SamplesOf(Range(t))
    OBVIOUS
  <2>6. Waiting = H \cup T /\ Below(H, T)
    <3>1. SamplesOf(Range(t) \cup {b}) = SamplesOf(Range(t)) \cup SamplesOf({b})
      BY SamplesAdd
    <3> QED BY <2>3, <2>4, <2>5, <3>1 DEF Waiting
  <2>7. /\ Arrived' = Arrived \cup H /\ Waiting' = T
    <3>1. Range(Append(delivered, b)) = Range(delivered) \cup {b}
      BY <1>a, <2>3, RangeAppend
    <3>2. SamplesOf(Range(delivered) \cup {b}) = SamplesOf(Range(delivered)) \cup SamplesOf({b})
      BY SamplesAdd
    <3> QED BY <2>1, <2>2, <2>5, <3>1, <3>2 DEF Arrived, Waiting
  <2>8. /\ Ready' = Ready /\ Back' = Back /\ Partial' = Partial /\ lost' = lost /\ made' = made
    BY <2>1 DEF Ready, Back, Partial, builder
  <2>9. H \cap T = {}
    <3> SUFFICES ASSUME NEW x \in H, x \in T PROVE FALSE
      OBVIOUS
    <3>1. x < x
      BY <2>6 DEF Below
    <3>2. x \in 1 .. made
      BY <1>b, <2>6 DEF Split
    <3> QED BY <3>1, <3>2
  <2>10. Split(1 .. made, Arrived \cup H, T, Ready, Partial, Back, lost)
    BY <1>b, <2>6, <2>9, Moves
  <2>11. Conserved'
    BY <2>7, <2>8, <2>10 DEF Conserved
  <2>12. InOrder(delivered') /\ InOrder(transport')
    <3>1. Below(Arrived, H)
      BY <1>c, <2>6, BelowUnion
    <3>2. InOrder(Append(delivered, b))
      BY <1>a, <1>c, <2>3, <2>5, <3>1, InOrderAppend DEF Arrived
    <3> QED BY <2>1, <2>2, <2>4, <3>2
  <2>13. /\ Below(Arrived \cup H, T)
         /\ Below((Arrived \cup H) \cup T, Ready)
         /\ Below((Arrived \cup H) \cup T \cup Ready, Partial \cup Back)
    BY <1>c, <2>6 DEF Below
  <2> QED BY <2>7, <2>8, <2>11, <2>12, <2>13 DEF Ordered
<1>9. CASE UNCHANGED blockVars
  <2>1. /\ Arrived' = Arrived /\ Waiting' = Waiting /\ Ready' = Ready /\ Back' = Back
        /\ Partial' = Partial /\ lost' = lost /\ made' = made
        /\ delivered' = delivered /\ transport' = transport
    BY <1>9 DEF blockVars, builder, channel, Arrived, Waiting, Ready, Back, Partial
  <2> QED BY <1>b, <1>c, <2>1 DEF Conserved, Ordered
<1> QED BY <1>1, <1>2, <1>3, <1>4, <1>5, <1>6, <1>7, <1>8, <1>9 DEF BlockNext

\* The invariant holds in every behaviour.
LEMMA AlwaysBlock == BlockSpec => []BlockInv
<1>1. BlockInit => BlockInv
  BY InitShape, InitPlaces DEF BlockInv
<1>2. BlockInv /\ [BlockNext]_blockVars => BlockInv'
  BY NextShape, NextPlaces DEF BlockInv
<1> QED BY <1>1, <1>2, PTL DEF BlockSpec

-----------------------------------------------------------------------------
(* What the builder and its caller promise.                                *)

\* Every block that was released is faithful, wherever it is.
LEMMA AllFaithful == BlockInv => Blocks \subseteq Faithful
<1> SUFFICES ASSUME BlockInv PROVE Blocks \subseteq Faithful
  OBVIOUS
<1>1. transport \in Seq(Faithful) /\ delivered \in Seq(Faithful) /\ complete \subseteq Faithful
  BY DEF BlockInv, Shape, Shipped
<1>2. \A s \in Seq(Faithful) : Range(s) \subseteq Faithful
  BY DEF Range
<1> QED BY <1>1, <1>2 DEF Blocks

\* The fields of the builder stay in their ranges, the caller never holds two
\* refused samples or two blocks, and the transport never holds more than fit.
THEOREM BlockTyped == BlockSpec => []BlockTypeOK
<1>1. ASSUME BlockInv PROVE BlockTypeOK
  <2>a. Fields /\ Hands /\ Conserved
    BY <1>1 DEF BlockInv, Shape
  <2>1. Cardinality(refused) <= 1
    <3>1. CASE refused = {}
      BY <3>1, FS_EmptySet
    <3>2. ASSUME NEW e \in refused PROVE Cardinality(refused) <= 1
      <4>1. refused = {e}
        BY <2>a DEF Hands
      <4> QED BY <4>1, FS_Singleton
    <3> QED BY <3>1, <3>2
  <2>2. Cardinality(complete) <= 1
    <3>1. CASE complete = {}
      BY <3>1, FS_EmptySet
    <3>2. ASSUME NEW b \in complete PROVE Cardinality(complete) <= 1
      <4>1. complete = {b}
        BY <2>a DEF Hands
      <4> QED BY <4>1, FS_Singleton
    <3> QED BY <3>1, <3>2
  <2>3. lost \subseteq 1 .. made
    BY <2>a DEF Conserved, Split
  <2> QED BY <2>a, <2>1, <2>2, <2>3 DEF BlockTypeOK, Fields, Hands
<1> QED BY <1>1, AlwaysBlock, PTL

\* A block the builder released, wherever it is, carries the sequences of its
\* first and last sample and has no gap that a u32 sequence can show.
THEOREM Contiguous == BlockSpec => []BlocksContiguous
<1>1. BlockInv => BlocksContiguous
  BY AllFaithful DEF BlocksContiguous, Faithful, Follows
<1> QED BY <1>1, AlwaysBlock, PTL

\* The builder refuses no sample that follows the last one it took, and
\* expected_sequence is the sequence of that sample.
THEOREM GapReal == BlockSpec => []NoFalseGap
<1>1. ASSUME BlockInv PROVE NoFalseGap
  <2>1. \A e \in refused : e.error = "Discontinuous" /\ len # 0 => e.sample # prior + 1
    BY <1>1 DEF BlockInv, Shape, Returned
  <2>2. len # 0 => expected_sequence = {SequenceOf(prior + 1)}
    BY <1>1, Due DEF BlockInv, Shape, expected_sequence
  <2> QED BY <2>1, <2>2 DEF NoFalseGap
<1> QED BY <1>1, AlwaysBlock, PTL

\* The places split what upstream made.
LEMMA PlacesSplit ==
    ASSUME Conserved
    PROVE  /\ UNION Range(Places) = 1 .. made
           /\ \A p, q \in DOMAIN Places : p # q => Places[p] \cap Places[q] = {}
<1>1. Places = <<Arrived, Waiting, Ready, Partial, Back, lost>>
  BY DEF Places, Arrived, Waiting, Ready, Back
<1>2. /\ DOMAIN Places = {1, 2, 3, 4, 5, 6}
      /\ Places[1] = Arrived /\ Places[2] = Waiting /\ Places[3] = Ready
      /\ Places[4] = Partial /\ Places[5] = Back /\ Places[6] = lost
  BY <1>1
<1>3. Range(Places) = {Arrived, Waiting, Ready, Partial, Back, lost}
  BY <1>2 DEF Range
<1>4. UNION Range(Places) = 1 .. made
  BY <1>3 DEF Conserved, Split
<1>5. \A p, q \in DOMAIN Places : p # q => Places[p] \cap Places[q] = {}
  BY <1>2 DEF Conserved, Split
<1> QED BY <1>4, <1>5

\* A block of a line has its samples among those of the line.
LEMMA InLine ==
    ASSUME NEW s \in Seq(Faithful), NEW i \in 1 .. Len(s)
    PROVE  SamplesOf({s[i]}) \subseteq SamplesOf(Range(s))
<1>1. s[i] \in Range(s)
  BY DEF Range
<1> QED BY <1>1 DEF SamplesOf

\* Each sample is in exactly one place, and the blocks stand in the order of
\* their samples, delivered ones first and the one with the caller last.
THEOREM Conservation == BlockSpec => []SamplesConserved
<1>1. ASSUME BlockInv PROVE SamplesConserved
  <2>a. /\ transport \in Seq(Faithful) /\ delivered \in Seq(Faithful)
        /\ Conserved /\ Ordered
    BY <1>1 DEF BlockInv, Shape, Shipped
  <2>1. /\ UNION Range(Places) = 1 .. made
        /\ \A p, q \in DOMAIN Places : p # q => Places[p] \cap Places[q] = {}
    BY <2>a, PlacesSplit
  <2>2. \A b \in Blocks : Rising(b.samples, N)
    BY <1>1, AllFaithful DEF Faithful
  <2>3. Rising(samples, len)
    BY <1>1 DEF BlockInv, Shape, Held, Rising
  <2> DEFINE line == delivered \o transport
  <2>4. /\ DOMAIN line = 1 .. Len(delivered) + Len(transport)
        /\ Len(delivered) \in Nat /\ Len(transport) \in Nat
        /\ \A i \in 1 .. Len(delivered) : line[i] = delivered[i]
        /\ \A i \in Len(delivered) + 1 .. Len(delivered) + Len(transport) :
              i - Len(delivered) \in 1 .. Len(transport)
              /\ line[i] = transport[i - Len(delivered)]
    BY <2>a
  <2> HIDE DEF line
  <2>5. ASSUME NEW i \in DOMAIN line
        PROVE  \/ i \in 1 .. Len(delivered)
               \/ i \in Len(delivered) + 1 .. Len(delivered) + Len(transport)
    BY <2>4
  <2>6. ASSUME NEW i \in DOMAIN line, NEW j \in DOMAIN line, i < j
        PROVE  Before(line[i], line[j])
    <3>1. CASE j \in 1 .. Len(delivered)
      <4>1. i \in 1 .. Len(delivered)
        BY <2>4, <2>6, <3>1
      <4>2. Before(delivered[i], delivered[j])
        BY <2>a, <2>6, <3>1, <4>1 DEF Ordered, InOrder
      <4> QED BY <2>4, <3>1, <4>1, <4>2
    <3>2. CASE /\ i \in 1 .. Len(delivered)
               /\ j \in Len(delivered) + 1 .. Len(delivered) + Len(transport)
      <4>1. PICK k \in 1 .. Len(transport) : line[j] = transport[k]
        BY <2>4, <3>2
      <4>2. /\ SamplesOf({delivered[i]}) \subseteq Arrived
            /\ SamplesOf({transport[k]}) \subseteq Waiting
        BY <2>a, <3>2, InLine DEF Arrived, Waiting
      <4>3. Below(SamplesOf({delivered[i]}), SamplesOf({transport[k]}))
        BY <2>a, <4>2 DEF Ordered, Below
      <4>4. Before(delivered[i], transport[k])
        BY <4>3, BeforeBelow
      <4> QED BY <2>4, <3>2, <4>1, <4>4
    <3>3. CASE i \in Len(delivered) + 1 .. Len(delivered) + Len(transport)
      <4>1. j \in Len(delivered) + 1 .. Len(delivered) + Len(transport)
        BY <2>4, <2>6, <3>3
      <4>2. /\ i - Len(delivered) \in 1 .. Len(transport)
            /\ j - Len(delivered) \in 1 .. Len(transport)
            /\ i - Len(delivered) < j - Len(delivered)
        BY <2>4, <2>6, <3>3, <4>1
      <4>3. Before(transport[i - Len(delivered)], transport[j - Len(delivered)])
        BY <2>a, <4>2 DEF Ordered, InOrder
      <4> QED BY <2>4, <3>3, <4>1, <4>3
    <3> QED BY <2>5, <3>1, <3>2, <3>3
  <2>7. ASSUME NEW i \in DOMAIN line, NEW b \in complete PROVE Before(line[i], b)
    <3>1. SamplesOf({b}) \subseteq Ready
      BY DEF SamplesOf, Ready
    <3>2. SamplesOf({line[i]}) \subseteq Arrived \cup Waiting
      <4>1. CASE i \in 1 .. Len(delivered)
        <5>1. SamplesOf({delivered[i]}) \subseteq Arrived
          BY <2>a, <4>1, InLine DEF Arrived
        <5> QED BY <2>4, <4>1, <5>1
      <4>2. CASE i \in Len(delivered) + 1 .. Len(delivered) + Len(transport)
        <5>1. PICK k \in 1 .. Len(transport) : line[i] = transport[k]
          BY <2>4, <4>2
        <5>2. SamplesOf({transport[k]}) \subseteq Waiting
          BY <2>a, InLine DEF Waiting
        <5> QED BY <5>1, <5>2
      <4> QED BY <2>5, <4>1, <4>2
    <3>3. Below(SamplesOf({line[i]}), SamplesOf({b}))
      BY <2>a, <3>1, <3>2 DEF Ordered, Below
    <3> QED BY <3>3, BeforeBelow
  <2> QED BY <2>1, <2>2, <2>3, <2>6, <2>7 DEF SamplesConserved, line
<1> QED BY <1>1, AlwaysBlock, PTL

-----------------------------------------------------------------------------
(* forward: the run of items that are between the ends.                    *)

Tag == 0 .. Tags - 1

\* At most one item is outside source and sink: in forward's hands, or handed
\* back by the last call and not yet dealt with.
OneInHand ==
    /\ stage = "push" => \E x \in Tag : val = <<x>>
    /\ stage # "push" => val = <<>>
    /\ err = <<>> \/ (stage = "idle" /\ \E x \in Tag : err = <<x>>)

\* The local count is the number of items entered, and leaves room for the one
\* in hand.
CountKept ==
    /\ max <= MaxCall /\ count <= max
    /\ stage # "idle" => entered = count
    /\ stage = "push" => count < max
    /\ TransferExact

\* Each item is the successor of the one before it.
Linked(run) == \A i \in 1 .. Len(run) - 1 : run[i + 1] = Succ(run[i])

\* The items after the last one out of the sink, up to the next one in.
RunOf(a, s, e, v, n) == <<a>> \o s \o e \o v \o <<n>>

Run == RunOf(last, snk, err, val, next)

ForwardInv == ForwardTypeOK /\ OneInHand /\ CountKept /\ Linked(Run)

\* Neither source nor sink has items, and no call was made.
LEMMA ForwardInitInv == ForwardInit => ForwardInv
<1> SUFFICES ASSUME ForwardInit PROVE ForwardInv
  OBVIOUS
<1>1. Tags \in Nat /\ Tags > 2 /\ SrcCap \in Nat /\ SnkCap \in Nat /\ MaxCall \in Nat
  BY ForwardCapacityAssumption, ForwardCallAssumption
<1>2. ForwardTypeOK /\ OneInHand /\ CountKept
  BY <1>1 DEF ForwardInit, ForwardTypeOK, OneInHand, CountKept, TransferExact
<1>3. Len(Run) = 2 /\ Run[1] = Tags - 1 /\ Run[2] = 0
  <2>1. Run = <<Tags - 1>> \o <<>> \o <<>> \o <<>> \o <<0>>
    BY DEF ForwardInit, Run, RunOf
  <2>2. PICK a \in Int : a = Tags - 1
    BY <1>1
  <2>3. <<a>> \in Seq(Int) /\ <<0>> \in Seq(Int)
    OBVIOUS
  <2>4. <<a>> \o <<>> = <<a>>
    BY <2>3, ConcatEmptySeq
  <2>5. Run = <<a>> \o <<0>>
    BY <2>1, <2>2, <2>4
  <2> QED BY <2>2, <2>3, <2>5
<1>4. Succ(Tags - 1) = 0
  BY <1>1 DEF Succ
<1> QED BY <1>1, <1>2, <1>3, <1>4 DEF ForwardInv, Linked

\* A run stays linked when its oldest item leaves.
LEMMA LinkedTail ==
    ASSUME NEW a \in Tag, NEW s \in Seq(Tag), Linked(<<a>> \o s)
    PROVE  Linked(s)
<1>1. Len(<<a>> \o s) = Len(s) + 1 /\ Len(s) \in Nat
      /\ \A i \in 1 .. Len(s) : (<<a>> \o s)[i + 1] = s[i]
  OBVIOUS
<1>2. SUFFICES ASSUME NEW i \in 1 .. Len(s) - 1 PROVE s[i + 1] = Succ(s[i])
  BY DEF Linked
<1>3. i + 1 \in 1 .. Len(<<a>> \o s) - 1 /\ i \in 1 .. Len(s) /\ i + 1 \in 1 .. Len(s)
  BY <1>1
<1>4. (<<a>> \o s)[(i + 1) + 1] = Succ((<<a>> \o s)[i + 1])
  BY <1>3 DEF Linked
<1> QED BY <1>1, <1>3, <1>4

\* And when the next one is added.
LEMMA LinkedNext ==
    ASSUME NEW s \in Seq(Tag), NEW n \in Tag, NEW m \in Tag, m = Succ(n), Linked(s \o <<n>>)
    PROVE  Linked(s \o <<n>> \o <<m>>)
<1> DEFINE r == s \o <<n>>
           q == r \o <<m>>
<1>1. /\ r \in Seq(Tag) /\ Len(r) = Len(s) + 1 /\ r[Len(s) + 1] = n /\ Len(s) \in Nat
      /\ Len(q) = Len(r) + 1 /\ q[Len(r) + 1] = m
      /\ \A i \in 1 .. Len(r) : q[i] = r[i]
  OBVIOUS
<1> SUFFICES ASSUME NEW i \in 1 .. Len(q) - 1 PROVE q[i + 1] = Succ(q[i])
  BY DEF Linked
<1>2. CASE i < Len(r)
  BY <1>1, <1>2 DEF Linked
<1>3. CASE i = Len(r)
  BY <1>1, <1>3
<1> HIDE DEF r, q
<1> QED BY <1>1, <1>2, <1>3

\* The places an item can be in, as sequences.
LEMMA Items ==
    ASSUME ForwardTypeOK, OneInHand
    PROVE  /\ Tags \in Nat /\ Tags > 2
           /\ snk \in Seq(Tag) /\ err \in Seq(Tag) /\ val \in Seq(Tag)
           /\ last \in Tag /\ next \in Tag
<1>1. Tags \in Nat /\ Tags > 2
  BY ForwardCapacityAssumption
<1>2. snk \in Seq(Tag) /\ last \in Tag /\ next \in Tag
  BY DEF ForwardTypeOK, Tag
<1>3. <<>> \in Seq(Tag) /\ \A x \in Tag : <<x>> \in Seq(Tag)
  OBVIOUS
<1>4. val \in Seq(Tag)
  BY <1>3 DEF OneInHand
<1>5. err \in Seq(Tag)
  BY <1>3 DEF OneInHand
<1> QED BY <1>1, <1>2, <1>4, <1>5

\* Where the items between the ends stand does not matter to the run, and the
\* next one may join them.
LEMMA Moved ==
    ASSUME NEW s \in Seq(Tag), NEW a \in Tag, NEW x \in Tag, NEW n \in Tag
    PROVE  /\ Linked(RunOf(a, s, <<>>, <<x>>, n)) => Linked(RunOf(a, s, <<x>>, <<>>, n))
           /\ Linked(RunOf(a, s, <<>>, <<x>>, n)) => Linked(RunOf(a, s \o <<x>>, <<>>, <<>>, n))
           /\ Linked(RunOf(a, s, <<x>>, <<>>, n)) => Linked(RunOf(a, s \o <<x>>, <<>>, <<>>, n))
           /\ Linked(RunOf(a, s, <<>>, <<>>, x)) /\ n = Succ(x)
              => Linked(RunOf(a, s, <<>>, <<x>>, n))
<1>1. <<>> \in Seq(Tag) /\ <<a>> \in Seq(Tag) /\ <<x>> \in Seq(Tag) /\ <<a>> \o s \in Seq(Tag)
      /\ (<<a>> \o s) \o <<x>> \in Seq(Tag)
  OBVIOUS
<1>2. \A t \in Seq(Tag) : t \o <<>> = t
  BY ConcatEmptySeq
<1>3. (<<a>> \o s) \o <<x>> = <<a>> \o (s \o <<x>>)
  BY <1>1, ConcatAssociative
<1>4. /\ RunOf(a, s, <<x>>, <<>>, n) = RunOf(a, s, <<>>, <<x>>, n)
      /\ RunOf(a, s \o <<x>>, <<>>, <<>>, n) = RunOf(a, s, <<>>, <<x>>, n)
  BY <1>1, <1>2, <1>3 DEF RunOf
<1>5. /\ RunOf(a, s, <<>>, <<>>, x) = (<<a>> \o s) \o <<x>>
      /\ RunOf(a, s, <<>>, <<x>>, n) = (<<a>> \o s) \o <<x>> \o <<n>>
  BY <1>1, <1>2 DEF RunOf
<1>6. Linked(RunOf(a, s, <<>>, <<>>, x)) /\ n = Succ(x) => Linked(RunOf(a, s, <<>>, <<x>>, n))
  BY <1>1, <1>5, LinkedNext
<1> QED BY <1>4, <1>6

\* The oldest item of the sink leaves.
LEMMA Popped ==
    ASSUME NEW s \in Seq(Tag), NEW e \in Seq(Tag), NEW v \in Seq(Tag),
           NEW a \in Tag, NEW n \in Tag, s # <<>>
    PROVE  /\ Head(s) \in Tag /\ Tail(s) \in Seq(Tag) /\ Len(Tail(s)) = Len(s) - 1
           /\ Len(s) \in Nat \ {0}
           /\ Linked(RunOf(a, s, e, v, n)) => Linked(RunOf(Head(s), Tail(s), e, v, n))
<1>1. Head(s) \in Tag /\ Tail(s) \in Seq(Tag) /\ Len(Tail(s)) = Len(s) - 1 /\ Len(s) \in Nat \ {0}
      /\ s = <<Head(s)>> \o Tail(s)
  BY HeadTailProperties, EmptySeq
<1>2. <<a>> \in Seq(Tag) /\ <<n>> \in Seq(Tag) /\ s \o e \in Seq(Tag) /\ s \o e \o v \in Seq(Tag)
      /\ s \o e \o v \o <<n>> \in Seq(Tag)
  OBVIOUS
<1>3. <<a>> \o s \o e \o v \o <<n>> = <<a>> \o (s \o e \o v \o <<n>>)
  <2>1. <<a>> \o s \o e = <<a>> \o (s \o e)
    BY <1>2, ConcatAssociative
  <2>2. (<<a>> \o (s \o e)) \o v = <<a>> \o (s \o e \o v)
    BY <1>2, ConcatAssociative
  <2>3. (<<a>> \o (s \o e \o v)) \o <<n>> = <<a>> \o (s \o e \o v \o <<n>>)
    BY <1>2, ConcatAssociative
  <2> QED BY <2>1, <2>2, <2>3
<1>4. RunOf(Head(s), Tail(s), e, v, n) = s \o e \o v \o <<n>>
  BY <1>1 DEF RunOf
<1>5. RunOf(a, s, e, v, n) = <<a>> \o RunOf(Head(s), Tail(s), e, v, n)
  BY <1>3, <1>4 DEF RunOf
<1>6. RunOf(Head(s), Tail(s), e, v, n) \in Seq(Tag)
  BY <1>2, <1>4
<1> HIDE DEF RunOf
<1>7. Linked(RunOf(a, s, e, v, n)) => Linked(RunOf(Head(s), Tail(s), e, v, n))
  BY <1>5, <1>6, LinkedTail
<1> QED BY <1>1, <1>7

\* No step forges, drops, repeats or swaps an item, and the count keeps up.
LEMMA ForwardNextInv == ForwardInv /\ [ForwardNext]_forwardVars => ForwardInv'
<1> SUFFICES ASSUME ForwardInv, [ForwardNext]_forwardVars PROVE ForwardInv'
  OBVIOUS
<1>a. /\ ForwardTypeOK /\ OneInHand /\ CountKept /\ Linked(Run)
      /\ SrcCap \in Nat \ {0} /\ SnkCap \in Nat \ {0} /\ Tags \in Nat /\ MaxCall \in Nat
      /\ Tags > 2
  BY ForwardCapacityAssumption, ForwardCallAssumption DEF ForwardInv
<1>b. /\ snk \in Seq(Tag) /\ err \in Seq(Tag) /\ val \in Seq(Tag)
      /\ last \in Tag /\ next \in Tag
  BY <1>a, Items
<1>c. Run = RunOf(last, snk, err, val, next)
  BY DEF Run
<1>d. Run' = RunOf(last', snk', err', val', next')
  BY DEF Run
<1>e. Len(snk) \in Nat /\ freed \in Nat /\ Len(snk) + freed <= SnkCap
  BY <1>a DEF ForwardTypeOK
<1>f. \A t \in Tag : Succ(t) \in Tag
  BY <1>a DEF Succ, Tag
<1>g. ASSUME Run' = Run PROVE Linked(Run)'
  BY <1>a, <1>g
<1>1. CASE UNCHANGED overwrites /\ Produce
  <2>1. ForwardTypeOK' /\ OneInHand' /\ CountKept'
    BY <1>a, <1>1 DEF Produce, ForwardTypeOK, OneInHand, CountKept, TransferExact, call, ret
  <2>2. Run' = Run
    BY <1>1 DEF Produce, Run, call, ret
  <2> QED BY <1>g, <2>1, <2>2 DEF ForwardInv
<1>2. CASE UNCHANGED overwrites /\ Consume
  <2>1. /\ snk # <<>> /\ snk' = Tail(snk) /\ last' = Head(snk) /\ freed' = freed + 1
        /\ err' = err /\ val' = val /\ next' = next
    BY <1>2 DEF Consume, call, ret
  <2>2. /\ Head(snk) \in Tag /\ Tail(snk) \in Seq(Tag) /\ Len(Tail(snk)) = Len(snk) - 1
        /\ Linked(RunOf(Head(snk), Tail(snk), err, val, next))
    BY <1>a, <1>b, <1>c, <2>1, Popped
  <2>3. ForwardTypeOK'
    <3>1. Len(snk') + freed' <= SnkCap /\ freed' \in Nat /\ snk' \in Seq(Tag) /\ last' \in Tag
      BY <1>a, <1>e, <2>1, <2>2
    <3> QED BY <1>a, <1>2, <3>1 DEF Consume, ForwardTypeOK, Tag, call, ret
  <2>4. OneInHand' /\ CountKept'
    BY <1>a, <1>2 DEF Consume, OneInHand, CountKept, TransferExact, call, ret
  <2>6. Linked(Run)'
    BY <1>d, <2>1, <2>2
  <2> QED BY <2>3, <2>4, <2>6 DEF ForwardInv
<1>3. CASE UNCHANGED overwrites /\ Call
  <2>1. ForwardTypeOK' /\ OneInHand' /\ CountKept'
    BY <1>a, <1>3 DEF Call, ForwardTypeOK, OneInHand, CountKept, TransferExact, ret
  <2>2. Run' = Run
    BY <1>3 DEF Call, Run, ret
  <2> QED BY <1>g, <2>1, <2>2 DEF ForwardInv
<1>4. CASE UNCHANGED overwrites /\ (Finish \/ TryPopNone)
  <2>1. /\ stage = "loop" /\ stage' = "idle" /\ result' = count /\ err' = <<>> /\ val' = <<>>
        /\ UNCHANGED <<max, count, entered, avail, snk, freed, next, last, overwrites>>
    BY <1>4 DEF Finish, TryPopNone, Return
  <2>2. val = <<>> /\ err = <<>>
    BY <1>a, <2>1 DEF OneInHand
  <2>3. ForwardTypeOK' /\ OneInHand' /\ CountKept'
    BY <1>a, <2>1 DEF ForwardTypeOK, OneInHand, CountKept, TransferExact
  <2>4. Run' = Run
    BY <1>c, <1>d, <2>1, <2>2
  <2> QED BY <1>g, <2>3, <2>4 DEF ForwardInv
<1>5. CASE UNCHANGED overwrites /\ TryPopSome
  <2>1. /\ stage = "loop" /\ count < max /\ avail > 0 /\ avail' = avail - 1
        /\ val' = <<next>> /\ next' = Succ(next) /\ stage' = "push"
        /\ UNCHANGED <<snk, freed, last, max, count, result, err, entered, overwrites>>
    BY <1>5 DEF TryPopSome, Continues, ret
  <2>2. val = <<>> /\ err = <<>>
    BY <1>a, <2>1 DEF OneInHand
  <2>3. Succ(next) \in Tag
    BY <1>b, <1>f
  <2>4. ForwardTypeOK'
    BY <1>a, <1>b, <2>1, <2>3 DEF ForwardTypeOK, Tag
  <2>5. OneInHand' /\ CountKept'
    BY <1>a, <1>b, <2>1, <2>2 DEF OneInHand, CountKept, TransferExact
  <2>6. Linked(Run)'
    <3>1. Linked(RunOf(last, snk, <<>>, <<>>, next))
      BY <1>a, <1>c, <2>2
    <3>2. Linked(RunOf(last, snk, <<>>, <<next>>, Succ(next)))
      BY <1>b, <2>3, <3>1, Moved
    <3> QED BY <1>d, <2>1, <2>2, <3>2
  <2> QED BY <2>4, <2>5, <2>6 DEF ForwardInv
<1>6. CASE UNCHANGED overwrites /\ TryPushOk
  <2>1. PICK k \in 0 .. freed : Len(snk) + k < SnkCap /\ freed' = k
    BY <1>6 DEF TryPushOk
  <2>2. /\ stage = "push" /\ snk' = snk \o val /\ last' = last
        /\ count' = count + 1
        /\ entered' = IF entered > MaxCall THEN entered ELSE entered + 1
        /\ val' = <<>> /\ stage' = "loop"
        /\ UNCHANGED <<avail, next, max, result, err, overwrites>>
    BY <1>6 DEF TryPushOk, Pushed, Counted, ret
  <2>3. PICK x \in Tag : val = <<x>>
    BY <1>a, <2>2 DEF OneInHand
  <2>4. err = <<>>
    BY <1>a, <2>2 DEF OneInHand
  <2>5. snk' \in Seq(Tag) /\ Len(snk') = Len(snk) + 1
    BY <1>b, <2>2, <2>3
  <2>6. ForwardTypeOK'
    <3>1. k \in Nat /\ Len(snk') + freed' <= SnkCap /\ freed' \in Nat
      BY <1>a, <1>e, <2>1, <2>5
    <3>2. {max, count, result, entered}' \subseteq Nat
      <4>1. max \in Nat /\ count \in Nat /\ result \in Nat /\ entered \in Nat
        BY <1>a DEF ForwardTypeOK
      <4>2. max' = max /\ count' \in Nat /\ result' = result /\ entered' \in Nat
        BY <2>2, <4>1
      <4> QED BY <4>1, <4>2
    <3> QED BY <1>a, <2>2, <2>5, <3>1, <3>2 DEF ForwardTypeOK, Tag
  <2>7. OneInHand' /\ CountKept'
    BY <1>a, <2>2, <2>4 DEF ForwardTypeOK, OneInHand, CountKept, TransferExact
  <2>8. Linked(Run)'
    <3>1. Linked(RunOf(last, snk \o <<x>>, <<>>, <<>>, next))
      BY <1>a, <1>b, <1>c, <2>2, <2>3, <2>4, Moved
    <3> QED BY <1>d, <2>2, <2>3, <2>4, <3>1
  <2> QED BY <2>6, <2>7, <2>8 DEF ForwardInv
<1>7. CASE UNCHANGED overwrites /\ TryPushOverwrites
  <2>1. /\ stage = "push" /\ snk' = Tail(snk) \o val /\ last' = Head(snk) /\ freed' = freed
        /\ Len(snk) = SnkCap
        /\ count' = count + 1
        /\ entered' = IF entered > MaxCall THEN entered ELSE entered + 1
        /\ val' = <<>> /\ stage' = "loop"
        /\ UNCHANGED <<avail, next, max, result, err, overwrites>>
    BY <1>7 DEF TryPushOverwrites, Pushed, Counted, ret
  <2>2. PICK x \in Tag : val = <<x>>
    BY <1>a, <2>1 DEF OneInHand
  <2>3. err = <<>>
    BY <1>a, <2>1 DEF OneInHand
  <2>4. snk # <<>>
    BY <1>a, <1>b, <2>1, EmptySeq
  <2>5. /\ Head(snk) \in Tag /\ Tail(snk) \in Seq(Tag) /\ Len(Tail(snk)) = Len(snk) - 1
        /\ Linked(RunOf(Head(snk), Tail(snk), err, val, next))
    BY <1>a, <1>b, <1>c, <2>4, Popped
  <2>6. snk' \in Seq(Tag) /\ Len(snk') = Len(snk)
    BY <1>e, <2>1, <2>2, <2>5
  <2>7. ForwardTypeOK'
    <3>1. Len(snk') + freed' <= SnkCap /\ freed' \in Nat
      BY <1>a, <1>e, <2>1, <2>6
    <3>2. {max, count, result, entered}' \subseteq Nat
      <4>1. max \in Nat /\ count \in Nat /\ result \in Nat /\ entered \in Nat
        BY <1>a DEF ForwardTypeOK
      <4>2. max' = max /\ count' \in Nat /\ result' = result /\ entered' \in Nat
        BY <2>1, <4>1
      <4> QED BY <4>1, <4>2
    <3> QED BY <1>a, <2>1, <2>5, <2>6, <3>1, <3>2 DEF ForwardTypeOK, Tag
  <2>8. OneInHand' /\ CountKept'
    BY <1>a, <2>1, <2>3 DEF ForwardTypeOK, OneInHand, CountKept, TransferExact
  <2>9. Linked(Run)'
    <3>1. Linked(RunOf(Head(snk), Tail(snk) \o <<x>>, <<>>, <<>>, next))
      BY <1>b, <2>2, <2>3, <2>5, Moved
    <3> QED BY <1>d, <2>1, <2>2, <2>3, <2>5, <3>1
  <2> QED BY <2>7, <2>8, <2>9 DEF ForwardInv
<1>8. CASE UNCHANGED overwrites /\ TryPushErr
  <2>1. /\ stage = "push" /\ stage' = "idle" /\ result' = count /\ err' = val /\ val' = <<>>
        /\ Len(snk) + freed >= SnkCap /\ freed' = SnkCap - Len(snk)
        /\ UNCHANGED <<max, count, entered, avail, snk, next, last, overwrites>>
    BY <1>8 DEF TryPushErr, Return, Rejected
  <2>2. PICK x \in Tag : val = <<x>>
    BY <1>a, <2>1 DEF OneInHand
  <2>3. err = <<>>
    BY <1>a, <2>1 DEF OneInHand
  <2>4. ForwardTypeOK'
    BY <1>a, <1>e, <2>1 DEF ForwardTypeOK
  <2>5. OneInHand' /\ CountKept'
    BY <1>a, <2>1, <2>2 DEF OneInHand, CountKept, TransferExact
  <2>6. Linked(Run)'
    <3>1. Linked(RunOf(last, snk, <<x>>, <<>>, next))
      BY <1>a, <1>b, <1>c, <2>1, <2>2, <2>3, Moved
    <3> QED BY <1>d, <2>1, <2>2, <2>3, <3>1
  <2> QED BY <2>4, <2>5, <2>6 DEF ForwardInv
<1>9. CASE UNCHANGED overwrites /\ Retry
  <2>1. PICK k \in 0 .. freed : Len(snk) + k < SnkCap /\ freed' = k
    BY <1>9 DEF Retry
  <2>2. /\ stage = "idle" /\ err # <<>> /\ snk' = snk \o err /\ err' = <<>>
        /\ UNCHANGED <<avail, next, last, stage, max, count, val, result, entered, overwrites>>
    BY <1>9 DEF Retry, call
  <2>3. PICK x \in Tag : err = <<x>>
    BY <1>a, <2>2 DEF OneInHand
  <2>4. val = <<>>
    BY <1>a, <2>2 DEF OneInHand
  <2>5. snk' \in Seq(Tag) /\ Len(snk') = Len(snk) + 1
    BY <1>b, <2>2, <2>3
  <2>6. ForwardTypeOK'
    <3>1. k \in Nat /\ Len(snk') + freed' <= SnkCap /\ freed' \in Nat
      BY <1>a, <1>e, <2>1, <2>5
    <3>2. {max, count, result, entered}' \subseteq Nat
      <4>1. max \in Nat /\ count \in Nat /\ result \in Nat /\ entered \in Nat
        BY <1>a DEF ForwardTypeOK
      <4>2. max' = max /\ count' \in Nat /\ result' = result /\ entered' \in Nat
        BY <2>2, <4>1
      <4> QED BY <4>1, <4>2
    <3> QED BY <1>a, <2>2, <2>5, <3>1, <3>2 DEF ForwardTypeOK, Tag
  <2>7. OneInHand' /\ CountKept'
    BY <1>a, <2>2, <2>4 DEF OneInHand, CountKept, TransferExact
  <2>8. Linked(Run)'
    <3>1. Linked(RunOf(last, snk \o <<x>>, <<>>, <<>>, next))
      BY <1>a, <1>b, <1>c, <2>2, <2>3, <2>4, Moved
    <3> QED BY <1>d, <2>2, <2>3, <2>4, <3>1
  <2> QED BY <2>6, <2>7, <2>8 DEF ForwardInv
<1>10. CASE UNCHANGED forwardVars
  <2>1. ForwardTypeOK' /\ OneInHand' /\ CountKept'
    BY <1>a, <1>10 DEF forwardVars, call, ret, ForwardTypeOK, OneInHand, CountKept, TransferExact
  <2>2. Run' = Run
    BY <1>10 DEF forwardVars, call, ret, Run
  <2> QED BY <1>g, <2>1, <2>2 DEF ForwardInv
<1> QED BY <1>1, <1>2, <1>3, <1>4, <1>5, <1>6, <1>7, <1>8, <1>9, <1>10 DEF ForwardNext, Step

\* The invariant of forward holds in every behaviour.
LEMMA AlwaysForward == ForwardSpec => []ForwardInv
BY ForwardInitInv, ForwardNextInv, PTL DEF ForwardSpec

\* Between the ends the items stand in the order they were popped, with none
\* missing and none repeated, also when a push was refused or overwrote.
THEOREM Lossless == ForwardSpec => [](ForwardTypeOK /\ ForwardLossless)
<1>1. ForwardInv => ForwardTypeOK /\ ForwardLossless
  BY DEF ForwardInv, Linked, Run, RunOf, ForwardLossless
<1> QED BY <1>1, AlwaysForward, PTL

\* forward returns the number of items that entered the sink, at most max.
THEOREM CountExact == ForwardSpec => []TransferExact
<1>1. ForwardInv => TransferExact
  BY DEF ForwardInv, CountKept
<1> QED BY <1>1, AlwaysForward, PTL
=============================================================================
