---------------------------- MODULE RingBufProof ----------------------------
(***************************************************************************)
(* RingBuf never reads an uninitialised slot and is a sliding window, for  *)
(* every capacity up to usize::MAX.                                        *)
(***************************************************************************)
EXTENDS RingBuf, WrapArithmetic, SequenceTheorems

-----------------------------------------------------------------------------
(* Slots, counted back from head.                                          *)

\* The slot written k pushes ago, for a cursor at h.
Behind(h, k) == IF h >= k THEN h - k ELSE N - (k - h)

\* No usize operation of push, index, get or next overflows or underflows.
LEMMA NoOverflow ==
    ASSUME NEW a \in Nat, NEW b \in Nat
    PROVE  /\ a + b <= UsizeMax => add(a, b) = a + b
           /\ b <= a /\ a <= UsizeMax => sub(a, b) = a - b
<1>1. PICK m \in Nat \ {0} : m = UsizeMax + 1
  BY WindowCapacityAssumption
<1>2. \A x \in 0 .. m - 1 : x % m = x
  <2> TAKE x \in 0 .. m - 1
  <2>1. x = m * 0 + x
    OBVIOUS
  <2> QED BY <2>1, ModUnique
<1>3. a + b <= UsizeMax => a + b \in 0 .. m - 1
  BY <1>1, WindowCapacityAssumption
<1>4. b <= a /\ a <= UsizeMax => a - b \in 0 .. m - 1
  BY <1>1, WindowCapacityAssumption
<1> QED BY <1>1, <1>2, <1>3, <1>4 DEF add, sub

\* The slots behind a cursor are in the array, and the one written least
\* recently is the one under the cursor.
LEMMA BehindRange ==
    ASSUME NEW h \in 0 .. N - 1, NEW k \in 1 .. N
    PROVE  Behind(h, k) \in 0 .. N - 1 /\ (k < N => Behind(h, k) # h)
BY WindowCapacityAssumption DEF Behind

\* Where push moves the cursor, also from the last slot of the array: the slots
\* behind it are the one just written and then those behind the old cursor.
LEMMA Advance ==
    ASSUME NEW h \in 0 .. N - 1, NEW g, g = add(h, 1) % N
    PROVE  /\ g \in 0 .. N - 1
           /\ Behind(g, 1) = h
           /\ \A k \in 1 .. N - 1 : Behind(g, k + 1) = Behind(h, k)
<1>1. h \in Nat /\ N \in Nat \ {0} /\ h + 1 <= N /\ N <= UsizeMax /\ UsizeMax \in Nat
  BY WindowCapacityAssumption
<1>2. add(h, 1) = h + 1
  <2>1. h + 1 <= UsizeMax
    BY <1>1
  <2> QED BY <1>1, <2>1, NoOverflow
<1>3. CASE h + 1 < N
  <2>1. PICK x \in 0 .. N - 1 : x = h + 1
    BY <1>1, <1>3
  <2>2. x = N * 0 + x
    BY <1>1
  <2>3. x % N = x
    BY <1>1, <2>2, ModUnique
  <2>4. g = h + 1
    BY <1>2, <2>1, <2>3
  <2> QED BY <1>1, <1>3, <2>4 DEF Behind
<1>4. CASE h + 1 = N
  <2>1. N = N * 1 + 0 /\ 0 \in 0 .. N - 1
    BY <1>1
  <2>2. N % N = 0
    BY <1>1, <2>1, ModUnique
  <2>3. g = 0
    BY <1>2, <1>4, <2>2
  <2>4. Behind(g, 1) = h
    BY <1>1, <1>4, <2>3 DEF Behind
  <2>5. \A k \in 1 .. N - 1 : Behind(g, k + 1) = Behind(h, k)
    BY <1>1, <1>4, <2>3 DEF Behind
  <2> QED BY <2>1, <2>3, <2>4, <2>5
<1> QED BY <1>1, <1>3, <1>4

\* The index computation finds the i-th live element without leaving usize:
\* what the comment on index argues.
LEMMA IndexBehind ==
    ASSUME TypeOK, NEW i \in 0 .. len - 1
    PROVE  index(i) = Behind(head, len - i) /\ len - i \in 1 .. N
<1>1. /\ head \in Nat /\ len \in Nat /\ i \in Nat /\ i < len /\ len <= N /\ head < N
      /\ N <= UsizeMax /\ N \in Nat /\ UsizeMax \in Nat
  BY WindowCapacityAssumption DEF TypeOK
<1>2. PICK back \in 1 .. N : back = len - i
  BY <1>1
<1>3. sub(len, i) = back
  <2>1. i <= len /\ len <= UsizeMax
    BY <1>1
  <2> QED BY <1>1, <1>2, <2>1, NoOverflow
<1>4. CASE head >= back
  <2>1. back \in Nat /\ back <= head /\ head <= UsizeMax
    BY <1>1, <1>2, <1>4
  <2>2. sub(head, back) = head - back
    BY <1>1, <2>1, NoOverflow
  <2> QED BY <1>2, <1>3, <1>4, <2>2 DEF index, Behind
<1>5. CASE ~(head >= back)
  <2>1. back \in Nat /\ head <= back /\ back <= UsizeMax
    BY <1>1, <1>2, <1>5
  <2>2. sub(back, head) = back - head
    BY <1>1, <2>1, NoOverflow
  <2>3. back - head \in Nat /\ back - head <= N
    BY <1>1, <1>2, <1>5
  <2>4. sub(N, back - head) = N - (back - head)
    BY <1>1, <2>3, NoOverflow
  <2> QED BY <1>2, <1>3, <1>5, <2>2, <2>4 DEF index, Behind
<1> QED BY <1>4, <1>5

-----------------------------------------------------------------------------
(* The inductive invariant.                                                *)

\* The slots behind head, as many as there are elements, have been written.
Written == \A k \in 1 .. len : buf[Behind(head, k)] # Uninit

\* Without an iterator there is no position in it.
NoIterator == ~borrowed => pos = 0

Inv == TypeOK /\ NoIterator /\ Written

\* RingBuf::new has no live slot.
LEMMA InitInv == Init => Inv
<1> SUFFICES ASSUME Init PROVE Inv
  OBVIOUS
<1>1. N \in Nat \ {0}
  BY WindowCapacityAssumption
<1>2. TypeOK
  <2>1. borrowed \in BOOLEAN
    BY Zenon DEF Init
  <2> QED BY <1>1, <2>1 DEF Init, TypeOK
<1>3. NoIterator /\ Written
  BY DEF Init, NoIterator, Written
<1> QED BY <1>2, <1>3 DEF Inv

\* What push does to the slots, full or not.
LEMMA PushSlots ==
    ASSUME Inv, NEW v \in Val, Push(v)
    PROVE  /\ buf' \in [0 .. N - 1 -> Val \cup {Uninit}] /\ head' \in 0 .. N - 1
           /\ len < N => len' = len + 1
           /\ len = N => len' = N
           /\ buf'[Behind(head', 1)] = v
           /\ \A k \in 1 .. N - 1 : buf'[Behind(head', k + 1)] = buf[Behind(head, k)]
<1>1. /\ buf \in [0 .. N - 1 -> Val \cup {Uninit}] /\ head \in 0 .. N - 1 /\ len \in 0 .. N
      /\ N \in Nat \ {0} /\ N <= UsizeMax /\ UsizeMax \in Nat
  BY WindowCapacityAssumption DEF Inv, TypeOK
<1>2. /\ buf' = [buf EXCEPT ![head] = v] /\ head' = add(head, 1) % N
      /\ len' = IF len < N THEN add(len, 1) ELSE len
  BY DEF Push
<1>3. len < N => add(len, 1) = len + 1
  <2>1. len \in Nat /\ (len < N => len + 1 <= UsizeMax)
    BY <1>1
  <2> QED BY <2>1, NoOverflow
<1>4. /\ head' \in 0 .. N - 1 /\ Behind(head', 1) = head
      /\ \A k \in 1 .. N - 1 : Behind(head', k + 1) = Behind(head, k)
  BY <1>1, <1>2, Advance
<1>5. \A k \in 1 .. N - 1 : Behind(head, k) \in 0 .. N - 1 /\ Behind(head, k) # head
  <2> TAKE k \in 1 .. N - 1
  <2>1. k \in 1 .. N /\ k < N
    BY <1>1
  <2> QED BY <1>1, <2>1, BehindRange
<1>6. \A k \in 1 .. N - 1 : buf'[Behind(head', k + 1)] = buf[Behind(head, k)]
  BY <1>1, <1>2, <1>4, <1>5
<1> QED BY <1>1, <1>2, <1>3, <1>4, <1>6

\* The iterator and get stay within the live elements.
LEMMA GetAnswers ==
    ASSUME TypeOK, NEW i \in Nat
    PROVE  /\ i < len => get(i) = {buf[index(i)]} /\ get(i) # {} /\ add(i, 1) = i + 1
           /\ i >= len => get(i) = {}
<1>1. len \in Nat /\ len <= UsizeMax /\ UsizeMax \in Nat
  BY WindowCapacityAssumption DEF TypeOK
<1>2. i < len => add(i, 1) = i + 1
  BY <1>1, NoOverflow
<1> QED BY <1>1, <1>2 DEF get

\* Every step keeps the invariant.
LEMMA NextInv == Inv /\ [Next]_vars => Inv'
<1> SUFFICES ASSUME Inv, [Next]_vars PROVE Inv'
  OBVIOUS
<1>a. TypeOK /\ NoIterator /\ Written
  BY DEF Inv
<1>b. head \in 0 .. N - 1 /\ len \in 0 .. N /\ N \in Nat \ {0} /\ pos \in 0 .. len
  BY <1>a, WindowCapacityAssumption DEF TypeOK
<1>1. ASSUME NEW v \in Val, Push(v) PROVE Inv'
  <2>1. UNCHANGED <<borrowed, pos>> /\ ~borrowed
    BY <1>1 DEF Push
  <2>2. len' \in 0 .. N /\ len' >= len
    BY <1>1, <1>b, PushSlots
  <2>3. TypeOK'
    BY <1>1, <1>a, <1>b, <2>1, <2>2, PushSlots DEF TypeOK
  <2>4. Written'
    <3> SUFFICES ASSUME NEW k \in 1 .. len' PROVE buf'[Behind(head', k)] # Uninit
      BY DEF Written
    <3>1. CASE k = 1
      BY <1>1, <3>1, PushSlots, WindowValueAssumption
    <3>2. CASE k # 1
      <4>1. k - 1 \in 1 .. len /\ k - 1 \in 1 .. N - 1 /\ (k - 1) + 1 = k
        BY <1>1, <1>b, <3>2, PushSlots
      <4>2. buf'[Behind(head', k)] = buf[Behind(head, k - 1)]
        BY <1>1, <4>1, PushSlots
      <4> QED BY <1>a, <4>1, <4>2 DEF Written
    <3> QED BY <3>1, <3>2
  <2> QED BY <1>a, <2>1, <2>3, <2>4 DEF Inv, NoIterator
<1>2. CASE Clear
  <2>1. /\ ~borrowed /\ head' = 0 /\ len' = 0 /\ 0 \in 0 .. N - 1
        /\ UNCHANGED <<buf, borrowed, pos>> /\ pos = 0
    BY <1>2, <1>a, <1>b DEF Clear, NoIterator
  <2>2. TypeOK'
    BY <1>a, <1>b, <2>1 DEF TypeOK
  <2>3. NoIterator' /\ Written'
    BY <2>1 DEF NoIterator, Written
  <2> QED BY <2>2, <2>3 DEF Inv
<1>3. CASE IterNext
  <2>1. borrowed /\ UNCHANGED <<fields, borrowed>>
        /\ pos' = IF get(pos) = {} THEN pos ELSE add(pos, 1)
    BY <1>3 DEF IterNext
  <2>2. pos' \in 0 .. len
    BY <1>a, <1>b, <2>1, GetAnswers
  <2> QED BY <1>a, <2>1, <2>2 DEF Inv, TypeOK, NoIterator, Written, fields
<1>4. ASSUME Iter \/ IterDrop PROVE Inv'
  <2>1. borrowed' \in BOOLEAN
    BY <1>4, Zenon DEF Iter, IterDrop
  <2>2. pos' = 0 /\ UNCHANGED <<buf, head, len>>
    BY <1>4 DEF Iter, IterDrop, fields
  <2>3. TypeOK'
    BY <1>a, <1>b, <2>1, <2>2 DEF TypeOK
  <2> QED BY <1>a, <2>2, <2>3 DEF Inv, NoIterator, Written
<1>5. ASSUME UNCHANGED <<fields, borrowed, pos>> PROVE Inv'
  BY <1>5, <1>a DEF Inv, TypeOK, NoIterator, Written, fields
<1>6. ASSUME UNCHANGED vars \/ (\E i \in 0 .. UsizeMax : Get(i)) \/ Size \/ Latest \/ IterSizeHint
      PROVE  UNCHANGED <<fields, borrowed, pos>>
  BY <1>6 DEF vars, Get, Size, Latest, IterSizeHint
<1> QED BY <1>1, <1>2, <1>3, <1>4, <1>5, <1>6 DEF Next

\* The inductive invariant holds in every behaviour.
LEMMA AlwaysInv == Spec => []Inv
BY InitInv, NextInv, PTL DEF Spec

-----------------------------------------------------------------------------
(* Theorems *)

\* The fields stay in range and every slot that get, latest or an iterator may
\* read is in the array and was written: the obligation of assume_init_read,
\* for every capacity, usize::MAX included.
THEOREM InitialisedReads == Spec => [](TypeOK /\ ReadsInitialised)
<1>1. Inv => TypeOK /\ ReadsInitialised
  <2> SUFFICES ASSUME Inv PROVE TypeOK /\ ReadsInitialised
    OBVIOUS
  <2>1. TypeOK /\ Written
    BY DEF Inv
  <2>2. ASSUME NEW i \in 0 .. len - 1
        PROVE  index(i) \in 0 .. N - 1 /\ buf[index(i)] # Uninit
    <3>1. len - i \in 1 .. len /\ head \in 0 .. N - 1
      BY <2>1 DEF TypeOK
    <3>2. index(i) = Behind(head, len - i) /\ len - i \in 1 .. N
      BY <2>1, IndexBehind
    <3> QED BY <2>1, <3>1, <3>2, BehindRange DEF Written
  <2> QED BY <2>1, <2>2 DEF ReadsInitialised
<1> QED BY AlwaysInv, <1>1, PTL

-----------------------------------------------------------------------------
(* The refinement: the window is what the accessors can reach.             *)

\* The window is a sequence of len values; its k-th is len - k + 1 slots
\* behind head.
Shape ==
    /\ Live \in Seq(Val \cup {Uninit}) /\ Len(Live) = len /\ DOMAIN Live = 1 .. len
    /\ \A k \in 1 .. len : Live[k] = buf[Behind(head, len - k + 1)]
    /\ \A k \in 1 .. len : Live[k] = buf[index(k - 1)]

\* It has that shape in every typed state.
LEMMA LiveSeq == ASSUME TypeOK PROVE Shape
<1>1. len \in Nat /\ len <= N /\ N \in Nat /\ head \in 0 .. N - 1
      /\ buf \in [0 .. N - 1 -> Val \cup {Uninit}]
  BY WindowCapacityAssumption DEF TypeOK
<1>2. ASSUME NEW k \in 1 .. len
      PROVE  /\ index(k - 1) = Behind(head, len - k + 1)
             /\ buf[index(k - 1)] \in Val \cup {Uninit}
  <2>1. k - 1 \in 0 .. len - 1 /\ len - (k - 1) = len - k + 1
    BY <1>1
  <2>2. index(k - 1) = Behind(head, len - k + 1) /\ len - k + 1 \in 1 .. N
    BY <2>1, IndexBehind
  <2>3. Behind(head, len - k + 1) \in 0 .. N - 1
    BY <1>1, <2>2, BehindRange
  <2> QED BY <1>1, <2>2, <2>3
<1>3. Live \in [1 .. len -> Val \cup {Uninit}]
  BY <1>2 DEF Live
<1>4. Live \in Seq(Val \cup {Uninit}) /\ Len(Live) = len /\ DOMAIN Live = 1 .. len
  BY <1>1, <1>3
<1> QED BY <1>2, <1>4 DEF Live, Shape

\* The initial ring is an empty window.
LEMMA EmptyWindow == ASSUME TypeOK, len = 0 PROVE Live = <<>>
<1>1. Live \in Seq(Val \cup {Uninit}) /\ Len(Live) = 0
  BY LiveSeq DEF Shape
<1> QED BY <1>1

\* push drops the oldest value only from a full ring, and adds the new one.
LEMMA PushKeeps ==
    ASSUME Inv, Inv', NEW v \in Val, Push(v)
    PROVE  Live' = IF Len(Live) < N THEN Append(Live, v) ELSE Append(Tail(Live), v)
<1> DEFINE S == Val \cup {Uninit}
<1>1. /\ len \in Nat /\ len <= N /\ N \in Nat \ {0} /\ v \in S
  BY WindowCapacityAssumption DEF Inv, TypeOK
<1>2. /\ Live \in Seq(S) /\ Len(Live) = len
      /\ \A k \in 1 .. len : Live[k] = buf[Behind(head, len - k + 1)]
  BY LiveSeq DEF Inv, Shape
<1>3. /\ Live' \in Seq(S) /\ Len(Live') = len'
      /\ \A k \in 1 .. len' : Live'[k] = buf'[Behind(head', len' - k + 1)]
  <2>1. TypeOK' => Shape'
    BY LiveSeq, PTL
  <2> QED BY <2>1 DEF Inv, Shape, Behind
<1> HIDE DEF S
<1>4. CASE len < N
  <2>1. len' = len + 1
    BY <1>4, PushSlots
  <2>2. /\ Append(Live, v) \in Seq(S) /\ Len(Append(Live, v)) = len + 1
        /\ Append(Live, v)[len + 1] = v
        /\ \A k \in 1 .. len : Append(Live, v)[k] = Live[k]
    BY <1>1, <1>2
  <2>3. ASSUME NEW k \in 1 .. len + 1 PROVE Live'[k] = Append(Live, v)[k]
    <3>1. CASE k = len + 1
      <4>1. len' - k + 1 = 1 /\ k \in 1 .. len'
        BY <1>1, <2>1, <3>1
      <4> QED BY <1>3, <2>2, <3>1, <4>1, PushSlots
    <3>2. CASE k # len + 1
      <4> DEFINE j == len - k + 1
      <4>1. k \in 1 .. len /\ k \in 1 .. len' /\ len' - k + 1 = j + 1 /\ j \in 1 .. N - 1
        BY <1>1, <1>4, <2>1, <3>2
      <4>2. buf'[Behind(head', j + 1)] = buf[Behind(head, j)]
        BY <4>1, PushSlots
      <4> QED BY <1>2, <1>3, <2>2, <4>1, <4>2
    <3> QED BY <3>1, <3>2
  <2>4. Live' = Append(Live, v)
    BY <1>3, <2>1, <2>2, <2>3, SeqEqual
  <2> QED BY <1>2, <1>4, <2>4
<1>5. CASE len = N
  <2>1. len' = N /\ Live # <<>>
    BY <1>1, <1>2, <1>5, PushSlots
  <2>2. Tail(Live) \in Seq(S) /\ Len(Tail(Live)) = N - 1
        /\ \A k \in 1 .. N - 1 : Tail(Live)[k] = Live[k + 1]
    BY <1>1, <1>2, <1>5, <2>1, HeadTailProperties
  <2> DEFINE t == Tail(Live)
  <2> HIDE DEF t
  <2>3. /\ Append(t, v) \in Seq(S) /\ Len(Append(t, v)) = N
        /\ Append(t, v)[N] = v
        /\ \A k \in 1 .. N - 1 : Append(t, v)[k] = Live[k + 1]
    <3>1. t \in Seq(S) /\ Len(t) = N - 1 /\ \A k \in 1 .. N - 1 : t[k] = Live[k + 1]
      BY <2>2 DEF t
    <3> QED BY <1>1, <3>1
  <2>4. ASSUME NEW k \in 1 .. N PROVE Live'[k] = Append(t, v)[k]
    <3>1. CASE k = N
      <4>1. len' - k + 1 = 1 /\ k \in 1 .. len'
        BY <1>1, <2>1, <3>1
      <4> QED BY <1>3, <2>3, <3>1, <4>1, PushSlots
    <3>2. CASE k # N
      <4> DEFINE j == N - k
      <4>1. /\ k \in 1 .. N - 1 /\ k + 1 \in 1 .. len /\ k \in 1 .. len'
            /\ len' - k + 1 = j + 1 /\ j \in 1 .. N - 1 /\ len - (k + 1) + 1 = j
        BY <1>1, <1>5, <2>1, <3>2
      <4>2. buf'[Behind(head', j + 1)] = buf[Behind(head, j)]
        BY <4>1, PushSlots
      <4> QED BY <1>2, <1>3, <2>3, <4>1, <4>2
    <3> QED BY <3>1, <3>2
  <2>5. Live' = Append(t, v)
    BY <1>3, <2>1, <2>3, <2>4, SeqEqual
  <2> QED BY <1>1, <1>2, <1>5, <2>5 DEF t
<1> QED BY <1>1, <1>4, <1>5

\* An accessor answers from the window; past its end it answers None.
LEMMA GetFromWindow ==
    ASSUME TypeOK, NEW i \in Nat
    PROVE  get(i) = Window!At(i + 1)
<1>1. len \in Nat /\ DOMAIN Live = 1 .. len /\ \A k \in 1 .. len : Live[k] = buf[index(k - 1)]
  BY LiveSeq DEF TypeOK, Shape
<1>2. CASE i < len
  <2>1. i + 1 \in 1 .. len /\ (i + 1) - 1 = i
    BY <1>1, <1>2
  <2>2. Live[i + 1] = buf[index(i)]
    BY <1>1, <2>1
  <2> QED BY <1>1, <1>2, <2>1, <2>2, GetAnswers DEF Window!At
<1>3. CASE i >= len
  <2>1. i + 1 \notin 1 .. len
    BY <1>1, <1>3
  <2> QED BY <1>1, <1>3, <2>1, GetAnswers DEF Window!At
<1> QED BY <1>1, <1>2, <1>3

\* RingBuf is the sliding window it promises to be: it holds exactly the last N
\* values pushed since the last clear, oldest first, and get, latest, len and
\* the iterator answer from them, for every capacity up to usize::MAX.
THEOREM Refinement == Spec => ImplementsWindow
<1>1. Init => Window!Init
  <2> SUFFICES ASSUME Init PROVE Window!Init
    OBVIOUS
  <2>1. Live = <<>>
    BY InitInv, EmptyWindow DEF Init, Inv
  <2> QED BY <2>1 DEF Init, Window!Init
<1>2. Inv /\ Inv' /\ [Next]_vars => [Window!Next]_(Window!vars)
  <2> SUFFICES ASSUME Inv, Inv', [Next]_vars PROVE [Window!Next]_(Window!vars)
    OBVIOUS
  <2>a. TypeOK /\ len \in Nat /\ len <= N /\ N \in Nat \ {0} /\ UsizeMax \in Nat /\ N <= UsizeMax
        /\ pos \in Nat /\ pos <= len
    BY WindowCapacityAssumption DEF Inv, TypeOK
  <2>b. Len(Live) = len /\ DOMAIN Live = 1 .. len
    BY <2>a, LiveSeq DEF Shape
  <2>c. UNCHANGED fields => Live' = Live
    BY DEF fields, Live, index
  <2>1. ASSUME NEW v \in Val, Push(v) PROVE Window!Next
    <3>1. Window!Keep(v)
      BY <2>1, PushKeeps DEF Push, Window!Keep
    <3> QED BY <3>1 DEF Window!Next
  <2>2. CASE Clear
    <3>1. Live' = <<>>
      <4>1. (TypeOK /\ len = 0 => Live = <<>>)'
        BY EmptyWindow, PTL
      <4> QED BY <2>2, <4>1 DEF Clear, Inv
    <3> QED BY <2>2, <3>1 DEF Clear, Window!Forget, Window!Next
  <2>3. ASSUME NEW i \in 0 .. UsizeMax, Get(i) PROVE Window!Next
    <3>0. i \in Nat /\ N + 1 \notin 1 .. len /\ N + 1 \in 1 .. N + 1
      BY <2>a
    <3>1. PICK k \in 1 .. N + 1 : get(i) = Window!At(k)
      <4>1. CASE i < len
        <5>1. i + 1 \in 1 .. N + 1
          BY <2>a, <3>0, <4>1
        <5> QED BY <2>a, <3>0, <5>1, GetFromWindow
      <4>2. CASE ~(i < len)
        <5>1. get(i) = {} /\ Window!At(N + 1) = {}
          BY <2>a, <2>b, <3>0, <4>2, GetAnswers DEF Window!At
        <5> QED BY <3>0, <5>1
      <4> QED BY <4>1, <4>2
    <3>2. Window!Get(k)
      BY <2>3, <2>c, <3>1 DEF Get, Window!Get
    <3> QED BY <3>2 DEF Window!Next
  <2>4. CASE Size
    <3>1. Window!Size
      BY <2>4, <2>b, <2>c DEF Size, Window!Size
    <3> QED BY <3>1 DEF Window!Next
  <2>5. CASE Latest
    <3>1. latest = Window!At(Len(Live))
      <4>1. CASE len = 0
        <5>1. 0 \notin 1 .. 0
          OBVIOUS
        <5> QED BY <2>b, <4>1, <5>1 DEF latest, Window!At
      <4>2. CASE len # 0
        <5>1. sub(len, 1) = len - 1
          BY <2>a, <4>2, NoOverflow
        <5>2. len - 1 \in Nat /\ len - 1 < len /\ (len - 1) + 1 = len
          BY <2>a, <4>2
        <5>3. get(len - 1) = {buf[index(len - 1)]}
          BY <2>a, <5>2, GetAnswers
        <5>4. get(len - 1) = Window!At(len)
          BY <2>a, <5>2, GetFromWindow
        <5> QED BY <2>b, <4>2, <5>1, <5>3, <5>4 DEF latest
      <4> QED BY <4>1, <4>2
    <3>2. Window!Newest
      BY <2>5, <2>c, <3>1 DEF Latest, Window!Newest, Window!Get
    <3> QED BY <3>2 DEF Window!Next
  <2>6. ASSUME Iter \/ IterDrop PROVE Window!Next
    <3>1. Window!Restart
      BY <2>6, <2>c DEF Iter, IterDrop, Window!Restart
    <3> QED BY <3>1 DEF Window!Next
  <2>7. CASE IterNext
    <3>1. get(pos) = Window!At(pos + 1)
      BY <2>a, GetFromWindow
    <3>2. pos' = IF pos < Len(Live) THEN pos + 1 ELSE pos
      BY <2>7, <2>a, <2>b, GetAnswers DEF IterNext
    <3>3. Window!Yield
      BY <2>7, <2>c, <3>1, <3>2 DEF IterNext, Window!Yield
    <3> QED BY <3>3 DEF Window!Next
  <2>8. CASE IterSizeHint
    <3>1. size_hint = Len(Live) - pos
      BY <2>a, <2>b DEF size_hint, saturating_sub
    <3>2. Window!Remaining
      BY <2>8, <2>c, <3>1 DEF IterSizeHint, Window!Remaining
    <3> QED BY <3>2 DEF Window!Next
  <2>9. CASE UNCHANGED vars
    BY <2>9, <2>c DEF vars, Window!vars
  <2> QED BY <2>1, <2>2, <2>3, <2>4, <2>5, <2>6, <2>7, <2>8, <2>9 DEF Next
<1> QED BY AlwaysInv, <1>1, <1>2, PTL DEF Spec, ImplementsWindow, Window!Spec
=============================================================================
