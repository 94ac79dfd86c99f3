--------------------------- MODULE LatestBufProof ---------------------------
(***************************************************************************)
(* LatestBuf never races on a slot, accounts for every publication and     *)
(* implements LatestChannel, for every generation width, set of threads    *)
(* and number of publications.                                             *)
(***************************************************************************)
EXTENDS LatestBuf, WrapArithmetic

-----------------------------------------------------------------------------
(* The inductive invariant.                                                *)

Generation(n) == Channel!Generation(n)

\* The n-th publication, as it stands in a slot.
Publication(n) == [generation |-> Generation(n), value |-> n]

Publishing == \E th \in Threads : pc[th] = "publish_swap"

\* One handle of each kind, its flag set, and only its holder is inside a call.
SoleHandles ==
    /\ \A th \in Threads, u \in Threads : th \in prod /\ u \in prod => th = u
    /\ \A th \in Threads, u \in Threads : th \in cons /\ u \in cons => th = u
    /\ prod # {} => producer_taken.taken
    /\ cons # {} => consumer_taken.taken
    /\ \A th \in Threads : /\ pc[th] = "publish_swap" => th \in prod
                           /\ pc[th] \in {"take_swap", "take_read"} => th \in cons

\* Views point into the modification order, a store's view at the store itself.
ViewsValid ==
    /\ \A th \in Threads : view[th].xchg \in 1 .. Len(exchange)
    /\ producer_taken.view.xchg \in 1 .. Len(exchange)
    /\ consumer_taken.view.xchg \in 1 .. Len(exchange)
    /\ \A i \in 1 .. Len(exchange) : exchange[i].view.xchg = i

\* Every slot has one role.
Distinct ==
    /\ Back \in 0 .. 2 /\ Front \in 0 .. 2 /\ slot(Newest) \in 0 .. 2
    /\ Back # Front /\ Back # slot(Newest) /\ Front # slot(Newest)

\* Since a consumer last swapped, only the producer has.
ReadySince(p) == \A j \in p + 1 .. Len(exchange) : ready(exchange[j].word)

Hinted ==
    /\ \A th \in cons : ReadySince(view[th].xchg)
    /\ ~consumer_taken.taken => ReadySince(consumer_taken.view.xchg)
    /\ HintHolds

\* Whoever has view v comes after the access that left stamp s.
Knows(v, s) == s.at <= v.seen[s.by]

\* The accesses to what a role owns are known to the thread in that role, or to
\* the flag it will be acquired by; those to the slot offered, to the exchange.
Covered ==
    /\ \A th \in prod : Knows(view[th], stamps[BackCell]) /\ Knows(view[th], stamps[Back])
    /\ ~producer_taken.taken => /\ Knows(producer_taken.view, stamps[BackCell])
                                /\ Knows(producer_taken.view, stamps[Back])
    /\ \A th \in cons : Knows(view[th], stamps[FrontCell]) /\ Knows(view[th], stamps[Front])
    /\ ~consumer_taken.taken => /\ Knows(consumer_taken.view, stamps[FrontCell])
                                /\ Knows(consumer_taken.view, stamps[Front])
    /\ Knows(exchange[Len(exchange)].view, stamps[slot(Newest)])

\* What the slots hold and the generations the roles remember.
Contents ==
    /\ taken <= published /\ (ready(Newest) <=> taken < published)
    /\ ready(Newest) => slots[slot(Newest)] = Publication(published)
    /\ Publishing => /\ producer_state.next_generation = Generation(published + 1)
                     /\ slots[Back] = Publication(published + 1)
    /\ ~Publishing => producer_state.next_generation = Generation(published)
    /\ TakeInFlight => slots[Front] = Publication(taken) /\ taken > 0
    /\ ~TakeInFlight => consumer_state.last_generation = Generation(taken)

\* A take in flight has claimed its publication and will return it.
InFlight == IF TakeInFlight THEN 1 ELSE 0
InFlightSkips == IF TakeInFlight THEN LatestItem(slots[Front]).skipped ELSE 0

Accounts ==
    /\ InFlightSkips \in Nat
    /\ published = returned + replaced + Pending + InFlight
    /\ returned + InFlight + skips + InFlightSkips <= taken
    /\ inspan => returned + InFlight + skips + InFlightSkips = taken

Inv == TypeOK /\ SoleHandles /\ ViewsValid /\ Distinct /\ Hinted /\ Covered
       /\ Contents /\ Accounts

-----------------------------------------------------------------------------
(* Words, slots and generations.                                           *)

\* Encoding a slot loses neither the slot nor the bit, and the role encodings
\* are undone by their decodings.
LEMMA Words ==
    ASSUME NEW s \in 0 .. 2
    PROVE  /\ encode(s, TRUE) \in 0 .. 6 /\ encode(s, FALSE) \in 0 .. 6
           /\ slot(encode(s, TRUE)) = s /\ ready(encode(s, TRUE))
           /\ slot(encode(s, FALSE)) = s /\ ~ready(encode(s, FALSE))
           /\ encode_producer_slot(s) \in 0 .. 3 /\ producer_slot(encode_producer_slot(s)) = s
           /\ encode_consumer_slot(s) \in 0 .. 3 /\ consumer_slot(encode_consumer_slot(s)) = s
<1>1. s = 0 \/ s = 1 \/ s = 2
  OBVIOUS
<1> QED BY <1>1 DEF encode, slot, ready, SLOT_MASK, READY_BIT, producer_slot, consumer_slot,
                    encode_producer_slot, encode_consumer_slot

\* A number below the modulus is its own remainder.
LEMMA ModSmall == ASSUME NEW m \in Nat \ {0}, NEW x \in 0 .. m - 1 PROVE x % m = x
<1>1. x = m * 0 + x
  OBVIOUS
<1> QED BY <1>1, ModUnique

\* The generation of publication n, as next_generation counts them: 0 before the
\* first, then 1 .. Modulus - 1 again and again.
LEMMA Generations ==
    ASSUME NEW n \in Nat
    PROVE  /\ Generation(n) \in 0 .. Modulus - 1
           /\ n = 0 <=> Generation(n) = 0
           /\ next_generation(Generation(n)) = Generation(n + 1)
<1> DEFINE S == Modulus - 1
<1>1. S \in Nat \ {0} /\ S > 1 /\ Modulus \in Nat \ {0} /\ Modulus = S + 1
  BY LatestModulusAssumption
<1>2. \A k \in Nat \ {0} : Generation(k) = ((k - 1) % S) + 1
  BY DEF Generation, Channel!Generation, Channel!Span
<1>3. Generation(0) = 0
  BY DEF Generation, Channel!Generation
<1> HIDE DEF S
<1>4. \A k \in Nat \ {0} : (k - 1) % S \in 0 .. S - 1
  <2> TAKE k \in Nat \ {0}
  <2>1. k - 1 \in Int
    OBVIOUS
  <2> QED BY <1>1, <2>1, ModRange
<1>5. Generation(n) \in 0 .. Modulus - 1 /\ (n = 0 <=> Generation(n) = 0)
  BY <1>1, <1>2, <1>3, <1>4
<1>6. Generation(n + 1) = (n % S) + 1
  <2>1. n + 1 \in Nat \ {0} /\ (n + 1) - 1 = n
    OBVIOUS
  <2> QED BY <1>2, <2>1
<1>7. CASE n = 0
  <2>1. 0 % S = 0 /\ 1 % Modulus = 1
    <3>1. 0 \in 0 .. S - 1 /\ 1 \in 0 .. Modulus - 1
      BY <1>1
    <3> QED BY <1>1, <3>1, ModSmall
  <2> QED BY <1>3, <1>5, <1>6, <1>7, <2>1 DEF next_generation
<1>8. CASE n # 0
  <2>1. PICK r \in 0 .. S - 1 : r = (n - 1) % S
    BY <1>4, <1>8
  <2>2. Generation(n) = r + 1
    BY <1>2, <1>8, <2>1
  <2>3. n % S = (r + 1) % S
    <3>1. n - 1 \in Int /\ (n - 1) + 1 = n
      OBVIOUS
    <3>2. (((n - 1) % S) + 1) % S = ((n - 1) + 1) % S
      BY <1>1, <3>1, ModSucc
    <3> QED BY <2>1, <3>1, <3>2
  <2>4. CASE r = S - 1
    <3>1. S % S = 0 /\ Modulus % Modulus = 0
      <4>1. S = S * 1 + 0 /\ 0 \in 0 .. S - 1
            /\ Modulus = Modulus * 1 + 0 /\ 0 \in 0 .. Modulus - 1
        BY <1>1
      <4> QED BY <1>1, <4>1, ModUnique
    <3>2. Generation(n) + 1 = Modulus /\ r + 1 = S
      BY <1>1, <2>2, <2>4
    <3> QED BY <1>5, <1>6, <2>3, <3>1, <3>2 DEF next_generation
  <2>5. CASE r # S - 1
    <3>1. r + 1 \in 0 .. S - 1 /\ r + 2 \in 0 .. Modulus - 1 /\ r + 2 # 0
      BY <1>1, <2>5
    <3>2. (r + 1) % S = r + 1 /\ (r + 2) % Modulus = r + 2
      BY <1>1, <3>1, ModSmall
    <3>3. Generation(n) + 1 = r + 2 /\ Generation(n + 1) = r + 2
      BY <1>6, <2>2, <2>3, <3>2
    <3> QED BY <1>5, <3>1, <3>2, <3>3 DEF next_generation
  <2> QED BY <2>4, <2>5
<1> QED BY <1>5, <1>7, <1>8

\* skipped, computed from two wrapped generations, is what the contract says of
\* the publications themselves: exact within a span, never too many beyond it.
LEMMA SkippedExact ==
    ASSUME NEW m \in Nat, NEW n \in Nat, m < n,
           NEW k, k = saturating_dec(generation_distance(Generation(m), Generation(n)))
    PROVE  /\ k = Channel!Skipped(m, n)
           /\ k \in Nat /\ k <= n - m - 1
           /\ n - m < Modulus - 1 => k = n - m - 1
<1>0. PICK S \in Nat \ {0} : S = Modulus - 1 /\ S > 1 /\ Modulus = S + 1
  BY LatestModulusAssumption
<1>1. PICK d \in Nat \ {0} : d = n - m
  OBVIOUS
<1>2. PICK g \in 0 .. S : g = Generation(m)
  BY <1>0, Generations
<1>3. PICK h \in 1 .. S : h = Generation(n)
  <2>1. Generation(n) \in 0 .. Modulus - 1 /\ Generation(n) # 0
    BY Generations
  <2> QED BY <1>0, <2>1
<1>4. h - 1 = (n - 1) % S
  BY <1>0, <1>3, LatestModulusAssumption DEF Generation, Channel!Generation, Channel!Span
<1>5. Channel!Skipped(m, n) = IF d < S THEN d - 1 ELSE IF g = h THEN 0 ELSE (d - 1) % S
  BY <1>0, <1>1, <1>2, <1>3 DEF Channel!Skipped, Channel!Span, Generation
<1>6. PICK q \in Nat : q = (d - 1) % S /\ q < S /\ q <= d - 1 /\ (d - 1 < S => q = d - 1)
  <2>1. PICK c \in Nat : c = d - 1
    OBVIOUS
  <2>2. c % S \in 0 .. S - 1
    BY ModRange
  <2>3. c < S => c % S = c
    <3>1. c < S => c \in 0 .. S - 1
      OBVIOUS
    <3> QED BY <3>1, ModSmall
  <2> QED BY <2>1, <2>2, <2>3
<1>7. k = IF g = h THEN 0 ELSE q
  <2>1. CASE m = 0
    <3>1. g = 0 /\ d = n /\ h \in 0 .. Modulus - 1 /\ Modulus \in Nat \ {0}
      BY <1>0, <1>1, <1>2, <2>1, Generations
    <3>2. h % Modulus = h
      BY <3>1, ModSmall
    <3>3. generation_distance(0, h) = h
      <4>1. h - 0 = h /\ ~(h < 0)
        OBVIOUS
      <4> QED BY <3>2, <4>1 DEF generation_distance
    <3>4. k = h - 1
      BY <1>2, <1>3, <3>1, <3>3 DEF saturating_dec
    <3> QED BY <1>4, <1>6, <3>1, <3>4
  <2>2. CASE m # 0
    <3>1. g - 1 = (m - 1) % S /\ g >= 1
      <4>1. g = ((m - 1) % S) + 1
        BY <1>0, <1>2, <2>2 DEF Generation, Channel!Generation, Channel!Span
      <4>2. (m - 1) % S \in 0 .. S - 1
        <5>1. m - 1 \in Int
          OBVIOUS
        <5> QED BY <5>1, ModRange
      <4> QED BY <4>1, <4>2
    <3>2. PICK x \in 0 .. S - 1 : x = IF h >= g THEN h - g ELSE h - g + S
      <4>1. h >= g => h - g \in 0 .. S - 1
        BY <1>0, <3>1
      <4>2. ~(h >= g) => h - g + S \in 0 .. S - 1
        BY <1>0, <3>1
      <4> QED BY <4>1, <4>2
    <3>3. x = d % S
      <4>1. PICK a \in Int : m - 1 = S * a + (g - 1)
        <5>1. m - 1 \in Int
          OBVIOUS
        <5> QED BY <3>1, <5>1, DivMod
      <4>2. PICK b \in Int : n - 1 = S * b + (h - 1)
        <5>1. n - 1 \in Int
          OBVIOUS
        <5>2. PICK b \in Int : n - 1 = S * b + ((n - 1) % S)
          BY <5>1, DivMod
        <5> QED BY <1>4, <5>2
      <4>3. d = S * (b - a) + (h - g)
        <5>1. S * b - S * a = S * (b - a)
          BY MulDist
        <5> QED BY <1>1, <4>1, <4>2, <5>1
      <4>4. CASE h >= g
        <5>1. d = S * (b - a) + x /\ b - a \in Int
          BY <3>2, <4>3, <4>4
        <5> QED BY <5>1, ModUnique
      <4>5. CASE ~(h >= g)
        <5>1. S * (b - a - 1) = S * (b - a) - S
          <6>1. S * (b - a) - S * 1 = S * ((b - a) - 1) /\ S * 1 = S
            BY MulDist
          <6> QED BY <6>1
        <5>2. d = S * (b - a - 1) + x /\ b - a - 1 \in Int
          BY <3>2, <4>3, <4>5, <5>1
        <5> QED BY <5>2, ModUnique
      <4> QED BY <4>4, <4>5
    <3>4. generation_distance(g, h) = x
      <4>1. CASE h >= g
        <5>1. h - g \in 0 .. Modulus - 1 /\ Modulus \in Nat \ {0}
          BY <1>0, <3>1, <4>1
        <5>2. (h - g) % Modulus = h - g
          BY <5>1, ModSmall
        <5> QED BY <3>2, <4>1, <5>2 DEF generation_distance
      <4>2. CASE ~(h >= g)
        <5>1. PICK y \in 0 .. Modulus - 1 : y = h - g + Modulus
          BY <1>0, <3>1, <4>2
        <5>2. h - g = Modulus * (-1) + y /\ Modulus \in Nat \ {0} /\ h - g \in Int /\ -1 \in Int
          BY <1>0, <5>1
        <5>3. (h - g) % Modulus = y
          BY ONLY <5>2, ModUnique
        <5>4. generation_distance(g, h) = y - 1
          BY <4>2, <5>3 DEF generation_distance
        <5> QED BY <1>0, <3>2, <4>2, <5>1, <5>4
      <4> QED BY <4>1, <4>2
    <3>5. x = 0 <=> g = h
      BY <1>0, <3>1, <3>2
    <3>6. x # 0 => q = x - 1
      <4>1. d - 1 \in Int /\ (d - 1) + 1 = d
        OBVIOUS
      <4>2. (q + 1) % S = d % S
        <5>1. (((d - 1) % S) + 1) % S = ((d - 1) + 1) % S
          BY <4>1, ModSucc
        <5> QED BY <1>6, <4>1, <5>1
      <4>3. q + 1 < S => (q + 1) % S = q + 1
        <5>1. q + 1 < S => q + 1 \in 0 .. S - 1
          OBVIOUS
        <5> QED BY <5>1, ModSmall
      <4>4. q + 1 = S => (q + 1) % S = 0
        <5>1. S = S * 1 + 0 /\ 0 \in 0 .. S - 1
          OBVIOUS
        <5>2. S % S = 0
          BY <5>1, ModUnique
        <5> QED BY <5>2
      <4> QED BY <1>6, <3>3, <4>2, <4>3, <4>4
    <3>7. k = saturating_dec(x)
      BY <1>2, <1>3, <3>4
    <3> QED BY <3>5, <3>6, <3>7 DEF saturating_dec
  <2> QED BY <2>1, <2>2
<1>8. g = h => d >= S
  <2>1. CASE m = 0
    BY <1>2, <1>3, <2>1, Generations
  <2>2. ASSUME m # 0, g = h PROVE d >= S
    <3>1. (m - 1) % S = (n - 1) % S
      <4>1. g = ((m - 1) % S) + 1
        BY <1>0, <1>2, <2>2 DEF Generation, Channel!Generation, Channel!Span
      <4>2. (m - 1) % S \in 0 .. S - 1
        <5>1. m - 1 \in Int
          OBVIOUS
        <5> QED BY <5>1, ModRange
      <4> QED BY <1>4, <2>2, <4>1, <4>2
    <3>2. m - 1 \in Int /\ n - 1 \in Int /\ m - 1 < n - 1
      OBVIOUS
    <3>3. (n - 1) - (m - 1) >= S
      BY <3>1, <3>2, ModApart
    <3> QED BY <1>1, <3>3
  <2> QED BY <2>1, <2>2
<1>9. k \in Nat /\ k <= d - 1 /\ (d < S => k = d - 1)
  BY <1>6, <1>7, <1>8
<1>10. k = Channel!Skipped(m, n)
  BY <1>5, <1>6, <1>7, <1>8
<1> QED BY <1>0, <1>1, <1>9, <1>10

-----------------------------------------------------------------------------
(* Views and stamps.                                                       *)

\* Whoever has view w comes after every plain access that v comes after.
SeenLeq(v, w) == \A t \in Threads : v.seen[t] <= w.seen[t]

\* A plain location's stamp.
Stamps == [by : Threads, at : Nat]

\* Views of the accesses seen are ordered component by component.
LEMMA SeenRefl == ASSUME NEW v \in View PROVE SeenLeq(v, v)
<1>1. \A t \in Threads : v.seen[t] \in Nat
  BY DEF View
<1> QED BY <1>1 DEF SeenLeq

LEMMA SeenTrans ==
    ASSUME NEW u \in View, NEW v \in View, NEW w \in View, SeenLeq(u, v), SeenLeq(v, w)
    PROVE  SeenLeq(u, w)
<1> SUFFICES ASSUME NEW t \in Threads PROVE u.seen[t] <= w.seen[t]
  BY DEF SeenLeq
<1>1. u.seen[t] \in Nat /\ v.seen[t] \in Nat /\ w.seen[t] \in Nat
  BY DEF View
<1> QED BY <1>1 DEF SeenLeq

\* Knowing of an access is never lost.
LEMMA KnowsMore ==
    ASSUME NEW v \in View, NEW w \in View, SeenLeq(v, w), NEW s \in Stamps, Knows(v, s)
    PROVE  Knows(w, s)
<1>1. s.by \in Threads /\ s.at \in Nat
  BY DEF Stamps
<1>2. v.seen[s.by] \in Nat /\ w.seen[s.by] \in Nat
  BY <1>1 DEF View
<1> QED BY <1>1, <1>2 DEF SeenLeq, Knows

\* Acquiring a view.
LEMMA JoinView ==
    ASSUME NEW v \in View, NEW w \in View
    PROVE  /\ Join(v, w) \in View
           /\ Join(v, w).xchg = MaxOf(v.xchg, w.xchg)
           /\ SeenLeq(v, Join(v, w)) /\ SeenLeq(w, Join(v, w))
<1>1. v.xchg \in Nat /\ w.xchg \in Nat /\ MaxOf(v.xchg, w.xchg) \in Nat
  BY DEF View, MaxOf
<1>2. ASSUME NEW t \in Threads
      PROVE  /\ MaxOf(v.seen[t], w.seen[t]) \in Nat
             /\ v.seen[t] <= MaxOf(v.seen[t], w.seen[t])
             /\ w.seen[t] <= MaxOf(v.seen[t], w.seen[t])
  <2>1. v.seen[t] \in Nat /\ w.seen[t] \in Nat
    BY DEF View
  <2> QED BY <2>1 DEF MaxOf
<1>3. [t \in Threads |-> MaxOf(v.seen[t], w.seen[t])] \in [Threads -> Nat]
  BY <1>2
<1> QED BY <1>1, <1>2, <1>3 DEF Join, View, SeenLeq

\* Moving a view along the exchange leaves what it knows of plain accesses.
LEMMA MoveView ==
    ASSUME NEW v \in View, NEW i \in Nat
    PROVE  /\ [v EXCEPT !.xchg = i] \in View /\ [v EXCEPT !.xchg = i].xchg = i
           /\ [v EXCEPT !.xchg = i].seen = v.seen
BY DEF View

\* A plain access: the thread knows of its own, and the stamp it leaves.
LEMMA AccessView ==
    ASSUME NEW v \in View, NEW th \in Threads
    PROVE  /\ Accessed(v, th) \in View /\ Accessed(v, th).xchg = v.xchg
           /\ SeenLeq(v, Accessed(v, th))
           /\ Stamp(v, th) \in Stamps /\ Knows(Accessed(v, th), Stamp(v, th))
<1>1. v.xchg \in Nat /\ v.seen \in [Threads -> Nat] /\ v = [xchg |-> v.xchg, seen |-> v.seen]
  BY DEF View
<1>2. v.seen[th] \in Nat /\ v.seen[th] + 1 \in Nat
  BY <1>1
<1> DEFINE s == [v.seen EXCEPT ![th] = v.seen[th] + 1]
<1>3. s \in [Threads -> Nat] /\ s[th] = v.seen[th] + 1
      /\ \A t \in Threads : t # th => s[t] = v.seen[t]
  BY <1>1, <1>2
<1>4. \A t \in Threads : v.seen[t] <= s[t]
  <2> TAKE t \in Threads
  <2>1. v.seen[t] \in Nat
    BY <1>1
  <2> QED BY <1>2, <1>3, <2>1
<1> HIDE DEF s
<1>5. Accessed(v, th) = [v EXCEPT !.seen = s]
  BY DEF Accessed, s
<1>6. Accessed(v, th) = [xchg |-> v.xchg, seen |-> s]
  BY <1>1, <1>5
<1>7. Accessed(v, th) \in View /\ Accessed(v, th).xchg = v.xchg /\ Accessed(v, th).seen = s
  BY <1>1, <1>3, <1>6 DEF View
<1>8. Stamp(v, th) \in Stamps /\ Stamp(v, th).by = th /\ Stamp(v, th).at = v.seen[th] + 1
  BY <1>2 DEF Stamp, Stamps
<1> QED BY <1>2, <1>3, <1>4, <1>7, <1>8 DEF SeenLeq, Knows

-----------------------------------------------------------------------------
(* The initial state.                                                      *)

\* LatestBuf::new.
LEMMA InitInv == Init => Inv
<1> SUFFICES ASSUME Init PROVE Inv
  OBVIOUS
<1>1. Fresh \in View /\ Fresh.xchg = 1 /\ \A t \in Threads : Fresh.seen[t] = 0
  BY DEF Fresh, View
<1>2. /\ exchange = <<[word |-> 0, view |-> Fresh]>> /\ Len(exchange) = 1
      /\ Newest = 0 /\ exchange[1].view = Fresh /\ exchange[1].word = 0
  BY DEF Init, Newest
<1>3. Back = 1 /\ Front = 2 /\ slot(Newest) = 0 /\ ~ready(Newest)
  BY <1>2 DEF Init, Back, Front, slot, ready, SLOT_MASK, READY_BIT, producer_slot, consumer_slot
<1>4. PICK t0 \in Threads : stamps = [l \in 0 .. FrontCell |-> [by |-> t0, at |-> 0]]
  BY LatestThreadsAssumption DEF Init
<1>5. ~Publishing /\ ~TakeInFlight /\ Generation(0) = 0
  BY DEF Init, Publishing, TakeInFlight, Generation, Channel!Generation
<1>6. TypeOK
  <2>1. FALSE \in BOOLEAN /\ 0 \in 0 .. Modulus - 1 /\ 0 \in 0 .. 3 /\ 0 \in 0 .. 6
    BY LatestModulusAssumption
  <2>2. exchange \in Seq([word : 0 .. 6, view : View]) /\ exchange # <<>>
    BY <1>1, <1>2, <2>1
  <2>3. stamps \in [0 .. FrontCell -> [by : Threads, at : Nat]]
    BY <1>4
  <2>4. slots \in [0 .. 2 -> Entries \cup {Uninit}]
    BY DEF Init
  <2>5. {published, taken, returned, replaced, skips} \subseteq Nat
    BY DEF Init
  <2>6. pc \in [Threads -> PCs]
    BY DEF Init, PCs
  <2>7. /\ producer_state \in [back_encoded : 0 .. 3, next_generation : 0 .. Modulus - 1]
        /\ consumer_state \in [front_encoded : 0 .. 3, last_generation : 0 .. Modulus - 1]
    BY <2>1 DEF Init
  <2>8. /\ producer_taken \in [taken : BOOLEAN, view : View]
        /\ consumer_taken \in [taken : BOOLEAN, view : View]
        /\ prod \subseteq Producers /\ cons \subseteq Consumers
        /\ view \in [Threads -> View]
    BY <1>1, <2>1 DEF Init
  <2> QED BY <2>2, <2>3, <2>4, <2>5, <2>6, <2>7, <2>8 DEF TypeOK
<1>7. SoleHandles
  BY DEF Init, SoleHandles
<1>8. ViewsValid
  BY <1>1, <1>2 DEF Init, ViewsValid
<1>9. Distinct
  BY <1>3 DEF Distinct
<1>10. Hinted
  BY <1>1, <1>2 DEF Init, Hinted, ReadySince, HintHolds
<1>11. Covered
  <2>1. \A l \in 0 .. 4 : stamps[l].at = 0 /\ stamps[l].by \in Threads
    BY <1>4 DEF FrontCell
  <2>2. \A l \in 0 .. 4 : Knows(Fresh, stamps[l])
    BY <1>1, <2>1 DEF Knows
  <2> QED BY <1>2, <1>3, <2>2 DEF Init, Covered, BackCell, FrontCell
<1>12. Contents
  BY <1>3, <1>5 DEF Init, Contents
<1>13. Accounts
  BY <1>3, <1>5 DEF Init, Accounts, InFlight, InFlightSkips, Pending
<1> QED BY <1>6, <1>7, <1>8, <1>9, <1>10, <1>11, <1>12, <1>13 DEF Inv

-----------------------------------------------------------------------------
(* The steps.                                                              *)

\* The types of the variables, in the form the steps use.
LEMMA Types ==
    ASSUME Inv
    PROVE  /\ Len(exchange) \in Nat \ {0}
           /\ \A i \in 1 .. Len(exchange) : exchange[i].word \in 0 .. 6 /\ exchange[i].view \in View
           /\ Len(exchange) \in 1 .. Len(exchange) /\ exchange[Len(exchange)].view \in View
           /\ stamps \in [0 .. 4 -> Stamps] /\ view \in [Threads -> View] /\ pc \in [Threads -> PCs]
           /\ producer_taken.view \in View /\ consumer_taken.view \in View
           /\ prod \subseteq Threads /\ cons \subseteq Threads
           /\ Back \in 0 .. 2 /\ Front \in 0 .. 2 /\ slot(Newest) \in 0 .. 2
           /\ published \in Nat /\ taken \in Nat /\ returned \in Nat /\ replaced \in Nat
           /\ skips \in Nat
<1>1. TypeOK /\ Distinct
  BY DEF Inv
<1>2. exchange \in Seq([word : 0 .. 6, view : View]) /\ exchange # <<>>
  BY <1>1 DEF TypeOK
<1>3. /\ Len(exchange) \in Nat \ {0} /\ Len(exchange) \in 1 .. Len(exchange)
      /\ \A i \in 1 .. Len(exchange) : exchange[i] \in [word : 0 .. 6, view : View]
  <2> DEFINE S == [word : 0 .. 6, view : View]
  <2>1. exchange \in Seq(S) /\ exchange # <<>>
    BY <1>2
  <2> HIDE DEF S
  <2>2. Len(exchange) \in Nat \ {0}
    BY <2>1
  <2>3. \A i \in 1 .. Len(exchange) : exchange[i] \in S
    BY <2>1
  <2> QED BY <2>2, <2>3 DEF S
<1>4. \A i \in 1 .. Len(exchange) : exchange[i].word \in 0 .. 6 /\ exchange[i].view \in View
  BY <1>3
<1>5. stamps \in [0 .. 4 -> Stamps]
  BY <1>1 DEF TypeOK, Stamps, FrontCell
<1>6. /\ view \in [Threads -> View] /\ pc \in [Threads -> PCs]
      /\ producer_taken.view \in View /\ consumer_taken.view \in View
      /\ prod \subseteq Threads /\ cons \subseteq Threads
      /\ published \in Nat /\ taken \in Nat /\ returned \in Nat /\ replaced \in Nat
      /\ skips \in Nat
  BY <1>1 DEF TypeOK, Threads
<1>7. Back \in 0 .. 2 /\ Front \in 0 .. 2 /\ slot(Newest) \in 0 .. 2
  BY <1>1 DEF Distinct
<1>8. exchange[Len(exchange)].view \in View
  BY <1>3, <1>4
<1> QED BY <1>3, <1>4, <1>5, <1>6, <1>7, <1>8, Zenon

\* As views grow, nobody forgets an access.
LEMMA StillKnows ==
    ASSUME Inv, view' \in [Threads -> View], \A u \in Threads : SeenLeq(view[u], view'[u])
    PROVE  \A u \in Threads, l \in 0 .. 4 :
               Knows(view[u], stamps[l]) => Knows(view'[u], stamps[l])
<1> TAKE u \in Threads, l \in 0 .. 4
<1>1. view[u] \in View /\ view'[u] \in View /\ stamps[l] \in Stamps
  BY Types
<1> QED BY <1>1, KnowsMore

\* A step that touches neither the channel nor a call in flight changes nothing
\* of what is in it.
LEMMA Frame ==
    ASSUME Inv, UNCHANGED <<exchange, slots, producer_state, consumer_state, history>>,
           Publishing' <=> Publishing, TakeInFlight' <=> TakeInFlight
    PROVE  /\ Distinct' /\ Contents' /\ Accounts'
           /\ Newest' = Newest /\ Back' = Back /\ Front' = Front
<1>1. Distinct /\ Contents /\ Accounts
  BY DEF Inv
<1>2. Newest' = Newest /\ Back' = Back /\ Front' = Front
  BY DEF Newest, Back, Front
<1>3. LatestItem(slots[Front])' = LatestItem(slots[Front])
  BY <1>2 DEF LatestItem
<1>4. Contents'
  BY <1>1, <1>2 DEF Contents, history
<1>5. Accounts'
  BY <1>1, <1>2, <1>3 DEF Accounts, history, InFlight, InFlightSkips, Pending
<1> QED BY <1>1, <1>2, <1>4, <1>5 DEF Distinct

\* A failed or successful claim of a flag: the thread comes to know what the
\* flag's view knows.
LEMMA TryInv ==
    ASSUME Inv, NEW th \in Threads, TryProducer(th) \/ TryConsumer(th)
    PROVE  Inv'
<1> DEFINE E == Len(exchange)
<1>a. /\ TypeOK /\ SoleHandles /\ ViewsValid /\ Hinted /\ Covered
  BY DEF Inv
<1>b. UNCHANGED <<exchange, slots, producer_state, consumer_state, stamps, pc, history>>
  BY DEF TryProducer, TryConsumer
<1>c. /\ Distinct' /\ Contents' /\ Accounts'
      /\ Newest' = Newest /\ Back' = Back /\ Front' = Front
  BY <1>b, Frame DEF Publishing, TakeInFlight
\* One claimed flag, whichever it is.
<1>d. ASSUME NEW f, f \in [taken : BOOLEAN, view : View], f.view.xchg \in 1 .. E,
             view' = [view EXCEPT ![th] = Join(view[th], f.view)]
      PROVE  /\ view' \in [Threads -> View]
             /\ \A u \in Threads : SeenLeq(view[u], view'[u]) /\ view'[u].xchg \in 1 .. E
                                   /\ view'[u].xchg >= view[u].xchg
             /\ SeenLeq(f.view, view'[th]) /\ view'[th].xchg >= f.view.xchg
             /\ Swapped(f, th) \in [taken : BOOLEAN, view : View] /\ Swapped(f, th).taken
             /\ Swapped(f, th).view.xchg \in 1 .. E
  <2>1. view[th] \in View /\ f.view \in View /\ view[th].xchg \in 1 .. E /\ E \in Nat
    BY <1>a, <1>d, Types DEF ViewsValid
  <2>2. /\ Join(view[th], f.view) \in View /\ SeenLeq(view[th], Join(view[th], f.view))
        /\ SeenLeq(f.view, Join(view[th], f.view)) /\ Join(f.view, view[th]) \in View
        /\ Join(view[th], f.view).xchg = MaxOf(view[th].xchg, f.view.xchg)
        /\ Join(f.view, view[th]).xchg = MaxOf(f.view.xchg, view[th].xchg)
    BY <2>1, JoinView
  <2>3. /\ MaxOf(view[th].xchg, f.view.xchg) \in 1 .. E
        /\ MaxOf(f.view.xchg, view[th].xchg) \in 1 .. E
        /\ MaxOf(view[th].xchg, f.view.xchg) >= f.view.xchg
        /\ MaxOf(view[th].xchg, f.view.xchg) >= view[th].xchg
    BY <1>d, <2>1 DEF MaxOf
  <2>4. view' \in [Threads -> View] /\ view'[th] = Join(view[th], f.view)
        /\ \A u \in Threads : u # th => view'[u] = view[u]
    BY <1>d, <2>2, Types
  <2>5. ASSUME NEW u \in Threads
        PROVE  /\ SeenLeq(view[u], view'[u]) /\ view'[u].xchg \in 1 .. E
               /\ view'[u].xchg >= view[u].xchg
    <3>1. CASE u = th
      BY <2>2, <2>3, <2>4, <3>1
    <3>2. CASE u # th
      <4>1. view'[u] = view[u] /\ view[u] \in View /\ view[u].xchg \in 1 .. E
        BY <1>a, <2>4, <3>2, Types DEF ViewsValid
      <4> QED BY <2>1, <4>1, SeenRefl
    <3> QED BY <3>1, <3>2
  <2>6. /\ Swapped(f, th) \in [taken : BOOLEAN, view : View] /\ Swapped(f, th).taken
        /\ Swapped(f, th).view = Join(f.view, view[th])
    <3>1. TRUE \in BOOLEAN
      OBVIOUS
    <3> QED BY <2>2, <3>1 DEF Swapped
  <2> QED BY <2>2, <2>3, <2>4, <2>5, <2>6
\* The claimer of a free flag knows what its view knows.
<1>f. ASSUME NEW v \in View, view' \in [Threads -> View], SeenLeq(v, view'[th])
      PROVE  \A l \in 0 .. 4 : Knows(v, stamps[l]) => Knows(view'[th], stamps[l])
  <2> TAKE l \in 0 .. 4
  <2>1. view'[th] \in View /\ stamps[l] \in Stamps
    BY <1>f, Types
  <2> QED BY <1>f, <2>1, KnowsMore
\* Positions only move forward, and stay behind the end.
<1>g. ASSUME NEW p \in 1 .. E, NEW q \in 1 .. E, q >= p, ReadySince(p) PROVE ReadySince(q)
  <2>1. E \in Nat
    BY Types
  <2> QED BY <1>g, <2>1 DEF ReadySince
<1>1. CASE TryProducer(th)
  <2> DEFINE f == producer_taken
  <2>1. /\ th \in Producers /\ prod' = (IF f.taken THEN prod ELSE prod \cup {th})
        /\ producer_taken' = Swapped(f, th) /\ view' = [view EXCEPT ![th] = Join(view[th], f.view)]
        /\ UNCHANGED <<consumer_taken, cons>>
    BY <1>1 DEF TryProducer
  <2>2. f \in [taken : BOOLEAN, view : View] /\ f.view.xchg \in 1 .. E /\ f.view \in View
    BY <1>a, Types DEF TypeOK, ViewsValid
  <2> HIDE DEF f, E
  <2>3. /\ view' \in [Threads -> View]
        /\ \A u \in Threads : SeenLeq(view[u], view'[u]) /\ view'[u].xchg \in 1 .. E
                              /\ view'[u].xchg >= view[u].xchg
        /\ SeenLeq(f.view, view'[th])
        /\ producer_taken' \in [taken : BOOLEAN, view : View] /\ producer_taken'.taken
        /\ producer_taken'.view.xchg \in 1 .. E
    BY <1>d, <2>1, <2>2
  <2>4. TypeOK'
    BY <1>a, <1>b, <2>1, <2>3 DEF TypeOK, history
  <2>5. SoleHandles'
    BY <1>a, <1>b, <2>1, <2>3 DEF SoleHandles, f
  <2>6. ViewsValid'
    BY <1>a, <1>b, <2>1, <2>3 DEF ViewsValid, E
  <2>7. Hinted'
    <3>1. ASSUME NEW u \in cons PROVE ReadySince(view'[u].xchg)
      <4>1. u \in Threads /\ view[u].xchg \in 1 .. E /\ ReadySince(view[u].xchg)
        BY <1>a, Types DEF ViewsValid, Hinted, E
      <4> QED BY <1>g, <2>3, <4>1
    <3> QED BY <1>a, <1>b, <1>c, <2>1, <3>1 DEF Hinted, ReadySince, HintHolds
  <2>8. Covered'
    <3>1. ASSUME NEW u \in prod'
          PROVE  Knows(view'[u], stamps[BackCell]) /\ Knows(view'[u], stamps[Back])
      <4>1. BackCell \in 0 .. 4 /\ Back \in 0 .. 4
        BY Types DEF BackCell
      <4>2. CASE u \in prod
        <5>1. u \in Threads /\ Knows(view[u], stamps[BackCell]) /\ Knows(view[u], stamps[Back])
          BY <1>a, <4>2, Types DEF Covered
        <5> QED BY StillKnows, <2>3, <4>1, <5>1
      <4>3. CASE u \notin prod
        <5>1. u = th /\ ~f.taken
          BY <2>1, <4>3
        <5>2. Knows(f.view, stamps[BackCell]) /\ Knows(f.view, stamps[Back])
          BY <1>a, <5>1 DEF Covered, f
        <5> QED BY <1>f, <2>2, <2>3, <4>1, <5>1, <5>2
      <4> QED BY <4>2, <4>3
    <3>2. ASSUME NEW u \in cons
          PROVE  Knows(view'[u], stamps[FrontCell]) /\ Knows(view'[u], stamps[Front])
      <4>1. FrontCell \in 0 .. 4 /\ Front \in 0 .. 4 /\ u \in Threads
        BY Types DEF FrontCell
      <4>2. Knows(view[u], stamps[FrontCell]) /\ Knows(view[u], stamps[Front])
        BY <1>a DEF Covered
      <4> QED BY StillKnows, <2>3, <4>1, <4>2
    <3> QED BY <1>a, <1>b, <1>c, <2>1, <2>3, <3>1, <3>2 DEF Covered
  <2> QED BY <1>c, <2>4, <2>5, <2>6, <2>7, <2>8 DEF Inv
<1>2. CASE TryConsumer(th)
  <2> DEFINE f == consumer_taken
  <2>1. /\ th \in Consumers /\ cons' = (IF f.taken THEN cons ELSE cons \cup {th})
        /\ consumer_taken' = Swapped(f, th) /\ view' = [view EXCEPT ![th] = Join(view[th], f.view)]
        /\ UNCHANGED <<producer_taken, prod>>
    BY <1>2 DEF TryConsumer
  <2>2. f \in [taken : BOOLEAN, view : View] /\ f.view.xchg \in 1 .. E /\ f.view \in View
    BY <1>a, Types DEF TypeOK, ViewsValid
  <2> HIDE DEF f, E
  <2>3. /\ view' \in [Threads -> View]
        /\ \A u \in Threads : SeenLeq(view[u], view'[u]) /\ view'[u].xchg \in 1 .. E
                              /\ view'[u].xchg >= view[u].xchg
        /\ SeenLeq(f.view, view'[th]) /\ view'[th].xchg >= f.view.xchg
        /\ consumer_taken' \in [taken : BOOLEAN, view : View] /\ consumer_taken'.taken
        /\ consumer_taken'.view.xchg \in 1 .. E
    BY <1>d, <2>1, <2>2
  <2>4. TypeOK'
    BY <1>a, <1>b, <2>1, <2>3 DEF TypeOK, history
  <2>5. SoleHandles'
    BY <1>a, <1>b, <2>1, <2>3 DEF SoleHandles, f
  <2>6. ViewsValid'
    BY <1>a, <1>b, <2>1, <2>3 DEF ViewsValid, E
  <2>7. Hinted'
    <3>1. ASSUME NEW u \in cons' PROVE ReadySince(view'[u].xchg)
      <4>1. CASE u \in cons
        <5>1. u \in Threads /\ view[u].xchg \in 1 .. E /\ ReadySince(view[u].xchg)
          BY <1>a, <4>1, Types DEF ViewsValid, Hinted, E
        <5> QED BY <1>g, <2>3, <5>1
      <4>2. CASE u \notin cons
        <5>1. u = th /\ ~f.taken
          BY <2>1, <4>2
        <5>2. ReadySince(f.view.xchg)
          BY <1>a, <5>1 DEF Hinted, f
        <5> QED BY <1>g, <2>2, <2>3, <5>1, <5>2
      <4> QED BY <4>1, <4>2
    <3> QED BY <1>a, <1>b, <1>c, <2>1, <2>3, <3>1 DEF Hinted, ReadySince, HintHolds
  <2>8. Covered'
    <3>1. ASSUME NEW u \in cons'
          PROVE  Knows(view'[u], stamps[FrontCell]) /\ Knows(view'[u], stamps[Front])
      <4>1. FrontCell \in 0 .. 4 /\ Front \in 0 .. 4
        BY Types DEF FrontCell
      <4>2. CASE u \in cons
        <5>1. u \in Threads /\ Knows(view[u], stamps[FrontCell]) /\ Knows(view[u], stamps[Front])
          BY <1>a, <4>2, Types DEF Covered
        <5> QED BY StillKnows, <2>3, <4>1, <5>1
      <4>3. CASE u \notin cons
        <5>1. u = th /\ ~f.taken
          BY <2>1, <4>3
        <5>2. Knows(f.view, stamps[FrontCell]) /\ Knows(f.view, stamps[Front])
          BY <1>a, <5>1 DEF Covered, f
        <5> QED BY <1>f, <2>2, <2>3, <4>1, <5>1, <5>2
      <4> QED BY <4>2, <4>3
    <3>2. ASSUME NEW u \in prod
          PROVE  Knows(view'[u], stamps[BackCell]) /\ Knows(view'[u], stamps[Back])
      <4>1. BackCell \in 0 .. 4 /\ Back \in 0 .. 4 /\ u \in Threads
        BY Types DEF BackCell
      <4>2. Knows(view[u], stamps[BackCell]) /\ Knows(view[u], stamps[Back])
        BY <1>a DEF Covered
      <4> QED BY StillKnows, <2>3, <4>1, <4>2
    <3> QED BY <1>a, <1>b, <1>c, <2>1, <2>3, <3>1, <3>2 DEF Covered
  <2> QED BY <1>c, <2>4, <2>5, <2>6, <2>7, <2>8 DEF Inv
<1> QED BY <1>1, <1>2

\* A drop: the flag carries what the owner knew.
LEMMA DropInv ==
    ASSUME Inv, NEW th \in Threads, DropProducer(th) \/ DropConsumer(th)
    PROVE  Inv'
<1>a. /\ TypeOK /\ SoleHandles /\ ViewsValid /\ Hinted /\ Covered
  BY DEF Inv
<1>b. UNCHANGED <<exchange, slots, producer_state, consumer_state, stamps, view, pc, history>>
  BY DEF DropProducer, DropConsumer
<1>c. /\ Distinct' /\ Contents' /\ Accounts'
      /\ Newest' = Newest /\ Back' = Back /\ Front' = Front
  BY <1>b, Frame DEF Publishing, TakeInFlight
<1>d. /\ Released(th) \in [taken : BOOLEAN, view : View] /\ ~Released(th).taken
      /\ Released(th).view = view[th]
  <2>1. FALSE \in BOOLEAN
    OBVIOUS
  <2> QED BY <2>1, Types DEF Released
<1>1. CASE DropProducer(th)
  <2>1. /\ th \in prod /\ pc[th] = "idle" /\ prod' = prod \ {th}
        /\ producer_taken' = Released(th) /\ UNCHANGED <<consumer_taken, cons>>
    BY <1>1 DEF DropProducer
  <2>2. prod' = {}
    BY <1>a, <2>1, Types DEF SoleHandles
  <2>3. TypeOK'
    BY <1>a, <1>b, <1>d, <2>1 DEF TypeOK, history
  <2>4. SoleHandles'
    BY <1>a, <1>b, <2>1, <2>2 DEF SoleHandles
  <2>5. ViewsValid'
    BY <1>a, <1>b, <1>d, <2>1 DEF ViewsValid
  <2>6. Hinted'
    BY <1>a, <1>b, <1>c, <2>1 DEF Hinted, ReadySince, HintHolds
  <2>7. Covered'
    BY <1>a, <1>b, <1>c, <1>d, <2>1, <2>2 DEF Covered
  <2> QED BY <1>c, <2>3, <2>4, <2>5, <2>6, <2>7 DEF Inv
<1>2. CASE DropConsumer(th)
  <2>1. /\ th \in cons /\ pc[th] = "idle" /\ cons' = cons \ {th}
        /\ consumer_taken' = Released(th) /\ UNCHANGED <<producer_taken, prod>>
    BY <1>2 DEF DropConsumer
  <2>2. cons' = {}
    BY <1>a, <2>1, Types DEF SoleHandles
  <2>3. TypeOK'
    BY <1>a, <1>b, <1>d, <2>1 DEF TypeOK, history
  <2>4. SoleHandles'
    BY <1>a, <1>b, <2>1, <2>2 DEF SoleHandles
  <2>5. ViewsValid'
    BY <1>a, <1>b, <1>d, <2>1 DEF ViewsValid
  <2>6. Hinted'
    BY <1>a, <1>b, <1>c, <1>d, <2>1, <2>2 DEF Hinted, ReadySince, HintHolds
  <2>7. Covered'
    BY <1>a, <1>b, <1>c, <1>d, <2>1, <2>2 DEF Covered
  <2> QED BY <1>c, <2>3, <2>4, <2>5, <2>6, <2>7 DEF Inv
<1> QED BY <1>1, <1>2

\* The load of take_latest: it goes on only if the store it returned is ready,
\* and then the newest one is.
LEMMA TakeLoadInv ==
    ASSUME Inv, NEW th \in Threads, TakeLoad(th)
    PROVE  Inv'
<1> DEFINE E == Len(exchange)
<1>a. /\ TypeOK /\ SoleHandles /\ ViewsValid /\ Hinted /\ Covered
  BY DEF Inv
<1>0. PICK i \in view[th].xchg .. E : TakeLoadAt(th, i)
  BY DEF TakeLoad
<1> DEFINE m == [view[th] EXCEPT !.xchg = i]
           v == Join(m, exchange[i].view)
<1>1. /\ th \in cons /\ pc[th] = "idle" /\ view' = [view EXCEPT ![th] = v]
      /\ pc' = [pc EXCEPT ![th] = IF ready(exchange[i].word) THEN "take_swap" ELSE "idle"]
      /\ UNCHANGED <<exchange, slots, producer_state, consumer_state, stamps, producer_taken,
                     consumer_taken, prod, cons, history>>
  BY <1>0 DEF TakeLoadAt, Goto, flags
<1>2. view[th] \in View /\ view[th].xchg \in 1 .. E /\ E \in Nat /\ i \in 1 .. E /\ i \in Nat
      /\ exchange[i].view \in View /\ exchange[i].view.xchg = i
  <2>1. view[th].xchg \in 1 .. E /\ E \in Nat /\ view[th] \in View
    BY <1>a, Types DEF ViewsValid
  <2>2. i \in 1 .. E /\ i \in Nat
    BY <2>1
  <2> QED BY <1>a, <2>1, <2>2, Types DEF ViewsValid
<1>3. v \in View /\ v.xchg = i /\ SeenLeq(view[th], v)
  <2>1. m \in View /\ m.xchg = i /\ m.seen = view[th].seen
    BY <1>2, MoveView
  <2> HIDE DEF m
  <2>2. Join(m, exchange[i].view) \in View /\ SeenLeq(m, Join(m, exchange[i].view))
        /\ Join(m, exchange[i].view).xchg = MaxOf(i, i)
    BY <1>2, <2>1, JoinView
  <2> QED BY <2>1, <2>2 DEF MaxOf, SeenLeq
<1> HIDE DEF v
<1>4. /\ view' \in [Threads -> View] /\ view'[th] = v
      /\ \A u \in Threads : u # th => view'[u] = view[u]
  BY <1>1, <1>3, Types
<1>5. /\ pc' \in [Threads -> PCs] /\ \A u \in Threads : u # th => pc'[u] = pc[u]
      /\ pc'[th] = "take_swap" <=> ready(exchange[i].word)
      /\ pc'[th] \in {"take_swap", "idle"}
  BY <1>1, Types DEF PCs
<1>6. (Publishing' <=> Publishing) /\ (TakeInFlight' <=> TakeInFlight)
  <2>1. \A u \in Threads : /\ pc'[u] = "publish_swap" <=> pc[u] = "publish_swap"
                           /\ pc'[u] = "take_read" <=> pc[u] = "take_read"
    BY <1>1, <1>5
  <2> QED BY <2>1 DEF Publishing, TakeInFlight
<1>c. /\ Distinct' /\ Contents' /\ Accounts'
      /\ Newest' = Newest /\ Back' = Back /\ Front' = Front
  BY <1>1, <1>6, Frame
<1>7. TypeOK'
  BY <1>a, <1>1, <1>4, <1>5 DEF TypeOK, history
<1>8. SoleHandles'
  BY <1>a, <1>1, <1>5 DEF SoleHandles
<1>9. ViewsValid'
  <2>1. \A u \in Threads : view'[u].xchg \in 1 .. E
    BY <1>a, <1>2, <1>3, <1>4 DEF ViewsValid
  <2> QED BY <1>a, <1>1, <2>1 DEF ViewsValid
<1>10. Hinted'
  <2>1. \A u \in cons : u = th
    BY <1>a, <1>1, Types DEF SoleHandles
  <2>2. ReadySince(view[th].xchg)
    BY <1>a, <1>1 DEF Hinted
  <2>3. ReadySince(i)
    BY <1>2, <2>2 DEF ReadySince
  <2>4. pc'[th] = "take_swap" => ready(Newest)
    <3> SUFFICES ASSUME ready(exchange[i].word) PROVE ready(exchange[E].word)
      BY <1>5 DEF Newest
    <3>1. i = E \/ E \in i + 1 .. E
      BY <1>2
    <3> QED BY <2>3, <3>1 DEF ReadySince
  <2>5. \A u \in Threads : pc'[u] = "take_swap" => ready(Newest)
    BY <1>a, <1>5, <2>4 DEF Hinted, HintHolds
  <2>6. ~consumer_taken.taken => ReadySince(consumer_taken.view.xchg)
    BY <1>a DEF Hinted
  <2>7. \A u \in cons : ReadySince(view'[u].xchg)
    BY <1>3, <1>4, <2>1, <2>3
  <2> QED BY <1>1, <1>c, <2>5, <2>6, <2>7 DEF Hinted, HintHolds, ReadySince
<1>11. Covered'
  <2>1. \A u \in Threads, l \in 0 .. 4 : Knows(view[u], stamps[l]) => Knows(view'[u], stamps[l])
    <3>1. \A u \in Threads : SeenLeq(view[u], view'[u])
      BY <1>2, <1>3, <1>4, SeenRefl, Types
    <3> QED BY <1>4, <3>1, StillKnows
  <2>2. \A u \in prod : Knows(view'[u], stamps[BackCell]) /\ Knows(view'[u], stamps[Back])
    <3> TAKE u \in prod
    <3>1. BackCell \in 0 .. 4 /\ Back \in 0 .. 4 /\ u \in Threads
      BY Types DEF BackCell
    <3>2. Knows(view[u], stamps[BackCell]) /\ Knows(view[u], stamps[Back])
      BY <1>a DEF Covered
    <3> QED BY <2>1, <3>1, <3>2
  <2>3. \A u \in cons : Knows(view'[u], stamps[FrontCell]) /\ Knows(view'[u], stamps[Front])
    <3> TAKE u \in cons
    <3>1. FrontCell \in 0 .. 4 /\ Front \in 0 .. 4 /\ u \in Threads
      BY Types DEF FrontCell
    <3>2. Knows(view[u], stamps[FrontCell]) /\ Knows(view[u], stamps[Front])
      BY <1>a DEF Covered
    <3> QED BY <2>1, <3>1, <3>2
  <2> QED BY <1>a, <1>1, <1>c, <2>2, <2>3 DEF Covered
<1> QED BY <1>c, <1>7, <1>8, <1>9, <1>10, <1>11 DEF Inv

\* The payload is written into the back slot under the next generation.
LEMMA PublishWriteInv ==
    ASSUME Inv, NEW th \in Threads, PublishWrite(th)
    PROVE  Inv'
<1>a. /\ TypeOK /\ SoleHandles /\ ViewsValid /\ Distinct /\ Hinted /\ Covered
      /\ Contents /\ Accounts
  BY DEF Inv
<1> DEFINE g == next_generation(producer_state.next_generation)
           v == Accessed(view[th], th)
           s == Stamp(view[th], th)
<1>1. /\ th \in prod /\ pc[th] = "idle"
      /\ producer_state' = [producer_state EXCEPT !.next_generation = g]
      /\ slots' = [slots EXCEPT ![Back] = [generation |-> g, value |-> published + 1]]
      /\ stamps' = [stamps EXCEPT ![3] = s, ![Back] = s]
      /\ view' = [view EXCEPT ![th] = v]
      /\ pc' = [pc EXCEPT ![th] = "publish_swap"]
      /\ UNCHANGED <<exchange, consumer_state, producer_taken, consumer_taken, prod, cons, history>>
  BY DEF PublishWrite, Goto, flags, BackCell
<1>2. ~Publishing
  BY <1>a, <1>1 DEF SoleHandles, Publishing
<1>3. g = Generation(published + 1) /\ g \in 1 .. Modulus - 1 /\ published + 1 \in Nat \ {0}
  <2>1. producer_state.next_generation = Generation(published) /\ published \in Nat
    BY <1>a, <1>2, Types DEF Contents
  <2>2. g = Generation(published + 1)
    BY <2>1, Generations
  <2>3. Generation(published + 1) \in 0 .. Modulus - 1 /\ Generation(published + 1) # 0
    BY <2>1, Generations
  <2> QED BY <2>1, <2>2, <2>3, LatestModulusAssumption
<1>4. /\ view[th] \in View /\ v \in View /\ v.xchg = view[th].xchg /\ SeenLeq(view[th], v)
      /\ s \in Stamps /\ Knows(v, s)
  <2>1. view[th] \in View
    BY Types
  <2> QED BY <2>1, AccessView
<1> HIDE DEF g, v, s
<1>5. [generation |-> g, value |-> published + 1] = Publication(published + 1)
      /\ Publication(published + 1) \in Entries
  BY <1>3 DEF Publication, Entries
<1>6. /\ slots' \in [0 .. 2 -> Entries \cup {Uninit}] /\ slots'[Back] = Publication(published + 1)
      /\ \A j \in 0 .. 2 : j # Back => slots'[j] = slots[j]
  <2>1. slots \in [0 .. 2 -> Entries \cup {Uninit}] /\ Back \in 0 .. 2
    BY <1>a DEF TypeOK, Distinct
  <2> QED BY <1>1, <1>5, <2>1
<1>7. /\ view' \in [Threads -> View] /\ view'[th] = v
      /\ \A u \in Threads : u # th => view'[u] = view[u]
      /\ \A u \in Threads : SeenLeq(view[u], view'[u])
  <2>1. /\ view' \in [Threads -> View] /\ view'[th] = v
        /\ \A u \in Threads : u # th => view'[u] = view[u]
    BY <1>1, <1>4, Types
  <2> QED BY <1>4, <2>1, SeenRefl, Types
<1>8. /\ stamps' \in [0 .. 4 -> Stamps] /\ stamps'[3] = s /\ stamps'[Back] = s
      /\ \A l \in 0 .. 4 : l # 3 /\ l # Back => stamps'[l] = stamps[l]
  <2>1. stamps \in [0 .. 4 -> Stamps] /\ Back \in 0 .. 2
    BY Types
  <2> QED BY <1>1, <1>4, <2>1
<1>9. /\ producer_state' \in [back_encoded : 0 .. 3, next_generation : 0 .. Modulus - 1]
      /\ producer_state'.back_encoded = producer_state.back_encoded
      /\ producer_state'.next_generation = g
  <2>1. g \in 0 .. Modulus - 1
    BY <1>3
  <2> QED BY <1>a, <1>1, <2>1 DEF TypeOK
<1>10. /\ pc' \in [Threads -> PCs] /\ pc'[th] = "publish_swap"
       /\ \A u \in Threads : u # th => pc'[u] = pc[u]
  BY <1>1, Types DEF PCs
<1>11. Newest' = Newest /\ Back' = Back /\ Front' = Front
  BY <1>1, <1>9 DEF Newest, Back, Front
<1>12. Publishing' /\ (TakeInFlight' <=> TakeInFlight)
  <2>1. \A u \in Threads : pc'[u] = "take_read" <=> pc[u] = "take_read"
    BY <1>1, <1>10
  <2> QED BY <1>10, <2>1 DEF Publishing, TakeInFlight
<1>13. TypeOK'
  <2>1. stamps' \in [0 .. FrontCell -> [by : Threads, at : Nat]]
    BY <1>8 DEF FrontCell, Stamps
  <2> QED BY <1>a, <1>1, <1>6, <1>7, <1>9, <1>10, <2>1 DEF TypeOK, history
<1>14. SoleHandles'
  BY <1>a, <1>1, <1>10 DEF SoleHandles
<1>15. ViewsValid'
  <2>1. \A u \in Threads : view'[u].xchg \in 1 .. Len(exchange)
    BY <1>a, <1>4, <1>7 DEF ViewsValid
  <2> QED BY <1>a, <1>1, <2>1 DEF ViewsValid
<1>16. Distinct'
  BY <1>a, <1>11 DEF Distinct
<1>17. Hinted'
  <2>1. \A u \in cons : ReadySince(view'[u].xchg)
    <3> TAKE u \in cons
    <3>1. view'[u].xchg = view[u].xchg
      BY <1>4, <1>7, Types
    <3> QED BY <1>a, <3>1 DEF Hinted
  <2>2. \A u \in Threads : pc'[u] = "take_swap" => ready(Newest)
    BY <1>a, <1>10 DEF Hinted, HintHolds
  <2> QED BY <1>a, <1>1, <1>11, <2>1, <2>2 DEF Hinted, HintHolds, ReadySince
<1>18. Covered'
  <2>1. \A u \in prod : u = th
    BY <1>a, <1>1, Types DEF SoleHandles
  <2>2. producer_taken.taken
    BY <1>a, <1>1 DEF SoleHandles
  <2>3. /\ stamps'[4] = stamps[4] /\ stamps'[Front] = stamps[Front]
        /\ stamps'[slot(Newest)] = stamps[slot(Newest)]
    BY <1>a, <1>8 DEF Distinct
  <2>4. \A u \in cons : Knows(view'[u], stamps[FrontCell]) /\ Knows(view'[u], stamps[Front])
    <3> TAKE u \in cons
    <3>1. FrontCell \in 0 .. 4 /\ Front \in 0 .. 4 /\ u \in Threads
      BY Types DEF FrontCell
    <3>2. Knows(view[u], stamps[FrontCell]) /\ Knows(view[u], stamps[Front])
      BY <1>a DEF Covered
    <3> QED BY StillKnows, <1>7, <3>1, <3>2
  <2>5. Knows(view'[th], stamps'[3]) /\ Knows(view'[th], stamps'[Back])
    BY <1>4, <1>7, <1>8
  <2> QED BY <1>a, <1>1, <1>11, <2>1, <2>2, <2>3, <2>4, <2>5 DEF Covered, BackCell, FrontCell
<1>19. Contents'
  <2>1. slots'[Front] = slots[Front] /\ slots'[slot(Newest)] = slots[slot(Newest)]
    BY <1>a, <1>6 DEF Distinct
  <2> QED BY <1>a, <1>1, <1>3, <1>6, <1>9, <1>11, <1>12, <2>1 DEF Contents, history
<1>20. Accounts'
  <2>1. slots'[Front] = slots[Front]
    BY <1>a, <1>6 DEF Distinct
  <2>2. LatestItem(slots[Front])' = LatestItem(slots[Front])
    BY <1>1, <1>11, <2>1 DEF LatestItem
  <2> QED BY <1>a, <1>1, <1>11, <1>12, <2>2
          DEF Accounts, history, InFlight, InFlightSkips, Pending
<1> QED BY <1>13, <1>14, <1>15, <1>16, <1>17, <1>18, <1>19, <1>20 DEF Inv

\* What a swap of the exchange by th acquires, and the store it appends.
LEMMA SwapFacts ==
    ASSUME Inv, NEW th \in Threads, NEW v, v = Swapping(th), NEW w \in 0 .. 6,
           exchange' = Append(exchange, [word |-> w, view |-> v])
    PROVE  /\ v \in View /\ v.xchg = Len(exchange) + 1
           /\ SeenLeq(view[th], v) /\ SeenLeq(exchange[Len(exchange)].view, v)
           /\ exchange' \in Seq([word : 0 .. 6, view : View]) /\ exchange' # <<>>
           /\ Len(exchange') = Len(exchange) + 1
           /\ \A i \in 1 .. Len(exchange) : exchange'[i] = exchange[i]
           /\ exchange'[Len(exchange) + 1].word = w /\ exchange'[Len(exchange) + 1].view = v
           /\ Newest' = w
<1> DEFINE E == Len(exchange)
           S == [word : 0 .. 6, view : View]
           j == Join(view[th], exchange[E].view)
<1>1. E \in Nat \ {0} /\ exchange[E].view \in View /\ view[th] \in View
  BY Types
<1>2. exchange \in Seq(S)
  BY DEF Inv, TypeOK
<1>3. j \in View /\ SeenLeq(view[th], j) /\ SeenLeq(exchange[E].view, j)
  BY <1>1, JoinView
<1>4. v = [j EXCEPT !.xchg = E + 1] /\ E + 1 \in Nat
  BY <1>1 DEF Swapping
<1> HIDE DEF j
<1>5. v \in View /\ v.xchg = E + 1 /\ v.seen = j.seen
  BY <1>3, <1>4, MoveView
<1>6. SeenLeq(view[th], v) /\ SeenLeq(exchange[E].view, v)
  BY <1>3, <1>5 DEF SeenLeq
<1> DEFINE n == [word |-> w, view |-> v]
<1>7. n \in S /\ n.word = w /\ n.view = v
  BY <1>5
<1> HIDE DEF S, n
<1>8. /\ exchange' \in Seq(S) /\ exchange' # <<>> /\ Len(exchange') = E + 1
      /\ \A i \in 1 .. E : exchange'[i] = exchange[i]
      /\ exchange'[E + 1] = n
  <2>1. exchange' = Append(exchange, n)
    BY DEF n
  <2> QED BY <1>1, <1>2, <1>7, <2>1
<1>9. Newest' = w
  BY <1>7, <1>8 DEF Newest
<1> QED BY <1>5, <1>6, <1>7, <1>8, <1>9 DEF S

\* The views and stamps a swap leaves that also accesses role state c.
LEMMA SwapViews ==
    ASSUME Inv, NEW th \in Threads, NEW v, v = Swapping(th), NEW w \in 0 .. 6,
           exchange' = Append(exchange, [word |-> w, view |-> v]),
           NEW c \in {3, 4},
           stamps' = [stamps EXCEPT ![c] = Stamp(v, th)],
           view' = [view EXCEPT ![th] = Accessed(v, th)],
           UNCHANGED <<producer_taken, consumer_taken>>
    PROVE  /\ ViewsValid' /\ view' \in [Threads -> View]
           /\ stamps' \in [0 .. FrontCell -> [by : Threads, at : Nat]]
           /\ view'[th].xchg = Len(exchange) + 1
           /\ SeenLeq(v, view'[th]) /\ \A u \in Threads : SeenLeq(view[u], view'[u])
           /\ \A u \in Threads : u # th => view'[u] = view[u]
           /\ Knows(view'[th], stamps'[c])
           /\ \A l \in 0 .. 4 : l # c => stamps'[l] = stamps[l]
<1> DEFINE E == Len(exchange)
<1>1. /\ v \in View /\ v.xchg = E + 1 /\ SeenLeq(view[th], v)
      /\ Len(exchange') = E + 1 /\ E \in Nat \ {0}
      /\ \A i \in 1 .. E : exchange'[i] = exchange[i]
      /\ exchange'[E + 1].view = v
  BY SwapFacts, Types
<1> DEFINE a == Accessed(v, th)
           s == Stamp(v, th)
<1>2. /\ a \in View /\ a.xchg = E + 1 /\ SeenLeq(v, a) /\ s \in Stamps /\ Knows(a, s)
      /\ view[th] \in View /\ SeenLeq(view[th], a)
  <2>1. /\ a \in View /\ a.xchg = E + 1 /\ SeenLeq(v, a) /\ s \in Stamps /\ Knows(a, s)
    BY <1>1, AccessView
  <2>2. view[th] \in View
    BY Types
  <2> QED BY <1>1, <2>1, <2>2, SeenTrans
<1> HIDE DEF a, s
<1>3. /\ view' \in [Threads -> View] /\ view'[th] = a
      /\ \A u \in Threads : u # th => view'[u] = view[u]
  <2>1. view' = [view EXCEPT ![th] = a]
    BY DEF a
  <2> QED BY <1>2, <2>1, Types
<1>4. \A u \in Threads : SeenLeq(view[u], view'[u])
  BY <1>2, <1>3, SeenRefl, Types
<1>5. /\ stamps' \in [0 .. 4 -> Stamps] /\ stamps'[c] = s
      /\ \A l \in 0 .. 4 : l # c => stamps'[l] = stamps[l]
  <2>1. stamps' = [stamps EXCEPT ![c] = s]
    BY DEF s
  <2>2. c \in 0 .. 4
    OBVIOUS
  <2>3. stamps \in [0 .. 4 -> Stamps]
    BY Types
  <2> QED BY ONLY <1>2, <2>1, <2>2, <2>3
<1>6. ViewsValid'
  <2>1. ViewsValid
    BY DEF Inv
  <2>2. 1 .. E \subseteq 1 .. E + 1 /\ E + 1 \in 1 .. E + 1
        /\ \A i \in 1 .. E + 1 : i = E + 1 \/ i \in 1 .. E
    BY <1>1
  <2>3. \A u \in Threads : view'[u].xchg \in 1 .. E + 1
    BY <1>2, <1>3, <2>1, <2>2 DEF ViewsValid
  <2>4. \A i \in 1 .. E + 1 : exchange'[i].view.xchg = i
    <3> TAKE i \in 1 .. E + 1
    <3>1. CASE i = E + 1
      BY <1>1, <3>1
    <3>2. CASE i \in 1 .. E
      BY <1>1, <2>1, <3>2 DEF ViewsValid
    <3> QED BY <2>2, <3>1, <3>2
  <2>5. producer_taken'.view.xchg \in 1 .. E + 1 /\ consumer_taken'.view.xchg \in 1 .. E + 1
    BY <2>1, <2>2 DEF ViewsValid
  <2> QED BY <1>1, <2>3, <2>4, <2>5 DEF ViewsValid
<1>7. stamps' \in [0 .. FrontCell -> [by : Threads, at : Nat]]
  BY <1>5 DEF FrontCell, Stamps
<1> QED BY <1>2, <1>3, <1>4, <1>5, <1>6, <1>7

\* The exchange of publish: the back slot is offered, the one offered before is
\* the new back slot.
LEMMA PublishSwapInv ==
    ASSUME Inv, NEW th \in Threads, PublishSwap(th)
    PROVE  Inv'
<1> DEFINE E == Len(exchange)
           M == slot(Newest)
           v == Swapping(th)
           w == encode(Back, TRUE)
<1>a. /\ TypeOK /\ SoleHandles /\ Distinct /\ Hinted /\ Covered /\ Contents /\ Accounts
  BY DEF Inv
<1>b. E \in Nat \ {0} /\ exchange[E].view \in View /\ view[th] \in View
      /\ published \in Nat /\ taken \in Nat
  BY Types
<1>1. /\ pc[th] = "publish_swap" /\ th \in prod
      /\ exchange' = Append(exchange, [word |-> w, view |-> v])
      /\ producer_state' = [producer_state EXCEPT !.back_encoded = encode_producer_slot(M)]
      /\ stamps' = [stamps EXCEPT ![3] = Stamp(v, th)]
      /\ view' = [view EXCEPT ![th] = Accessed(v, th)]
      /\ published' = published + 1
      /\ replaced' = (IF ready(Newest) THEN replaced + 1 ELSE replaced)
      /\ pc' = [pc EXCEPT ![th] = "idle"]
      /\ UNCHANGED <<slots, consumer_state, producer_taken, consumer_taken, prod, cons, taken,
                     returned, skips, inspan, item>>
  BY <1>a DEF PublishSwap, SoleHandles, Goto, flags, BackCell
<1>2. /\ w \in 0 .. 6 /\ slot(w) = Back /\ ready(w)
      /\ encode_producer_slot(M) \in 0 .. 3 /\ producer_slot(encode_producer_slot(M)) = M
  BY <1>a, Words DEF Distinct
<1> HIDE DEF v, w
<1>v. v = Swapping(th)
  BY DEF v
<1>3. /\ v \in View /\ v.xchg = E + 1
      /\ SeenLeq(view[th], v) /\ SeenLeq(exchange[E].view, v)
      /\ exchange' \in Seq([word : 0 .. 6, view : View]) /\ exchange' # <<>>
      /\ Len(exchange') = E + 1
      /\ \A i \in 1 .. E : exchange'[i] = exchange[i]
      /\ exchange'[E + 1].word = w /\ exchange'[E + 1].view = v
      /\ Newest' = w
  BY <1>1, <1>2, <1>v, SwapFacts
<1>4. /\ ViewsValid' /\ view' \in [Threads -> View]
      /\ stamps' \in [0 .. FrontCell -> [by : Threads, at : Nat]]
      /\ view'[th].xchg = E + 1
      /\ SeenLeq(v, view'[th]) /\ \A u \in Threads : SeenLeq(view[u], view'[u])
      /\ \A u \in Threads : u # th => view'[u] = view[u]
      /\ Knows(view'[th], stamps'[3])
      /\ \A l \in 0 .. 4 : l # 3 => stamps'[l] = stamps[l]
  BY <1>1, <1>2, <1>v, SwapViews
<1>5. /\ producer_state' \in [back_encoded : 0 .. 3, next_generation : 0 .. Modulus - 1]
      /\ producer_state'.next_generation = producer_state.next_generation
      /\ producer_state'.back_encoded = encode_producer_slot(M)
  BY <1>a, <1>1, <1>2 DEF TypeOK
<1>6. slot(Newest)' = Back /\ ready(Newest') /\ Back' = M /\ Front' = Front
  BY <1>1, <1>2, <1>3, <1>5 DEF Back, Front, slot
<1>7. /\ pc' \in [Threads -> PCs] /\ pc'[th] = "idle"
      /\ \A u \in Threads : u # th => pc'[u] = pc[u]
  BY <1>1, Types DEF PCs
<1>8. Publishing /\ ~Publishing' /\ (TakeInFlight' <=> TakeInFlight)
  <2>1. \A u \in Threads : pc'[u] = "take_read" <=> pc[u] = "take_read"
    BY <1>1, <1>7
  <2>2. \A u \in Threads : pc'[u] # "publish_swap"
    BY <1>a, <1>1, <1>7 DEF SoleHandles
  <2> QED BY <1>1, <2>1, <2>2 DEF Publishing, TakeInFlight
<1>9. TypeOK'
  <2>1. {published', taken, returned, replaced', skips} \subseteq Nat
    <3>1. published' \in Nat /\ replaced' \in Nat /\ taken \in Nat /\ returned \in Nat
          /\ skips \in Nat
      BY <1>1, Types, SMTT(30)
    <3> QED BY <3>1
  <2> QED BY <1>a, <1>1, <1>3, <1>4, <1>5, <1>7, <2>1 DEF TypeOK
<1>10. SoleHandles'
  BY <1>a, <1>1, <1>7 DEF SoleHandles
<1>11. Distinct'
  BY <1>a, <1>6 DEF Distinct
<1>12. Hinted'
  <2>1. ASSUME NEW p \in 1 .. E, ReadySince(p)
        PROVE  \A j \in p + 1 .. E + 1 : ready(exchange'[j].word)
    <3> TAKE j \in p + 1 .. E + 1
    <3>1. CASE j = E + 1
      BY <1>2, <1>3, <3>1
    <3>2. CASE j # E + 1
      <4>1. j \in p + 1 .. E /\ j \in 1 .. E
        BY <1>b, <3>2
      <4> QED BY <1>3, <2>1, <4>1 DEF ReadySince
    <3> QED BY <3>1, <3>2
  <2>2. \A u \in cons : \A j \in view'[u].xchg + 1 .. E + 1 : ready(exchange'[j].word)
    <3> TAKE u \in cons
    <3>1. CASE u = th
      <4>1. ~\E j \in view'[th].xchg + 1 .. E + 1 : TRUE
        BY <1>b, <1>4
      <4> QED BY <3>1, <4>1
    <3>2. CASE u # th
      <4>1. u \in Threads /\ view[u].xchg \in 1 .. E
        BY Types DEF Inv, ViewsValid
      <4>2. view'[u] = view[u] /\ ReadySince(view[u].xchg)
        BY <1>a, <1>4, <3>2, <4>1 DEF Hinted
      <4> QED BY <2>1, <4>1, <4>2
    <3> QED BY <3>1, <3>2
  <2>3. ~consumer_taken.taken =>
            \A j \in consumer_taken.view.xchg + 1 .. E + 1 : ready(exchange'[j].word)
    <3>1. consumer_taken.view.xchg \in 1 .. E
      BY DEF Inv, ViewsValid
    <3> QED BY <1>a, <2>1, <3>1 DEF Hinted
  <2> QED BY <1>1, <1>3, <1>6, <2>2, <2>3 DEF Hinted, ReadySince, HintHolds
<1>13. Covered'
  <2>1. producer_taken.taken /\ \A u \in prod : u = th
    BY <1>a, <1>1, Types DEF SoleHandles
  <2>2. M \in 0 .. 4 /\ Back \in 0 .. 4 /\ Front \in 0 .. 4 /\ M # 3 /\ Back # 3 /\ Front # 3
    BY <1>a DEF Distinct
  <2>3. Knows(view'[th], stamps[M])
    <3>1. Knows(exchange[E].view, stamps[M]) /\ stamps[M] \in Stamps /\ view'[th] \in View
      BY <1>a, <1>4, <2>2, Types DEF Covered
    <3>2. Knows(v, stamps[M])
      BY <1>b, <1>3, <3>1, KnowsMore
    <3> QED BY <1>3, <1>4, <3>1, <3>2, KnowsMore
  <2>4. Knows(v, stamps[Back])
    <3>1. Knows(view[th], stamps[Back]) /\ stamps[Back] \in Stamps
      BY <1>a, <1>1, <2>2, Types DEF Covered
    <3> QED BY <1>b, <1>3, <3>1, KnowsMore
  <2>5. \A u \in cons : Knows(view'[u], stamps[4]) /\ Knows(view'[u], stamps[Front])
    <3> TAKE u \in cons
    <3>1. u \in Threads /\ 4 \in 0 .. 4
      BY Types
    <3>2. Knows(view[u], stamps[4]) /\ Knows(view[u], stamps[Front])
      BY <1>a DEF Covered, FrontCell
    <3> QED BY StillKnows, <1>4, <2>2, <3>1, <3>2
  <2>6. /\ stamps'[M] = stamps[M] /\ stamps'[Back] = stamps[Back]
        /\ stamps'[Front] = stamps[Front] /\ stamps'[4] = stamps[4]
    BY <1>4, <2>2
  <2> HIDE DEF M
  <2>7. \A u \in prod' : Knows(view'[u], stamps'[3]) /\ Knows(view'[u], stamps'[Back'])
    BY <1>1, <1>4, <1>6, <2>1, <2>3, <2>6
  <2>8. /\ \A u \in cons' : Knows(view'[u], stamps'[4]) /\ Knows(view'[u], stamps'[Front'])
        /\ ~consumer_taken'.taken => /\ Knows(consumer_taken'.view, stamps'[4])
                                     /\ Knows(consumer_taken'.view, stamps'[Front'])
    BY <1>a, <1>1, <1>6, <2>5, <2>6 DEF Covered, FrontCell
  <2>9. Knows(exchange'[Len(exchange')].view, stamps'[slot(Newest)'])
    BY <1>3, <1>6, <2>4, <2>6
  <2>10. producer_taken'.taken
    BY <1>1, <2>1
  <2> QED BY <2>7, <2>8, <2>9, <2>10 DEF Covered, BackCell, FrontCell
<1>14. Contents'
  <2>1. slots[Back] = Publication(published + 1)
        /\ producer_state.next_generation = Generation(published + 1)
    BY <1>a, <1>8 DEF Contents
  <2>2. taken <= published + 1 /\ taken < published + 1
    BY <1>a, <1>b DEF Contents
  <2> QED BY <1>a, <1>1, <1>5, <1>6, <1>8, <2>1, <2>2 DEF Contents
<1>15. Accounts'
  <2>1. LatestItem(slots[Front])' = LatestItem(slots[Front])
    BY <1>1, <1>6 DEF LatestItem
  <2>2. Pending' = 1 /\ InFlight' = InFlight /\ InFlightSkips' = InFlightSkips
    BY <1>6, <1>8, <2>1 DEF Pending, InFlight, InFlightSkips
  <2>3. replaced' = replaced + Pending
    BY <1>1, Types DEF Pending
  <2>4. InFlight \in Nat /\ Pending \in Nat
    BY DEF InFlight, Pending
  <2>5. published' = returned + replaced' + 1 + InFlight
    <3>1. published = returned + replaced + Pending + InFlight /\ published' = published + 1
      BY <1>a, <1>1 DEF Accounts
    <3>2. returned \in Nat /\ replaced \in Nat
      BY Types
    <3> QED BY <2>3, <2>4, <3>1, <3>2
  <2> QED BY <1>a, <1>1, <2>2, <2>5 DEF Accounts
<1> QED BY <1>4, <1>9, <1>10, <1>11, <1>12, <1>13, <1>14, <1>15 DEF Inv

\* The item of a take that claims publication n after publication m.
LEMMA ItemOf ==
    ASSUME NEW m \in Nat, NEW n \in Nat, m < n,
           consumer_state.last_generation = Generation(m)
    PROVE  /\ LatestItem(Publication(n)) = [value |-> n, generation |-> Generation(n),
                                            skipped |-> Channel!Skipped(m, n)]
           /\ Channel!Skipped(m, n) \in Nat /\ Channel!Skipped(m, n) <= n - m - 1
           /\ n - m < Modulus - 1 => Channel!Skipped(m, n) = n - m - 1
<1>1. PICK k : k = saturating_dec(generation_distance(Generation(m), Generation(n)))
  OBVIOUS
<1>2. /\ k = Channel!Skipped(m, n) /\ k \in Nat /\ k <= n - m - 1
      /\ n - m < Modulus - 1 => k = n - m - 1
  BY <1>1, SkippedExact
<1> QED BY <1>1, <1>2 DEF LatestItem, Publication

\* The exchange of take_latest: the offered slot becomes the front slot, the old
\* front slot is handed back.
LEMMA TakeSwapInv ==
    ASSUME Inv, NEW th \in Threads, TakeSwap(th)
    PROVE  /\ Inv' /\ TakeInFlight' /\ taken' = published /\ taken < published
           /\ slots[slot(Newest)] = Publication(published) /\ ready(Newest) /\ ~ready(Newest')
           /\ ~TakeInFlight
           /\ LatestItem(slots[Front])' = LatestItem(Publication(published))
<1> DEFINE E == Len(exchange)
           M == slot(Newest)
           v == Swapping(th)
           w == encode(Front, FALSE)
<1>a. /\ TypeOK /\ SoleHandles /\ Distinct /\ Hinted /\ Covered /\ Contents /\ Accounts
  BY DEF Inv
<1>b. E \in Nat \ {0} /\ exchange[E].view \in View /\ view[th] \in View
      /\ published \in Nat /\ taken \in Nat /\ returned \in Nat /\ skips \in Nat
  BY Types
<1>r. pc[th] = "take_swap" /\ ready(Newest)
  BY <1>a DEF TakeSwap, Hinted, HintHolds
<1>s. slots[M] = Publication(published) /\ Publication(published).value = published
      /\ taken < published
  BY <1>a, <1>r DEF Contents, Publication
<1>1. /\ th \in cons
      /\ exchange' = Append(exchange, [word |-> w, view |-> v])
      /\ consumer_state' = [consumer_state EXCEPT !.front_encoded = encode_consumer_slot(M)]
      /\ stamps' = [stamps EXCEPT ![4] = Stamp(v, th)]
      /\ view' = [view EXCEPT ![th] = Accessed(v, th)]
      /\ taken' = published
      /\ inspan' = (inspan /\ published - taken < Modulus - 1)
      /\ pc' = [pc EXCEPT ![th] = "take_read"]
      /\ UNCHANGED <<slots, producer_state, producer_taken, consumer_taken, prod, cons,
                     published, returned, replaced, skips, report, item>>
  BY <1>a, <1>r, <1>s DEF TakeSwap, SoleHandles, Goto, flags, FrontCell
<1>2. /\ w \in 0 .. 6 /\ slot(w) = Front /\ ~ready(w)
      /\ encode_consumer_slot(M) \in 0 .. 3 /\ consumer_slot(encode_consumer_slot(M)) = M
  BY <1>a, Words DEF Distinct
<1> HIDE DEF v, w
<1>v. v = Swapping(th)
  BY DEF v
<1>3. /\ v \in View /\ v.xchg = E + 1
      /\ SeenLeq(view[th], v) /\ SeenLeq(exchange[E].view, v)
      /\ exchange' \in Seq([word : 0 .. 6, view : View]) /\ exchange' # <<>>
      /\ Len(exchange') = E + 1
      /\ \A i \in 1 .. E : exchange'[i] = exchange[i]
      /\ exchange'[E + 1].word = w /\ exchange'[E + 1].view = v
      /\ Newest' = w
  BY <1>1, <1>2, <1>v, SwapFacts
<1>4. /\ ViewsValid' /\ view' \in [Threads -> View]
      /\ stamps' \in [0 .. FrontCell -> [by : Threads, at : Nat]]
      /\ view'[th].xchg = E + 1
      /\ SeenLeq(v, view'[th]) /\ \A u \in Threads : SeenLeq(view[u], view'[u])
      /\ \A u \in Threads : u # th => view'[u] = view[u]
      /\ Knows(view'[th], stamps'[4])
      /\ \A l \in 0 .. 4 : l # 4 => stamps'[l] = stamps[l]
  BY <1>1, <1>2, <1>v, SwapViews
<1>5. /\ consumer_state' \in [front_encoded : 0 .. 3, last_generation : 0 .. Modulus - 1]
      /\ consumer_state'.last_generation = consumer_state.last_generation
      /\ consumer_state'.front_encoded = encode_consumer_slot(M)
  BY <1>a, <1>1, <1>2 DEF TypeOK
<1>6. slot(Newest)' = Front /\ ~ready(Newest') /\ Front' = M /\ Back' = Back
  BY <1>1, <1>2, <1>3, <1>5 DEF Back, Front, slot
<1>7. /\ pc' \in [Threads -> PCs] /\ pc'[th] = "take_read"
      /\ \A u \in Threads : u # th => pc'[u] = pc[u]
  BY <1>1, Types DEF PCs
<1>8. ~TakeInFlight /\ TakeInFlight' /\ (Publishing' <=> Publishing)
  <2>1. \A u \in Threads : pc'[u] = "publish_swap" <=> pc[u] = "publish_swap"
    BY <1>r, <1>7
  <2>2. \A u \in Threads : pc[u] # "take_read"
    BY <1>a, <1>r, <1>1 DEF SoleHandles
  <2> QED BY <1>7, <2>1, <2>2 DEF Publishing, TakeInFlight
<1>9. TypeOK'
  <2>1. {published, taken', returned, replaced, skips} \subseteq Nat
    BY <1>1, Types
  <2> QED BY <1>a, <1>1, <1>3, <1>4, <1>5, <1>7, <2>1 DEF TypeOK
<1>10. SoleHandles'
  BY <1>a, <1>1, <1>7 DEF SoleHandles
<1>11. Distinct'
  BY <1>a, <1>6 DEF Distinct
<1>o. consumer_taken.taken /\ \A u \in cons : u = th
  BY <1>a, <1>1, Types DEF SoleHandles
<1>12. Hinted'
  <2>1. ~\E j \in view'[th].xchg + 1 .. E + 1 : TRUE
    BY <1>b, <1>4
  <2>2. \A u \in Threads : pc'[u] # "take_swap"
    BY <1>a, <1>7, <1>o DEF SoleHandles
  <2> QED BY <1>1, <1>3, <1>o, <2>1, <2>2 DEF Hinted, ReadySince, HintHolds
<1>13. Covered'
  <2>2. M \in 0 .. 4 /\ Back \in 0 .. 4 /\ Front \in 0 .. 4 /\ M # 4 /\ Back # 4 /\ Front # 4
    BY <1>a DEF Distinct
  <2>3. Knows(view'[th], stamps[M])
    <3>1. Knows(exchange[E].view, stamps[M]) /\ stamps[M] \in Stamps /\ view'[th] \in View
      BY <1>a, <1>4, <2>2, Types DEF Covered
    <3>2. Knows(v, stamps[M])
      BY <1>b, <1>3, <3>1, KnowsMore
    <3> QED BY <1>3, <1>4, <3>1, <3>2, KnowsMore
  <2>4. Knows(v, stamps[Front])
    <3>1. Knows(view[th], stamps[Front]) /\ stamps[Front] \in Stamps
      BY <1>a, <1>1, <2>2, Types DEF Covered
    <3> QED BY <1>b, <1>3, <3>1, KnowsMore
  <2>5. \A u \in prod : Knows(view'[u], stamps[3]) /\ Knows(view'[u], stamps[Back])
    <3> TAKE u \in prod
    <3>1. u \in Threads /\ 3 \in 0 .. 4
      BY Types
    <3>2. Knows(view[u], stamps[3]) /\ Knows(view[u], stamps[Back])
      BY <1>a DEF Covered, BackCell
    <3> QED BY StillKnows, <1>4, <2>2, <3>1, <3>2
  <2>6. /\ stamps'[M] = stamps[M] /\ stamps'[Back] = stamps[Back]
        /\ stamps'[Front] = stamps[Front] /\ stamps'[3] = stamps[3]
    BY <1>4, <2>2
  <2> HIDE DEF M
  <2>7. \A u \in cons' : Knows(view'[u], stamps'[4]) /\ Knows(view'[u], stamps'[Front'])
    BY <1>1, <1>4, <1>6, <1>o, <2>3, <2>6
  <2>8. /\ \A u \in prod' : Knows(view'[u], stamps'[3]) /\ Knows(view'[u], stamps'[Back'])
        /\ ~producer_taken'.taken => /\ Knows(producer_taken'.view, stamps'[3])
                                     /\ Knows(producer_taken'.view, stamps'[Back'])
    BY <1>a, <1>1, <1>6, <2>5, <2>6 DEF Covered, BackCell
  <2>9. Knows(exchange'[Len(exchange')].view, stamps'[slot(Newest)'])
    BY <1>3, <1>6, <2>4, <2>6
  <2>10. consumer_taken'.taken
    BY <1>1, <1>o
  <2> QED BY <2>7, <2>8, <2>9, <2>10 DEF Covered, BackCell, FrontCell
<1>14. Contents'
  <2>1. taken' <= published /\ ~(taken' < published) /\ taken' > 0
    BY <1>b, <1>1, <1>s
  <2> QED BY <1>a, <1>1, <1>5, <1>6, <1>8, <1>s, <2>1 DEF Contents
<1>15. LatestItem(slots[Front])' = LatestItem(Publication(published))
  BY <1>1, <1>5, <1>6, <1>s DEF LatestItem
<1>16. Accounts'
  <2> DEFINE k == Channel!Skipped(taken, published)
  <2>1. consumer_state.last_generation = Generation(taken)
    BY <1>a, <1>8 DEF Contents
  <2>2. /\ LatestItem(Publication(published)).skipped = k
        /\ k \in Nat /\ k <= published - taken - 1
        /\ published - taken < Modulus - 1 => k = published - taken - 1
    BY <1>b, <1>s, <2>1, ItemOf
  <2> HIDE DEF k
  <2>3. InFlightSkips' = k /\ InFlight' = 1 /\ Pending' = 0
    BY <1>6, <1>8, <1>15, <2>2 DEF InFlightSkips, InFlight, Pending
  <2>4. /\ published = returned + replaced + 1 + 0 /\ returned + 0 + skips + 0 <= taken
        /\ inspan => returned + 0 + skips + 0 = taken
    BY <1>a, <1>r, <1>8 DEF Accounts, InFlightSkips, InFlight, Pending
  <2>5. replaced \in Nat
    BY Types
  <2>6. /\ published = returned + replaced + 0 + 1
        /\ returned + 1 + skips + k <= published
        /\ inspan' => returned + 1 + skips + k = published
    <3>1. returned + skips <= taken /\ (inspan => returned + skips = taken)
      BY <1>b, <2>4
    <3>2. returned + 1 + skips + k <= published
      BY <1>b, <2>2, <3>1
    <3>3. ASSUME inspan' PROVE returned + 1 + skips + k = published
      <4>1. inspan /\ published - taken < Modulus - 1
        BY <1>1, <3>3
      <4>2. returned + skips = taken /\ k = published - taken - 1
        BY <2>2, <3>1, <4>1
      <4> QED BY <1>b, <2>2, <4>2
    <3>4. published = returned + replaced + 0 + 1
      BY <1>b, <2>4, <2>5
    <3> QED BY <3>2, <3>3, <3>4
  <2> QED BY <1>1, <2>2, <2>3, <2>6 DEF Accounts
<1> QED BY <1>1, <1>4, <1>6, <1>8, <1>9, <1>10, <1>11, <1>12, <1>13, <1>14, <1>15, <1>16, <1>r, <1>s
        DEF Inv

\* The copy out of the front slot: the item the swap had already determined.
LEMMA TakeReadInv ==
    ASSUME Inv, NEW th \in Threads, TakeRead(th)
    PROVE  /\ Inv' /\ TakeInFlight /\ ~TakeInFlight'
           /\ item' = LatestItem(slots[Front])
<1>a. /\ TypeOK /\ SoleHandles /\ ViewsValid /\ Distinct /\ Hinted /\ Covered
      /\ Contents /\ Accounts
  BY DEF Inv
<1> DEFINE v == Accessed(view[th], th)
           s == Stamp(view[th], th)
           g == slots[Front].generation
           k == LatestItem(slots[Front]).skipped
<1>1. /\ pc[th] = "take_read" /\ th \in cons
      /\ consumer_state' = [consumer_state EXCEPT !.last_generation = g]
      /\ stamps' = [stamps EXCEPT ![4] = s, ![Front] = s]
      /\ view' = [view EXCEPT ![th] = v]
      /\ pc' = [pc EXCEPT ![th] = "idle"]
      /\ returned' = returned + 1 /\ skips' = skips + k
      /\ item' = LatestItem(slots[Front])
      /\ UNCHANGED <<exchange, slots, producer_state, producer_taken, consumer_taken, prod, cons,
                     published, taken, replaced, inspan, report>>
  BY <1>a DEF TakeRead, SoleHandles, Goto, flags, FrontCell
<1>o. consumer_taken.taken /\ \A u \in cons : u = th
  BY <1>a, <1>1, Types DEF SoleHandles
<1>2. TakeInFlight
  BY <1>1 DEF TakeInFlight
<1>3. g = Generation(taken) /\ g \in 0 .. Modulus - 1
  <2>1. slots[Front] = Publication(taken) /\ taken \in Nat
    BY <1>a, <1>2, Types DEF Contents
  <2>2. g = Generation(taken)
    BY <2>1 DEF Publication
  <2> QED BY <2>1, <2>2, Generations
<1>4. /\ view[th] \in View /\ v \in View /\ v.xchg = view[th].xchg /\ SeenLeq(view[th], v)
      /\ s \in Stamps /\ Knows(v, s)
  <2>1. view[th] \in View
    BY Types
  <2> QED BY <2>1, AccessView
<1>5. k \in Nat /\ k = InFlightSkips /\ InFlight = 1
  BY <1>a, <1>2 DEF Accounts, InFlightSkips, InFlight
<1> HIDE DEF v, s, g, k
<1>6. /\ view' \in [Threads -> View] /\ view'[th] = v
      /\ \A u \in Threads : u # th => view'[u] = view[u]
      /\ \A u \in Threads : SeenLeq(view[u], view'[u])
  <2>1. /\ view' \in [Threads -> View] /\ view'[th] = v
        /\ \A u \in Threads : u # th => view'[u] = view[u]
    BY <1>1, <1>4, Types
  <2> QED BY <1>4, <2>1, SeenRefl, Types
<1>7. /\ stamps' \in [0 .. 4 -> Stamps] /\ stamps'[4] = s /\ stamps'[Front] = s
      /\ \A l \in 0 .. 4 : l # 4 /\ l # Front => stamps'[l] = stamps[l]
  <2>1. stamps \in [0 .. 4 -> Stamps] /\ Front \in 0 .. 2
    BY Types
  <2> QED BY <1>1, <1>4, <2>1
<1>8. /\ consumer_state' \in [front_encoded : 0 .. 3, last_generation : 0 .. Modulus - 1]
      /\ consumer_state'.front_encoded = consumer_state.front_encoded
      /\ consumer_state'.last_generation = g
  BY <1>a, <1>1, <1>3 DEF TypeOK
<1>9. /\ pc' \in [Threads -> PCs] /\ pc'[th] = "idle"
      /\ \A u \in Threads : u # th => pc'[u] = pc[u]
  BY <1>1, Types DEF PCs
<1>10. Newest' = Newest /\ Back' = Back /\ Front' = Front
  BY <1>1, <1>8 DEF Newest, Back, Front
<1>11. ~TakeInFlight' /\ (Publishing' <=> Publishing)
  <2>1. \A u \in Threads : pc'[u] = "publish_swap" <=> pc[u] = "publish_swap"
    BY <1>1, <1>9
  <2>2. \A u \in Threads : pc'[u] # "take_read"
    BY <1>a, <1>9, <1>o DEF SoleHandles
  <2> QED BY <2>1, <2>2 DEF Publishing, TakeInFlight
<1>12. TypeOK'
  <2>1. stamps' \in [0 .. FrontCell -> [by : Threads, at : Nat]]
    BY <1>7 DEF FrontCell, Stamps
  <2>2. {published, taken, returned', replaced, skips'} \subseteq Nat
    <3>1. returned' \in Nat /\ skips' \in Nat /\ published \in Nat /\ taken \in Nat
          /\ replaced \in Nat
      BY <1>1, <1>5, Types
    <3> QED BY <3>1
  <2> QED BY <1>a, <1>1, <1>6, <1>8, <1>9, <2>1, <2>2 DEF TypeOK
<1>13. SoleHandles'
  BY <1>a, <1>1, <1>9 DEF SoleHandles
<1>14. ViewsValid'
  <2>1. \A u \in Threads : view'[u].xchg \in 1 .. Len(exchange)
    BY <1>a, <1>4, <1>6 DEF ViewsValid
  <2> QED BY <1>a, <1>1, <2>1 DEF ViewsValid
<1>15. Distinct'
  BY <1>a, <1>10 DEF Distinct
<1>16. Hinted'
  <2>1. \A u \in cons : ReadySince(view'[u].xchg)
    <3> TAKE u \in cons
    <3>1. view'[u].xchg = view[u].xchg
      BY <1>4, <1>6, Types
    <3> QED BY <1>a, <3>1 DEF Hinted
  <2>2. \A u \in Threads : pc'[u] = "take_swap" => ready(Newest)
    BY <1>a, <1>9 DEF Hinted, HintHolds
  <2> QED BY <1>a, <1>1, <1>10, <2>1, <2>2 DEF Hinted, HintHolds, ReadySince
<1>17. Covered'
  <2>1. /\ stamps'[3] = stamps[3] /\ stamps'[Back] = stamps[Back]
        /\ stamps'[slot(Newest)] = stamps[slot(Newest)]
    BY <1>a, <1>7 DEF Distinct
  <2>2. \A u \in prod : Knows(view'[u], stamps[BackCell]) /\ Knows(view'[u], stamps[Back])
    <3> TAKE u \in prod
    <3>1. BackCell \in 0 .. 4 /\ Back \in 0 .. 4 /\ u \in Threads
      BY Types DEF BackCell
    <3>2. Knows(view[u], stamps[BackCell]) /\ Knows(view[u], stamps[Back])
      BY <1>a DEF Covered
    <3> QED BY StillKnows, <1>6, <3>1, <3>2
  <2>3. Knows(view'[th], stamps'[4]) /\ Knows(view'[th], stamps'[Front])
    BY <1>4, <1>6, <1>7
  <2> QED BY <1>a, <1>1, <1>10, <1>o, <2>1, <2>2, <2>3 DEF Covered, BackCell, FrontCell
<1>18. Contents'
  BY <1>a, <1>1, <1>3, <1>8, <1>10, <1>11 DEF Contents
<1>19. Accounts'
  <2>1. InFlight' = 0 /\ InFlightSkips' = 0 /\ Pending' = Pending
    BY <1>10, <1>11 DEF InFlight, InFlightSkips, Pending
  <2>2. /\ published = returned + replaced + Pending + 1 /\ returned + 1 + skips + k <= taken
        /\ inspan => returned + 1 + skips + k = taken
    BY <1>a, <1>5 DEF Accounts
  <2>3. returned \in Nat /\ replaced \in Nat /\ skips \in Nat /\ taken \in Nat /\ Pending \in Nat
    BY Types DEF Pending
  <2>4. published = (returned + 1) + replaced + Pending + 0
    BY <2>2, <2>3
  <2>5. returned + 1 + skips + k = (returned + 1) + 0 + (skips + k) + 0
    BY <1>5, <2>3
  <2> QED BY <1>1, <2>1, <2>2, <2>4, <2>5 DEF Accounts
<1> QED BY <1>1, <1>2, <1>11, <1>12, <1>13, <1>14, <1>15, <1>16, <1>17, <1>18, <1>19 DEF Inv

-----------------------------------------------------------------------------
(* The specification.                                                      *)

\* Every step of the code preserves the invariant.
LEMMA NextInv == Inv /\ [Next]_vars => Inv'
<1> SUFFICES ASSUME Inv, [Next]_vars PROVE Inv'
  OBVIOUS
<1>1. CASE Next
  <2>1. PICK th \in Threads : Handles(th) \/ Publish(th) \/ Take(th)
    BY <1>1 DEF Next
  <2>2. CASE Handles(th)
    BY <2>2, TryInv, DropInv DEF Handles
  <2>3. CASE Publish(th)
    BY <2>3, PublishWriteInv, PublishSwapInv DEF Publish
  <2>4. CASE Take(th)
    BY <2>4, TakeLoadInv, TakeSwapInv, TakeReadInv DEF Take
  <2> QED BY <2>1, <2>2, <2>3, <2>4
<1>2. CASE UNCHANGED vars
  <2>1. /\ UNCHANGED <<exchange, slots, producer_state, consumer_state, stamps, view, pc>>
        /\ UNCHANGED <<producer_taken, consumer_taken, prod, cons>> /\ UNCHANGED history
    BY <1>2 DEF vars, flags
  <2>2. /\ Distinct' /\ Contents' /\ Accounts'
        /\ Newest' = Newest /\ Back' = Back /\ Front' = Front
    BY <2>1, Frame DEF Publishing, TakeInFlight
  <2>3. TypeOK' /\ SoleHandles' /\ ViewsValid'
    BY <2>1 DEF Inv, TypeOK, SoleHandles, ViewsValid, history
  <2>4. Hinted' /\ Covered'
    BY <2>1, <2>2 DEF Inv, Hinted, ReadySince, HintHolds, Covered
  <2> QED BY <2>2, <2>3, <2>4 DEF Inv
<1> QED BY <1>1, <1>2

\* The inductive invariant holds in every behaviour.
LEMMA AlwaysInv == Spec => []Inv
BY InitInv, NextInv, PTL DEF Spec

\* Every word, encoded slot, generation, stamp and view stays in its range, for
\* any number of calls and hand-overs (TypeOK).
THEOREM TypeCorrect == Spec => []TypeOK
<1>1. Inv => TypeOK
  BY DEF Inv
<1> QED BY <1>1, AlwaysInv, PTL

\* The producer's back slot, the consumer's front slot and the slot named by the
\* exchange word are always the three slots, one each, and a slot offered as
\* ready has been written (OwnershipDisjoint).
THEOREM Ownership == Spec => []OwnershipDisjoint
<1>1. Inv => OwnershipDisjoint
  <2> SUFFICES ASSUME Inv PROVE OwnershipDisjoint
    OBVIOUS
  <2>1. {Back, Front, slot(Newest)} = 0 .. 2
    BY DEF Inv, Distinct
  <2>2. ready(Newest) => slots[slot(Newest)] # Uninit
    <3>1. Publication(published) \in [generation : Nat, value : Nat]
      <4>1. published \in Nat
        BY Types
      <4>2. Generation(published) \in Nat
        BY <4>1, Generations
      <4> QED BY <4>1, <4>2 DEF Publication
    <3> QED BY <3>1, LatestUninitAssumption DEF Inv, Contents
  <2> QED BY <2>1, <2>2 DEF OwnershipDisjoint
<1> QED BY <1>1, AlwaysInv, PTL

\* Every plain access to a slot or a role state happens after all earlier ones to
\* it, through the exchange word or through the handle flags (NoSlotRace).
THEOREM RaceFree == Spec => []NoSlotRace
<1>1. Inv => NoSlotRace
  BY DEF Inv, SoleHandles, Covered, NoSlotRace, Ordered, Knows
<1> QED BY <1>1, AlwaysInv, PTL

\* A take_latest that saw the ready bit always claims a publication: the None
\* after its swap is dead code (HintHolds).
THEOREM HintSound == Spec => []HintHolds
<1>1. Inv => HintHolds
  BY DEF Inv, Hinted
<1> QED BY <1>1, AlwaysInv, PTL

\* Every publication is returned, reported replaced or pending, and the skipped
\* counts add up, also across wraps of the generation (Conservation).
THEOREM Conserved == Spec => []Conservation
<1>1. Inv => Conservation
  <2> SUFFICES ASSUME Inv, ~TakeInFlight
               PROVE  /\ published = returned + replaced + Pending
                      /\ returned + skips <= taken
                      /\ inspan => returned + skips = taken
    BY DEF Conservation
  <2>1. InFlight = 0 /\ InFlightSkips = 0 /\ Accounts
    BY DEF Inv, InFlight, InFlightSkips
  <2>2. returned \in Nat /\ replaced \in Nat /\ skips \in Nat /\ Pending \in Nat
    BY Types DEF Pending
  <2>3. returned + 0 + skips + 0 = returned + skips
        /\ returned + replaced + Pending + 0 = returned + replaced + Pending
    BY <2>2
  <2> QED BY <2>1, <2>3 DEF Accounts
<1> QED BY <1>1, AlwaysInv, PTL

-----------------------------------------------------------------------------
(* The refinement of LatestChannel.                                        *)

\* What the channel sees of the state.
PendingNow == IF ready(Newest) THEN slots[slot(Newest)].value ELSE 0
ItemNow == IF TakeInFlight THEN LatestItem(slots[Front]) ELSE item

\* A pending publication is the newest one, and there is none otherwise.
LEMMA PendingIs ==
    ASSUME Inv
    PROVE  /\ ready(Newest) => PendingNow = published /\ published > 0
           /\ ~ready(Newest) => PendingNow = 0
           /\ PendingNow # 0 <=> ready(Newest)
<1>1. ready(Newest) => slots[slot(Newest)] = Publication(published) /\ taken < published
  BY DEF Inv, Contents
<1>2. Publication(published).value = published
  BY DEF Publication
<1>3. published \in Nat /\ taken \in Nat
  BY Types
<1> QED BY <1>1, <1>2, <1>3 DEF PendingNow

\* LatestBuf implements its contract: a publish is the exchange of publish, a take
\* that of take_latest; every other step is invisible (ImplementsChannel).
THEOREM Refinement == Spec => ImplementsChannel
<1>1. Init => Channel!Init
  <2> SUFFICES ASSUME Init PROVE Channel!Init
    OBVIOUS
  <2>1. exchange = <<[word |-> 0, view |-> Fresh]>> /\ pc = [t \in Threads |-> "idle"]
    BY DEF Init
  <2>2. Newest = 0 /\ ~ready(Newest)
    <3>1. Newest = 0
      BY <2>1 DEF Newest
    <3> QED BY <3>1 DEF ready, READY_BIT
  <2>3. ~TakeInFlight
    BY <2>1 DEF TakeInFlight
  <2> QED BY <2>2, <2>3 DEF Init, Channel!Init, NoReport, NoItem, Channel!NoReport, Channel!NoItem
<1>2. ASSUME Inv, [Next]_vars PROVE [Channel!Next]_(Channel!vars)
  <2>0. Inv'
    BY <1>2, NextInv
  <2>a. /\ Distinct /\ Contents /\ Distinct' /\ Contents'
    BY <1>2, <2>0 DEF Inv
  <2> SUFFICES ASSUME \/ PendingNow' # PendingNow \/ published' # published \/ taken' # taken
                      \/ report' # report \/ ItemNow' # ItemNow
               PROVE  Channel!Next
    BY DEF Channel!vars, PendingNow, ItemNow
  \* Calls that touch neither the channel nor what is in flight.
  <2>q. ASSUME UNCHANGED <<exchange, slots, producer_state, consumer_state, history>>,
               TakeInFlight' <=> TakeInFlight
        PROVE  FALSE
    <3>1. Newest' = Newest /\ Front' = Front
      BY <2>q DEF Newest, Front
    <3>2. LatestItem(slots[Front])' = LatestItem(slots[Front])
      BY <2>q, <3>1 DEF LatestItem
    <3> QED BY <2>q, <3>1, <3>2 DEF PendingNow, ItemNow, history
  <2>1. ASSUME NEW th \in Threads, Handles(th) PROVE FALSE
    <3>1. UNCHANGED <<exchange, slots, producer_state, consumer_state, history, pc>>
      BY <2>1 DEF Handles, TryProducer, TryConsumer, DropProducer, DropConsumer
    <3> QED BY <2>q, <3>1 DEF TakeInFlight
  <2>2. ASSUME NEW th \in Threads, PublishWrite(th) PROVE FALSE
    <3>1. /\ slots' = [slots EXCEPT ![Back] =
                         [generation |-> next_generation(producer_state.next_generation),
                          value |-> published + 1]]
          /\ producer_state' = [producer_state EXCEPT !.next_generation =
                                  next_generation(producer_state.next_generation)]
          /\ pc[th] = "idle" /\ pc' = [pc EXCEPT ![th] = "publish_swap"]
          /\ UNCHANGED <<exchange, consumer_state, history>>
      BY <2>2 DEF PublishWrite, Goto
    <3>2. Newest' = Newest /\ Front' = Front
      BY <3>1 DEF Newest, Front
    <3>3. slots'[Front] = slots[Front] /\ slots'[slot(Newest)] = slots[slot(Newest)]
      <4>1. slots \in [0 .. 2 -> Entries \cup {Uninit}]
        BY <1>2 DEF Inv, TypeOK
      <4> QED BY <2>a, <3>1, <4>1 DEF Distinct
    <3>4. LatestItem(slots[Front])' = LatestItem(slots[Front])
      BY <3>1, <3>2, <3>3 DEF LatestItem
    <3>5. TakeInFlight' <=> TakeInFlight
      <4>1. pc \in [Threads -> PCs]
        BY <1>2, Types
      <4>2. \A u \in Threads : pc'[u] = "take_read" <=> pc[u] = "take_read"
        BY <3>1, <4>1
      <4> QED BY <4>2 DEF TakeInFlight
    <3> QED BY <3>1, <3>2, <3>3, <3>4, <3>5 DEF PendingNow, ItemNow, history
  <2>3. ASSUME NEW th \in Threads, PublishSwap(th) PROVE Channel!Publish
    <3>1. /\ pc[th] = "publish_swap" /\ pc' = [pc EXCEPT ![th] = "idle"]
          /\ exchange' = Append(exchange, [word |-> encode(Back, TRUE), view |-> Swapping(th)])
          /\ published' = published + 1
          /\ report' = [generation |-> producer_state.next_generation,
                        replaced_unread |-> ready(Newest)]
          /\ UNCHANGED <<slots, consumer_state, taken, item>>
      BY <2>3 DEF PublishSwap, Goto
    <3>2. producer_state.next_generation = Generation(published + 1)
      BY <2>a, <3>1 DEF Contents, Publishing
    <3>3. ready(Newest')
      <4>1. encode(Back, TRUE) \in 0 .. 6 /\ ready(encode(Back, TRUE))
        BY <2>a, Words DEF Distinct
      <4>2. Newest' = encode(Back, TRUE)
        BY <1>2, <3>1, <4>1, SwapFacts
      <4> QED BY <4>1, <4>2
    <3>4. PendingNow' = published + 1
      <4>1. ready(Newest)' => PendingNow' = published'
        <5>1. ready(Newest)' => slots'[slot(Newest)'] = Publication(published)'
          BY <2>a DEF Contents
        <5> QED BY <5>1 DEF PendingNow, Publication
      <4> QED BY <3>1, <3>3, <4>1
    <3>5. ready(Newest) <=> PendingNow # 0
      BY <1>2, PendingIs
    <3>6. ItemNow' = ItemNow
      <4>1. TakeInFlight' <=> TakeInFlight
        <5>1. pc \in [Threads -> PCs]
          BY <1>2, Types
        <5>2. \A u \in Threads : pc'[u] = "take_read" <=> pc[u] = "take_read"
          BY <3>1, <5>1
        <5> QED BY <5>2 DEF TakeInFlight
      <4>2. LatestItem(slots[Front])' = LatestItem(slots[Front])
        BY <3>1 DEF LatestItem, Front
      <4> QED BY <3>1, <4>1, <4>2 DEF ItemNow
    <3>7. report' = [generation |-> Channel!Generation(published + 1),
                     replaced_unread |-> PendingNow # 0]
      <4>1. ready(Newest) = (PendingNow # 0)
        BY <3>5 DEF ready
      <4> QED BY <3>1, <3>2, <4>1 DEF Generation
    <3> QED BY <3>1, <3>4, <3>6, <3>7 DEF Channel!Publish, PendingNow, ItemNow
  <2>4. ASSUME NEW th \in Threads, TakeLoad(th) PROVE FALSE
    <3>1. PICK i \in view[th].xchg .. Len(exchange) : TakeLoadAt(th, i)
      BY <2>4 DEF TakeLoad
    <3>2. /\ UNCHANGED <<exchange, slots, producer_state, consumer_state, history>>
          /\ pc[th] = "idle"
          /\ pc' = [pc EXCEPT ![th] = IF ready(exchange[i].word) THEN "take_swap" ELSE "idle"]
      BY <3>1 DEF TakeLoadAt, Goto
    <3>3. TakeInFlight' <=> TakeInFlight
      <4>1. pc \in [Threads -> PCs]
        BY <1>2, Types
      <4>2. \A u \in Threads : pc'[u] = "take_read" <=> pc[u] = "take_read"
        BY <3>2, <4>1
      <4> QED BY <4>2 DEF TakeInFlight
    <3> QED BY <2>q, <3>2, <3>3
  <2>5. ASSUME NEW th \in Threads, TakeSwap(th) PROVE Channel!Take
    <3>1. /\ TakeInFlight' /\ taken' = published /\ taken < published /\ ready(Newest)
          /\ ~ready(Newest') /\ ~TakeInFlight
          /\ LatestItem(slots[Front])' = LatestItem(Publication(published))
      BY <1>2, <2>5, TakeSwapInv
    <3>2. UNCHANGED <<published, report>>
      BY <2>5 DEF TakeSwap
    <3>3. PendingNow = published /\ PendingNow # 0
      BY <1>2, <3>1, PendingIs
    <3>4. PendingNow' = 0
      BY <3>1 DEF PendingNow
    <3>5. ItemNow' = [value |-> published, generation |-> Channel!Generation(published),
                      skipped |-> Channel!Skipped(taken, published)]
      <4>1. consumer_state.last_generation = Generation(taken)
        BY <2>a, <3>1 DEF Contents
      <4>2. published \in Nat /\ taken \in Nat
        BY <1>2, Types
      <4>3. LatestItem(Publication(published)) =
              [value |-> published, generation |-> Generation(published),
               skipped |-> Channel!Skipped(taken, published)]
        BY <3>1, <4>1, <4>2, ItemOf
      <4> QED BY <3>1, <4>3 DEF ItemNow, Generation
    <3> QED BY <3>1, <3>2, <3>3, <3>4, <3>5 DEF Channel!Take, PendingNow, ItemNow
  <2>6. ASSUME NEW th \in Threads, TakeRead(th) PROVE FALSE
    <3>1. TakeInFlight /\ ~TakeInFlight' /\ item' = LatestItem(slots[Front])
      BY <1>2, <2>6, TakeReadInv
    <3>2. UNCHANGED <<exchange, slots, published, taken, report>>
      BY <2>6 DEF TakeRead
    <3> QED BY <3>1, <3>2 DEF PendingNow, ItemNow, Newest
  <2>7. CASE UNCHANGED vars
    BY <2>7, <2>q DEF vars, history, TakeInFlight
  <2>8. CASE Next
    <3>1. PICK th \in Threads : Handles(th) \/ Publish(th) \/ Take(th)
      BY <2>8 DEF Next
    <3> QED BY <2>1, <2>2, <2>3, <2>4, <2>5, <2>6, <3>1 DEF Publish, Take, Channel!Next
  <2> QED BY <1>2, <2>7, <2>8
<1> QED BY <1>1, <1>2, AlwaysInv, PTL DEF Spec, Channel!Spec, ImplementsChannel
=============================================================================
