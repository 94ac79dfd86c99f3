---------------------------- MODULE SeqRingProof ----------------------------
(***************************************************************************)
(* SeqRing never hands out a torn payload, accounts for every push, bounds *)
(* every poll, and loses no entry early if the capacity divides the span:  *)
(* for every capacity, sequence width and number of pushes.                *)
(***************************************************************************)
EXTENDS SeqRing, WrapArithmetic, FiniteSetTheorems

-----------------------------------------------------------------------------
(* Bounded sets of numbers.                                                *)

\* A nonempty bounded set of naturals has a largest element, which Max returns.
LEMMA MaxBounded ==
    ASSUME NEW S \in SUBSET Nat, S # {}, NEW b \in Nat, \A x \in S : x <= b
    PROVE  Max(S) \in S /\ \A x \in S : x <= Max(S)
<1> DEFINE R == OpToRel(<, Nat)
           T == {y \in Nat : b - y \in S}
<1>1. IsWellFoundedOn(R, Nat)
  BY NatLessThanWellFounded
<1>2. T \subseteq Nat /\ T # {}
  <2>1. PICK x \in S : TRUE
    OBVIOUS
  <2>2. b - x \in Nat /\ b - (b - x) = x
    OBVIOUS
  <2> QED BY <2>1, <2>2
<1>3. \A p, q \in Nat : p < q => <<p, q>> \in R
  BY DEF OpToRel
<1> HIDE DEF R
<1>4. PICK y \in T : \A z \in T : ~(<<z, y>> \in R)
  BY <1>1, <1>2, WFMin
<1>5. ASSUME NEW x \in S PROVE x <= b - y
  <2>1. b - x \in Nat /\ b - (b - x) = x /\ x \in Nat
    OBVIOUS
  <2>2. b - x \in T
    BY <2>1
  <2>3. y \in Nat /\ ~(b - x < y)
    BY <1>2, <1>3, <1>4, <2>1, <2>2
  <2> QED BY <2>1, <2>3
<1>6. b - y \in S /\ \A x \in S : b - y >= x
  <2>1. \A x \in S : x \in Nat /\ b - y \in Int
    BY <1>2
  <2> QED BY <1>5, <2>1
<1>7. Max(S) \in S /\ \A x \in S : Max(S) >= x
  BY <1>6 DEF Max
<1> QED BY <1>7

\* Max of a set of one or two numbers.
LEMMA MaxTwo ==
    ASSUME NEW a \in Nat, NEW b \in Nat
    PROVE  Max({a, b}) = IF a < b THEN b ELSE a
<1>1. CASE a < b
  <2>1. b \in {a, b} /\ \A x \in {a, b} : b >= x
    BY <1>1
  <2>2. \A x \in {a, b} : (\A y \in {a, b} : x >= y) => x = b
    BY <1>1
  <2> QED BY <1>1, <2>1, <2>2 DEF Max
<1>2. CASE ~(a < b)
  <2>1. a \in {a, b} /\ \A x \in {a, b} : a >= x
    BY <1>2
  <2>2. \A x \in {a, b} : (\A y \in {a, b} : x >= y) => x = a
    BY <1>2
  <2> QED BY <1>2, <2>1, <2>2 DEF Max
<1> QED BY <1>1, <1>2

-----------------------------------------------------------------------------
(* Sequences.                                                              *)

\* What the assumptions on the constants come to.
LEMMA Consts ==
    /\ N \in Nat \ {0} /\ Span \in Nat \ {0} /\ N < Span
    /\ Modulus \in Nat \ {0} /\ Modulus = Span + 1
    /\ Start \in 0 .. Span /\ Start \in Nat /\ UsizeMax \in Nat /\ MaxPoll \in Nat
BY RingCapacityAssumption, RingModulusAssumption, RingStartAssumption, RingBoundAssumption DEF Span

\* The last_seq of a consumer that has accounted for p pushes (CursorExact).
AtCursor(last, p) == last = SeqOf(p) \/ (last = 0 /\ SeqOf(p) = Span)

\* A number below the modulus is its own remainder.
LEMMA ModSmall == ASSUME NEW m \in Nat \ {0}, NEW x \in 0 .. m - 1 PROVE x % m = x
<1>1. x = m * 0 + x
  OBVIOUS
<1> QED BY <1>1, ModUnique

\* A sequence is the number of its push less a number of whole spans.
LEMMA SeqForm ==
    ASSUME NEW k \in Nat
    PROVE  /\ SeqOf(k) \in 0 .. Span /\ (k = 0 <=> SeqOf(k) = 0)
           /\ \E q \in Nat : k = Span * q + SeqOf(k)
<1>0. PICK S \in Nat \ {0} : S = Span
  BY Consts
<1>1. CASE k = 0
  <2>1. SeqOf(k) = 0
    BY <1>1 DEF SeqOf
  <2>2. k = S * 0 + SeqOf(k) /\ 0 \in Nat
    BY <1>1, <2>1
  <2> QED BY <1>0, <1>1, <2>1, <2>2
<1>2. CASE k # 0
  <2>1. PICK c \in Nat : c = k - 1
    BY <1>2
  <2>2. PICK r \in 0 .. S - 1 : r = c % S
    BY ModRange
  <2>3. SeqOf(k) = r + 1
    BY <1>0, <1>2, <2>1, <2>2 DEF SeqOf
  <2>4. PICK q \in Int : c = S * q + r
    <3>1. c \in Int
      OBVIOUS
    <3> QED BY ONLY <2>2, <3>1, S \in Nat \ {0}, DivMod
  <2>5. q \in Nat
    <3>1. ~(q <= -1)
      BY <2>4, MulLe
    <3> QED BY <3>1
  <2>6. k = S * q + SeqOf(k)
    BY <2>1, <2>3, <2>4
  <2>7. SeqOf(k) \in 0 .. Span /\ SeqOf(k) # 0
    BY <1>0, <2>3
  <2> QED BY <1>0, <1>2, <2>5, <2>6, <2>7
<1> QED BY <1>1, <1>2

\* A sequence is the only one that differs from its push number by whole spans.
LEMMA SeqUnique ==
    ASSUME NEW k \in Nat \ {0}, NEW s \in 1 .. Span, NEW q \in Int, k = Span * q + s
    PROVE  SeqOf(k) = s
<1>0. PICK S \in Nat \ {0} : S = Span
  BY Consts
<1>1. PICK c \in Nat : c = k - 1
  OBVIOUS
<1>2. PICK r \in 0 .. S - 1 : r = s - 1
  BY <1>0
<1>3. c = S * q + r
  BY <1>0, <1>1, <1>2
<1>4. c % S = r
  BY <1>3, ModUnique
<1> QED BY <1>0, <1>1, <1>2, <1>4 DEF SeqOf

\* The same sequence comes back after whole spans only, and does come back then.
LEMMA SeqSame ==
    ASSUME NEW a \in Nat \ {0}, NEW b \in Nat \ {0}, a < b
    PROVE  /\ SeqOf(a) = SeqOf(b) <=> (b - a) % Span = 0
           /\ SeqOf(a) = SeqOf(b) => b - a >= Span
<1>0. PICK S \in Nat \ {0} : S = Span
  BY Consts
<1>f. ASSUME NEW k \in Nat \ {0}
      PROVE  SeqOf(k) \in 1 .. S /\ \E q \in Nat : k = S * q + SeqOf(k)
  <2>1. k \in Nat /\ k # 0
    OBVIOUS
  <2>2. SeqOf(k) \in 0 .. S /\ SeqOf(k) # 0
    BY <1>0, <2>1, SeqForm
  <2>3. SeqOf(k) \in 1 .. S
    BY <2>2
  <2>4. \E q \in Nat : k = S * q + SeqOf(k)
    BY <1>0, <2>1, SeqForm
  <2> QED BY <2>3, <2>4
<1>1. PICK s \in 1 .. S, q \in Nat : s = SeqOf(a) /\ a = S * q + s
  BY <1>f
<1>2. PICK t \in 1 .. S, p \in Nat : t = SeqOf(b) /\ b = S * p + t
  BY <1>f
<1>3. b - a = S * (p - q) + (t - s)
  BY <1>1, <1>2, MulDist
<1>4. ASSUME s = t PROVE (b - a) % S = 0 /\ b - a >= S
  <2>1. b - a = S * (p - q) + 0 /\ p - q \in Int /\ b - a \in Int /\ 0 \in 0 .. S - 1
    BY <1>3, <1>4
  <2>2. (b - a) % S = 0
    BY <2>1, ModUnique
  <2>3. ~(p - q <= -1)
    BY <2>1, MulLe
  <2>4. p - q # 0
    BY <2>1
  <2>5. p - q >= 1
    BY <2>3, <2>4
  <2>6. S * (p - q) >= S
    BY <2>1, <2>5, MulGe
  <2> QED BY <2>1, <2>2, <2>6
<1>5. ASSUME (b - a) % S = 0 PROVE s = t
  <2>1. PICK d \in Nat : d = b - a
    OBVIOUS
  <2>2. PICK e \in Int : d = S * e + 0
    <3>1. d \in Int /\ d % S = 0
      BY <1>5, <2>1
    <3> QED BY ONLY <3>1, S \in Nat \ {0}, DivMod
  <2>3. b = S * (q + e) + s
    <3>1. S * q + S * e = S * (q + e)
      BY MulDist
    <3> QED BY <1>1, <2>1, <2>2, <3>1
  <2>4. SeqOf(b) = s
    BY <1>0, <2>3, SeqUnique
  <2> QED BY <1>2, <2>4
<1> QED BY <1>0, <1>1, <1>2, <1>4, <1>5

\* push and the poll count alike: the successor of a sequence is that of the next
\* push.
LEMMA SeqNext ==
    ASSUME NEW k \in Nat, NEW last, AtCursor(last, k)
    PROVE  next_after(last) = SeqOf(k + 1) /\ next_after(last) \in 1 .. Span
<1>0. PICK S \in Nat \ {0} : S = Span /\ S > 1 /\ Modulus = S + 1 /\ S + 1 \in Nat \ {0}
  BY Consts
<1>1. ASSUME NEW s \in 0 .. S - 1 PROVE next_after(s) = s + 1
  <2>1. s + 1 \in 0 .. (S + 1) - 1
    BY <1>0
  <2>2. (s + 1) % (S + 1) = s + 1
    BY <1>0, <2>1, ModSmall
  <2> QED BY <1>0, <2>2 DEF next_after, wrapping_add
<1>2. next_after(S) = 1
  <2>1. S + 1 = (S + 1) * 1 + 0 /\ 0 \in 0 .. (S + 1) - 1 /\ S + 1 \in Int
    OBVIOUS
  <2>2. (S + 1) % (S + 1) = 0
    BY <1>0, <2>1, ModUnique
  <2> QED BY <1>0, <2>2 DEF next_after, wrapping_add
<1>3. PICK s \in 0 .. S, q \in Nat : s = SeqOf(k) /\ k = S * q + s
  BY <1>0, SeqForm
<1>4. CASE s = S
  <2>1. k + 1 = S * (q + 1) + 1 /\ q + 1 \in Int /\ 1 \in 1 .. S /\ k + 1 \in Nat \ {0}
    <3>1. S * q + S * 1 = S * (q + 1) /\ S * 1 = S
      BY MulDist
    <3> QED BY <1>3, <1>4, <3>1
  <2>2. SeqOf(k + 1) = 1
    BY <1>0, <2>1, SeqUnique
  <2>3. next_after(0) = 1
    BY <1>0, <1>1
  <2> QED BY <1>0, <1>2, <1>3, <1>4, <2>2, <2>3 DEF AtCursor
<1>5. CASE s # S
  <2>1. s \in 0 .. S - 1 /\ s + 1 \in 1 .. S
    BY <1>5
  <2>2. k + 1 = S * q + (s + 1) /\ k + 1 \in Nat \ {0}
    BY <1>3
  <2>3. SeqOf(k + 1) = s + 1
    BY <1>0, <2>1, <2>2, SeqUnique
  <2> QED BY <1>0, <1>1, <1>3, <1>5, <2>1, <2>3 DEF AtCursor
<1> QED BY <1>4, <1>5

-----------------------------------------------------------------------------
(* The lag test and the jump of poll_up_to.                                *)

\* A cursor is the number of pushes accounted for, less a number of spans.
LEMMA CursorForm ==
    ASSUME NEW p \in Nat, NEW last, AtCursor(last, p)
    PROVE  last \in 0 .. Span /\ \E r \in Int : p = Span * r + last
<1>0. PICK S \in Nat \ {0} : S = Span
  BY Consts
<1>1. PICK s \in 0 .. S, q \in Nat : s = SeqOf(p) /\ p = S * q + s
  BY <1>0, SeqForm
<1>2. CASE last = s
  <2>1. \E r \in Int : p = S * r + s
    <3>1. q \in Int /\ p = S * q + s
      BY ONLY <1>1, q \in Nat
    <3> QED BY ONLY <3>1
  <2>2. s \in 0 .. S
    OBVIOUS
  <2> QED BY ONLY <1>0, <1>2, <2>1, <2>2
<1>3. CASE last = 0 /\ s = S
  <2>1. p = S * (q + 1) + 0 /\ q + 1 \in Int
    <3>1. S * q + S * 1 = S * (q + 1) /\ S * 1 = S
      BY MulDist
    <3> QED BY <1>1, <1>3, <3>1
  <2> QED BY <1>0, <1>3, <2>1
<1>4. last = s \/ (last = 0 /\ s = S)
  BY <1>0, <1>1 DEF AtCursor
<1> QED BY <1>2, <1>3, <1>4

\* Conversely, what differs from p by whole spans is the cursor after p pushes.
LEMMA CursorBack ==
    ASSUME NEW p \in Nat, NEW last \in 0 .. Span, NEW r \in Int, p = Span * r + last,
           p # 0 \/ last # Span
    PROVE  AtCursor(last, p)
<1>0. PICK S \in Nat \ {0} : S = Span
  BY Consts
<1>1. CASE p = 0
  <2>1. last = S * (-r) + 0 /\ last \in 0 .. S - 1
    BY <1>0, <1>1
  <2>2. last % S = 0 /\ last % S = last
    <3>1. last \in Int /\ -r \in Int /\ 0 \in 0 .. S - 1
      BY <2>1
    <3>2. last % S = 0
      BY <2>1, <3>1, ModUnique
    <3> QED BY <2>1, <3>2, ModSmall
  <2> QED BY <1>1, <2>2 DEF AtCursor, SeqOf
<1>2. CASE p # 0 /\ last # 0
  <2>1. last \in 1 .. Span /\ p \in Nat \ {0}
    BY <1>0, <1>2
  <2> QED BY <2>1, SeqUnique DEF AtCursor
<1>3. CASE p # 0 /\ last = 0
  <2>1. p = S * (r - 1) + S /\ r - 1 \in Int /\ S \in 1 .. S /\ p \in Nat \ {0}
    <3>1. S * r - S * 1 = S * (r - 1) /\ S * 1 = S
      BY MulDist
    <3> QED BY <1>0, <1>3, <3>1
  <2>2. SeqOf(p) = S
    BY <1>0, <2>1, SeqUnique
  <2> QED BY <1>0, <1>3, <2>2 DEF AtCursor
<1> QED BY <1>1, <1>2, <1>3

\* seq_distance counts the sequences in use, never the reserved 0.
LEMMA Distance ==
    ASSUME NEW x \in 0 .. Span, NEW y \in 0 .. Span
    PROVE  seq_distance(x, y) = IF y < x THEN y - x + Span ELSE y - x
<1>0. PICK S \in Nat \ {0} : S = Span /\ Modulus = S + 1 /\ S + 1 \in Nat \ {0}
  BY Consts
<1>1. CASE y < x
  <2>1. y - x = (S + 1) * (-1) + (y - x + S + 1) /\ y - x + S + 1 \in 0 .. (S + 1) - 1
        /\ y - x \in Int /\ -1 \in Int
    BY <1>0, <1>1
  <2>2. (y - x) % (S + 1) = y - x + S + 1
    BY <1>0, <2>1, ModUnique
  <2> QED BY <1>0, <1>1, <2>2 DEF seq_distance, wrapping_sub
<1>2. CASE ~(y < x)
  <2>1. y - x \in 0 .. (S + 1) - 1
    BY <1>0, <1>2
  <2>2. (y - x) % (S + 1) = y - x
    BY <1>0, <2>1, ModSmall
  <2> QED BY <1>0, <1>2, <2>2 DEF seq_distance, wrapping_sub
<1> QED BY <1>1, <1>2

\* Where a lagging consumer resumes, in sequences.
LEMMA Resume ==
    ASSUME NEW new \in 1 .. Span
    PROVE  resume_after(new) = IF new < N THEN new - N + 1 + Span ELSE new - N
<1>s. Span \in Nat \ {0}
  BY Consts
<1>0. PICK M \in Nat \ {0} : M = Modulus /\ M = Span + 1 /\ N < M - 1
  BY Consts
<1>n. N \in Nat \ {0}
  BY Consts
<1>1. PICK c \in Int : c = new - (N - 1)
  BY <1>n
<1>2. PICK r \in 0 .. M - 1 : r = c % M
  BY ModRange
<1>3. resume_after(new) = (r - 1) % M
  BY <1>0, <1>1, <1>2 DEF resume_after, wrapping_sub
<1>4. CASE new >= N
  <2>1. c \in 0 .. M - 1 /\ c >= 1
    BY <1>s, <1>0, <1>1, <1>4, <1>n
  <2>2. r = c
    BY <1>2, <2>1, ModSmall
  <2>3. r - 1 \in 0 .. M - 1
    BY <2>1, <2>2
  <2>4. (r - 1) % M = r - 1
    BY <2>3, ModSmall
  <2> QED BY <1>1, <1>3, <1>4, <1>n, <2>2, <2>4
<1>5. CASE new = N - 1
  <2>1. c = 0 /\ 0 \in 0 .. M - 1
    BY <1>1, <1>5, <1>n
  <2>2. r = 0
    BY <1>2, <2>1, ModSmall
  <2>3. r - 1 = M * (-1) + (M - 1) /\ M - 1 \in 0 .. M - 1 /\ r - 1 \in Int /\ -1 \in Int
    BY <2>2
  <2>4. (r - 1) % M = M - 1
    BY <2>3, ModUnique
  <2> QED BY <1>s, <1>0, <1>3, <1>5, <1>n, <2>4
<1>6. CASE new < N - 1
  <2>1. c = M * (-1) + (c + M) /\ c + M \in 0 .. M - 1 /\ -1 \in Int /\ c + M >= 2
    BY <1>s, <1>0, <1>1, <1>6, <1>n
  <2>2. r = c + M
    BY <1>2, <2>1, ModUnique
  <2>3. r - 1 \in 0 .. M - 1
    BY <2>1, <2>2
  <2>4. (r - 1) % M = r - 1
    BY <2>3, ModSmall
  <2> QED BY <1>s, <1>0, <1>1, <1>3, <1>6, <1>n, <2>2, <2>4
<1> QED BY <1>4, <1>5, <1>6, <1>n

\* A poll whose cursor stands at push from and that observes push A: it is behind
\* by at least one and, after the jump, by at most N; the jump stops no more than
\* one push later than it has to.
LEMMA Jump ==
    ASSUME NEW from \in Nat, NEW last, AtCursor(last, from), NEW A \in Nat, from <= A,
           last = 0 /\ from # 0 => from < A, SeqOf(A) \notin {0, last},
           NEW after, after = (IF Lags(last, SeqOf(A)) THEN resume_after(SeqOf(A)) ELSE last),
           NEW jumped, jumped = (IF Lags(last, SeqOf(A))
                                 THEN seq_distance(last, resume_after(SeqOf(A))) ELSE 0)
    PROVE  /\ jumped \in Nat /\ AtCursor(after, from + jumped)
           /\ (A - (from + jumped)) % Span \in 1 .. N
           /\ from + jumped < A
           /\ jumped # 0 => from + jumped <= A - N + 1
<1>0. PICK S \in Nat \ {0} : S = Span /\ N < S
  BY Consts
<1>n. N \in Nat \ {0}
  BY Consts
<1>1. PICK new \in 1 .. S, q \in Nat : new = SeqOf(A) /\ A = S * q + new
  <2>1. SeqOf(A) \in 0 .. S /\ SeqOf(A) # 0
    BY <1>0, SeqForm
  <2>2. SeqOf(A) \in 1 .. S
    BY <2>1
  <2>3. \E q \in Nat : A = S * q + SeqOf(A)
    BY <1>0, SeqForm
  <2> QED BY <2>2, <2>3
<1>2. last \in 0 .. S
  BY <1>0, CursorForm
<1>3. PICK r \in Int : from = S * r + last
  BY <1>0, CursorForm
<1>4. PICK d \in 1 .. S : d = (IF new < last THEN new - last + S ELSE new - last)
  <2>1. new # last
    BY <1>1
  <2> QED BY <1>0, <1>2, <2>1
<1>5. seq_distance(last, new) = d /\ (Lags(last, new) <=> d > N)
  <2>1. last \in 0 .. Span /\ new \in 0 .. Span
    BY <1>0, <1>2
  <2>2. seq_distance(last, new) = d
    BY <1>0, <1>4, <2>1, Distance
  <2> QED BY <2>2 DEF Lags
\* The real distance is d and a number of whole spans.
<1>6. PICK s \in Nat : A - from = S * s + d
  <2>1. PICK t \in Int : A - from = S * t + d
    <3>1. PICK x \in Int, y \in Int, u \in Int, w \in Int :
             /\ x = q - r /\ y = x - 1 /\ u = S * q /\ w = S * r
             /\ u - w = S * x /\ (u - w) - S = S * y
      <4>1. PICK x \in Int, y \in Int, u \in Int, w \in Int :
               x = q - r /\ y = x - 1 /\ u = S * q /\ w = S * r
        OBVIOUS
      <4>2. S * q - S * r = S * (q - r) /\ S * x - S * 1 = S * (x - 1) /\ S * 1 = S
        BY MulDist
      <4>3. u - w = S * x /\ (u - w) - S = S * y
        BY <4>1, <4>2
      <4> QED BY <4>1, <4>3
    <3>2. A - from = (u - w) + (new - last)
      BY <1>1, <1>2, <1>3, <3>1
    <3>3. CASE new < last
      <4>1. A - from = ((u - w) - S) + d
        BY <1>2, <1>4, <3>2, <3>3
      <4> QED BY <3>1, <4>1
    <3>4. CASE ~(new < last)
      <4>1. A - from = (u - w) + d
        BY <1>2, <1>4, <3>2, <3>4
      <4> QED BY <3>1, <4>1
    <3> QED BY <3>3, <3>4
  <2>2. ASSUME t <= -1 PROVE FALSE
    <3>1. S * t <= -S
      BY <2>2, MulLe
    <3>2. d = S /\ A = from
      BY <2>1, <3>1
    <3>3. last = 0 /\ new = S
      BY <1>2, <1>4, <3>2
    <3>4. SeqOf(from) # 0
      BY <1>0, <1>1, <3>2, <3>3
    <3>5. from # 0
      BY <3>4, SeqForm
    <3> QED BY <3>2, <3>3, <3>5
  <2>3. t \in Nat
    BY <2>2
  <2> QED BY <2>1, <2>3
<1>7. CASE d <= N
  <2>1. after = last /\ jumped = 0
    BY <1>1, <1>5, <1>7, <1>n
  <2>2. (A - from) % S = d
    <3>1. A - from \in Int /\ d \in 0 .. S - 1 /\ s \in Int
      BY <1>0, <1>7, <1>n
    <3> QED BY <1>6, <3>1, ModUnique
  <2>3. from < A
    <3>1. S * s >= 0
      OBVIOUS
    <3> QED BY <1>6, <3>1
  <2>4. from + jumped = from
    BY <2>1
  <2> QED BY <1>0, <1>7, <1>n, <2>1, <2>2, <2>3, <2>4
<1>8. CASE d > N
  <2>1. after = (IF new < N THEN new - N + 1 + S ELSE new - N)
    BY <1>0, <1>1, <1>5, <1>8, Resume
  <2>2. after \in 0 .. S
    BY <1>0, <1>n, <2>1
  <2>3. jumped = (IF after < last THEN after - last + S ELSE after - last)
    <3>1. jumped = seq_distance(last, after)
      BY <1>1, <1>5, <1>8
    <3> QED BY <1>0, <1>2, <2>2, <3>1, Distance
  <2>4. PICK e \in 1 .. N : e = d - jumped /\ (e = IF new < N THEN N - 1 ELSE N)
    BY <1>0, <1>2, <1>4, <1>8, <1>n, <2>1, <2>2, <2>3
  <2>5. jumped = d - e /\ jumped \in Nat \ {0}
    BY <1>8, <1>n, <2>2, <2>3, <2>4
  <2>6. PICK f \in Nat \ {0} : f = from + jumped
    BY <2>5
  <2>7. A - f = S * s + e
    BY <1>6, <2>5, <2>6
  <2>8. (A - f) % S = e
    <3>1. A - f \in Int /\ e \in 0 .. S - 1 /\ s \in Int
      BY <1>0, <1>n
    <3> QED BY <2>7, <3>1, ModUnique
  <2>9. f <= A - e
    <3>1. S * s >= 0
      OBVIOUS
    <3> QED BY <2>7, <3>1
  <2>10. AtCursor(after, f)
    <3>1. PICK t \in Int : f = S * t + after
      <4>1. PICK x \in Int, y \in Int, u \in Int, w \in Int :
               /\ x = q - s /\ y = x - 1 /\ u = S * q /\ w = S * s
               /\ u - w = S * x /\ (u - w) - S = S * y
        <5>1. PICK x \in Int, y \in Int, u \in Int, w \in Int :
                 x = q - s /\ y = x - 1 /\ u = S * q /\ w = S * s
          OBVIOUS
        <5>2. S * q - S * s = S * (q - s) /\ S * x - S * 1 = S * (x - 1) /\ S * 1 = S
          BY MulDist
        <5>3. u - w = S * x /\ (u - w) - S = S * y
          BY <5>1, <5>2
        <5> QED BY <5>1, <5>3
      <4>2. f = (u - w) + (new - e)
        <5>1. A = u + new /\ A - f = w + e
          BY <1>1, <2>7, <4>1
        <5> QED BY <5>1
      <4>3. CASE new < N
        <5>1. f = ((u - w) - S) + after
          BY <1>n, <2>1, <2>4, <4>2, <4>3
        <5> QED BY <4>1, <5>1
      <4>4. CASE ~(new < N)
        <5>1. f = (u - w) + after
          BY <1>n, <2>1, <2>4, <4>2, <4>4
        <5> QED BY <4>1, <5>1
      <4> QED BY <4>3, <4>4
    <3>2. f \in Nat /\ f # 0 /\ after \in 0 .. Span /\ f = Span * t + after
      BY <1>0, <2>2, <3>1
    <3> QED BY <3>2, CursorBack
  <2>11. f < A /\ f <= A - N + 1
    BY <1>n, <2>4, <2>9
  <2> QED BY <1>0, <2>4, <2>5, <2>6, <2>8, <2>10, <2>11
<1> QED BY <1>7, <1>8, <1>n

-----------------------------------------------------------------------------
(* The inductive invariant.                                                *)

\* The slot of push k.
IdxAt(k) == idx_for(SeqOf(k))

\* The last push before Init that used slot i, 0 if none did.
Base(i) == Before(Lo(i))

\* Stores the push under way has made.
Stored == CASE ppc = "idle" -> 0 [] ppc = "lo" -> 1 [] ppc = "hi" -> 2
            [] ppc = "seq" -> 3 [] ppc = "pub" -> 4

\* The five stores of the k-th push since Init, as far as they are made.
Logged ==
    /\ log \in Seq([loc : Locs, val : Nat, rel : Nat])
    /\ Len(log) = 5 * pushes + Stored
    /\ \A k \in 1 .. pushes + 1 :
        LET i == IdxAt(Start + k)
        IN  /\ 5 * k - 4 <= Len(log) => /\ log[5 * k - 4].loc = SlotSeq(i)
                                        /\ log[5 * k - 4].val = 0
            /\ 5 * k - 3 <= Len(log) =>
                log[5 * k - 3] = [loc |-> Lo(i), val |-> Start + k, rel |-> 5 * k - 4]
            /\ 5 * k - 2 <= Len(log) =>
                log[5 * k - 2] = [loc |-> Hi(i), val |-> Start + k, rel |-> 5 * k - 4]
            /\ 5 * k - 1 <= Len(log) =>
                log[5 * k - 1] = [loc |-> SlotSeq(i), val |-> SeqOf(Start + k), rel |-> 5 * k - 1]
            /\ 5 * k <= Len(log) =>
                log[5 * k] = [loc |-> Published, val |-> SeqOf(Start + k), rel |-> 5 * k]

\* What the producer remembers.
Producing ==
    /\ pushes \in Nat /\ next_seq = SeqOf(Begun)
    /\ ppc # "idle" => pseq = SeqOf(Begun) /\ fenced = 5 * pushes + 1 /\ producer_taken

\* The stores of published_seq count the pushes.
Numbered ==
    \A j \in 0 .. Len(log), k \in 0 .. pushes :
        5 * k <= j /\ j < 5 * k + 5 => AbsAt(j) = Start + k

\* The consumer's cursor stands at a push it knows to be published.
Cursor ==
    /\ pos = -1 => last_seq = 0
    /\ pos # -1 => /\ pos \in Nat /\ AtCursor(last_seq, pos)
                   /\ 5 * (pos - Start) <= cview[Published]
                   /\ last_seq = 0 /\ pos # 0 => 5 * (pos + 1 - Start) <= cview[Published]

\* The push a read is after.
Wanted == IF max > 0 THEN pos + 1 ELSE newestAbs

Locals ==
    /\ max \in Nat /\ dropped \in Nat /\ acquired \in 0 .. Len(log)
    /\ copy \in [1 .. 2 -> Nat]
    /\ cpc = "idle" => max = 0
    /\ cpc # "idle" => consumer_taken

\* What a call has sampled, and what it is after, are published.
Sampled ==
    cpc # "idle" =>
        /\ newestAbs \in Nat /\ newest = SeqOf(newestAbs)
        /\ 5 * (newestAbs - Start) <= known /\ 5 * (newestAbs - Start) <= cview[Published]
        /\ Wanted \in 1 .. newestAbs /\ target = SeqOf(Wanted)
        /\ max > 0 => pos # -1 /\ Behind(newestAbs, pos) \in 1 .. N

\* Where the sequence of push p stands in the log.
SeqPos(p) == IF p <= Start THEN 0 ELSE 5 * (p - Start) - 1

\* A copied word is of push p, whose sequence the first load found, or of a later
\* one whose invalidation the fence will acquire.
Copied(w, p) ==
    /\ copy[w] >= p
    /\ copy[w] > p => /\ copy[w] > Start /\ IdxAt(copy[w]) = Idx
                      /\ 5 * (copy[w] - Start) - 4 <= acquired

Copying ==
    cpc \in {"lo", "hi", "s2"} =>
        \E p \in 1 .. Begun :
            /\ p >= Wanted /\ SeqOf(p) = target /\ (p <= Start => p = Base(Idx))
            /\ SeqPos(p) <= known /\ SeqPos(p) <= cview[SlotSeq(Idx)]
            /\ cpc \in {"hi", "s2"} => Copied(1, p)
            /\ cpc = "s2" => Copied(2, p)

Inv == TypeOK /\ Logged /\ Producing /\ Numbered /\ Cursor /\ Locals /\ Sampled
       /\ Copying /\ GenuineItem

-----------------------------------------------------------------------------
(* Locations and loads.                                                    *)

\* Both forms of the slot index stay inside the ring.
LEMMA Slots ==
    /\ \A k \in Nat : IdxAt(k) \in 0 .. N - 1
    /\ \A t \in Int : idx_for(t) \in 0 .. N - 1
<1>1. ASSUME NEW t \in Int PROVE idx_for(t) \in 0 .. N - 1
  <2>1. t - 1 \in Int /\ Modulus \in Nat \ {0} /\ N \in Nat \ {0}
    BY Consts
  <2>2. PICK w \in 0 .. Modulus - 1 : w = wrapping_sub(t, 1)
    BY <2>1, ModRange DEF wrapping_sub
  <2>3. w \in Int
    BY <2>1
  <2>4. w % N \in 0 .. N - 1
    BY <2>1, <2>3, ModRange
  <2> QED BY <2>2, <2>4 DEF idx_for
<1>2. ASSUME NEW k \in Nat PROVE IdxAt(k) \in 0 .. N - 1
  <2>1. SeqOf(k) \in Int
    BY SeqForm, Consts
  <2> QED BY <1>1, <2>1 DEF IdxAt
<1> QED BY <1>1, <1>2

\* No two locations coincide.
LEMMA Locations ==
    /\ Published \in Locs
    /\ \A i \in 0 .. N - 1 : {SlotSeq(i), Lo(i), Hi(i)} \subseteq Locs
    /\ \A i, j : /\ SlotSeq(i) # Published /\ Lo(i) # Published /\ Hi(i) # Published
                 /\ SlotSeq(i) # Lo(j) /\ SlotSeq(i) # Hi(j) /\ Lo(i) # Hi(j)
                 /\ SlotSeq(i) = SlotSeq(j) => i = j
                 /\ Lo(i) = Lo(j) => i = j
                 /\ Hi(i) = Hi(j) => i = j
BY DEF Locs, Published, SlotSeq, Lo, Hi

\* What the pushes before Init left in slot i.
LEMMA BaseFacts ==
    ASSUME NEW i \in 0 .. N - 1
    PROVE  /\ Base(i) \in 0 .. Start
           /\ \A k \in 1 .. Start : IdxAt(k) = i => k <= Base(i)
           /\ Base(i) # 0 => IdxAt(Base(i)) = i
           /\ Before(SlotSeq(i)) = SeqOf(Base(i)) /\ Before(Lo(i)) = Base(i)
           /\ Before(Hi(i)) = Base(i)
<1> DEFINE S == {k \in 1 .. Start : idx_for(SeqOf(k)) = i} \cup {0}
<1>1. S \in SUBSET Nat /\ S # {} /\ Start \in Nat /\ \A x \in S : x <= Start
  BY Consts
<1>2. \A x \in S : x = 0 \/ (x \in 1 .. Start /\ IdxAt(x) = i)
  BY DEF IdxAt
<1>3. \A k \in 1 .. Start : IdxAt(k) = i => k \in S
  BY DEF IdxAt
<1>4. /\ Before(SlotSeq(i)) = SeqOf(Max(S)) /\ Before(Lo(i)) = Max(S) /\ Before(Hi(i)) = Max(S)
  <2>1. /\ SlotSeq(i)[1] = "slot_seq" /\ Lo(i)[1] = "lo" /\ Hi(i)[1] = "hi"
        /\ SlotSeq(i)[2] = i /\ Lo(i)[2] = i /\ Hi(i)[2] = i
    BY DEF SlotSeq, Lo, Hi
  <2>2. SlotSeq(i) # Published /\ Lo(i) # Published /\ Hi(i) # Published
    BY Locations
  <2> QED BY <2>1, <2>2 DEF Before
<1> HIDE DEF S
<1>5. Max(S) \in S /\ \A x \in S : x <= Max(S)
  BY <1>1, MaxBounded
<1>6. Base(i) = Max(S)
  BY <1>4 DEF Base
<1>7. Max(S) \in 0 .. Start
  <2>1. 0 \in 0 .. Start /\ 1 .. Start \subseteq 0 .. Start
    BY <1>1
  <2> QED BY <1>2, <1>5, <2>1
<1> QED BY <1>2, <1>3, <1>4, <1>5, <1>6, <1>7

\* A load of loc returns a store to loc, none older than the reader's view of loc,
\* nor than any store to loc among the first p.
LEMMA VisibleStore ==
    ASSUME Inv, NEW loc \in Locs, NEW p \in 0 .. Len(log), NEW j \in Visible(loc, p)
    PROVE  /\ j \in 0 .. Len(log) /\ (j # 0 => log[j].loc = loc)
           /\ cview[loc] <= j
           /\ \A h \in 1 .. Len(log) : log[h].loc = loc /\ h <= p => h <= j
<1> DEFINE at == {h \in 1 .. Len(log) : log[h].loc = loc} \cup {0}
           S == {h \in at : h <= p} \cup {cview[loc]}
<1>1. Len(log) \in Nat /\ cview[loc] \in 0 .. Len(log)
  BY DEF Inv, TypeOK, Logged
<1>2. j \in at /\ Max(S) <= j
  BY DEF Visible
<1>3. S \in SUBSET Nat /\ S # {} /\ \A x \in S : x <= Len(log)
  BY <1>1
<1>4. Max(S) \in S /\ \A x \in S : x <= Max(S)
  BY <1>1, <1>3, MaxBounded
<1>5. \A x \in S : x <= j
  BY <1>1, <1>2, <1>3, <1>4
<1> QED BY <1>1, <1>2, <1>5

\* The types the steps use.
LEMMA Types ==
    ASSUME Inv
    PROVE  /\ pushes \in Nat /\ Start \in Nat /\ Begun \in Nat /\ Len(log) \in Nat
           /\ Stored \in 0 .. 4 /\ Len(log) = 5 * pushes + Stored
           /\ Begun = Start + pushes + (IF Stored = 0 THEN 0 ELSE 1)
           /\ known \in 0 .. Len(log) /\ acquired \in 0 .. Len(log)
           /\ cview \in [Locs -> 0 .. Len(log)]
           /\ \A j \in 1 .. Len(log) : log[j].val \in Nat /\ log[j].rel \in 0 .. Len(log)
           /\ target \in Int
<1>1. TypeOK /\ Logged /\ Producing /\ Locals
  BY DEF Inv
<1>2. pushes \in Nat /\ Start \in Nat /\ ppc \in {"idle", "lo", "hi", "seq", "pub"}
  BY <1>1, Consts DEF TypeOK, Producing
<1>3. Stored \in 0 .. 4 /\ (Stored = 0 <=> ppc = "idle")
  BY <1>2 DEF Stored
<1>4. Len(log) = 5 * pushes + Stored
  BY <1>1 DEF Logged
<1>5. Begun = Start + pushes + (IF Stored = 0 THEN 0 ELSE 1) /\ Begun \in Nat
  BY <1>2, <1>3 DEF Begun
<1>6. \A j \in 1 .. Len(log) : log[j] \in [loc : Locs, val : Nat, rel : Nat]
  <2> DEFINE S == [loc : Locs, val : Nat, rel : Nat]
  <2>1. log \in Seq(S)
    BY <1>1 DEF Logged
  <2> HIDE DEF S
  <2>2. \A j \in 1 .. Len(log) : log[j] \in S
    BY <2>1
  <2> QED BY <2>2 DEF S
<1>7. \A j \in 1 .. Len(log) : log[j].val \in Nat /\ log[j].rel \in 0 .. Len(log)
  BY <1>1, <1>6 DEF TypeOK
<1>8. target \in 0 .. Modulus - 1 /\ Modulus \in Nat
  BY <1>1, Consts DEF TypeOK
<1>9. known \in 0 .. Len(log) /\ acquired \in 0 .. Len(log) /\ cview \in [Locs -> 0 .. Len(log)]
  BY <1>1 DEF TypeOK, Locals
<1> QED BY <1>2, <1>3, <1>4, <1>5, <1>7, <1>8, <1>9

\* Where the stores of push a stand.
LEMMA StoresOf ==
    ASSUME Inv, NEW a \in Nat, a > Start, NEW j \in 1 .. Len(log)
    PROVE  /\ j = 5 * (a - Start) - 4 => log[j].loc = SlotSeq(IdxAt(a)) /\ log[j].val = 0
           /\ j = 5 * (a - Start) - 3 => /\ log[j].loc = Lo(IdxAt(a)) /\ log[j].val = a
                                         /\ log[j].rel = 5 * (a - Start) - 4
           /\ j = 5 * (a - Start) - 2 => /\ log[j].loc = Hi(IdxAt(a)) /\ log[j].val = a
                                         /\ log[j].rel = 5 * (a - Start) - 4
           /\ j = 5 * (a - Start) - 1 => /\ log[j].loc = SlotSeq(IdxAt(a))
                                         /\ log[j].val = SeqOf(a) /\ log[j].rel = j
           /\ j = 5 * (a - Start) => /\ log[j].loc = Published
                                     /\ log[j].val = SeqOf(a) /\ log[j].rel = j
           /\ 5 * (a - Start) - 4 <= j => a <= Begun
<1>1. /\ pushes \in Nat /\ Start \in Nat /\ Stored \in 0 .. 4 /\ Len(log) = 5 * pushes + Stored
      /\ Begun = Start + pushes + (IF Stored = 0 THEN 0 ELSE 1)
  BY Types
<1>2. PICK k \in Nat \ {0} : k = a - Start
  BY <1>1
<1>a. a = Start + k
  BY <1>1, <1>2
<1>3. ASSUME 5 * k - 4 <= j PROVE k \in 1 .. pushes + 1 /\ a <= Begun
  BY <1>1, <1>a, <1>3
<1>4. ASSUME k \in 1 .. pushes + 1
      PROVE  LET i == IdxAt(Start + k)
             IN  /\ 5 * k - 4 <= Len(log) => /\ log[5 * k - 4].loc = SlotSeq(i)
                                             /\ log[5 * k - 4].val = 0
                 /\ 5 * k - 3 <= Len(log) =>
                     log[5 * k - 3] = [loc |-> Lo(i), val |-> Start + k, rel |-> 5 * k - 4]
                 /\ 5 * k - 2 <= Len(log) =>
                     log[5 * k - 2] = [loc |-> Hi(i), val |-> Start + k, rel |-> 5 * k - 4]
                 /\ 5 * k - 1 <= Len(log) =>
                     log[5 * k - 1] = [loc |-> SlotSeq(i), val |-> SeqOf(Start + k), rel |-> 5 * k - 1]
                 /\ 5 * k <= Len(log) =>
                     log[5 * k] = [loc |-> Published, val |-> SeqOf(Start + k), rel |-> 5 * k]
  BY <1>4 DEF Inv, Logged
<1>5. j <= Len(log) /\ j \in Int
  BY <1>1
<1>6. ASSUME k \in 1 .. pushes + 1
      PROVE  /\ j = 5 * k - 4 => log[j].loc = SlotSeq(IdxAt(a)) /\ log[j].val = 0
             /\ j = 5 * k - 3 => /\ log[j].loc = Lo(IdxAt(a)) /\ log[j].val = a
                                 /\ log[j].rel = 5 * k - 4
             /\ j = 5 * k - 2 => /\ log[j].loc = Hi(IdxAt(a)) /\ log[j].val = a
                                 /\ log[j].rel = 5 * k - 4
             /\ j = 5 * k - 1 => /\ log[j].loc = SlotSeq(IdxAt(a))
                                 /\ log[j].val = SeqOf(a) /\ log[j].rel = j
             /\ j = 5 * k => log[j].loc = Published /\ log[j].val = SeqOf(a) /\ log[j].rel = j
  BY <1>a, <1>4, <1>5, <1>6, SMTT(30)
<1>7. CASE 5 * k - 4 <= j
  BY <1>2, <1>3, <1>6, <1>7
<1>8. CASE ~(5 * k - 4 <= j)
  BY <1>2, <1>5, <1>8
<1> QED BY <1>7, <1>8

\* Every store is one of the five of some push.
LEMMA StoreIs ==
    ASSUME Inv, NEW j \in 1 .. Len(log)
    PROVE  \E a \in Nat : /\ a > Start /\ a <= Begun
                          /\ \/ j = 5 * (a - Start) - 4 \/ j = 5 * (a - Start) - 3
                             \/ j = 5 * (a - Start) - 2 \/ j = 5 * (a - Start) - 1
                             \/ j = 5 * (a - Start) /\ a <= Start + pushes
<1>1. /\ pushes \in Nat /\ Start \in Nat /\ Stored \in 0 .. 4 /\ Len(log) = 5 * pushes + Stored
      /\ Begun = Start + pushes + (IF Stored = 0 THEN 0 ELSE 1)
  BY Types
<1>2. PICK c \in Nat : c = j - 1
  BY <1>1
<1>3. PICK q \in Int, r \in 0 .. 4 : c = 5 * q + r
  <2>1. c \in Int /\ 5 \in Nat \ {0}
    OBVIOUS
  <2>2. PICK q \in Int : c = 5 * q + (c % 5)
    BY ONLY <2>1, DivMod
  <2>3. c % 5 \in 0 .. 5 - 1
    BY ONLY <2>1, ModRange
  <2> QED BY <2>2, <2>3
<1>4. q \in Nat /\ Start + q + 1 \in Nat
  BY <1>1, <1>3
<1>5. PICK a \in Nat : a = Start + q + 1
  BY <1>4
<1>6. j = 5 * (a - Start) - 4 + r /\ a > Start /\ a <= Begun /\ (r = 4 => a <= Start + pushes)
  BY <1>1, <1>2, <1>3, <1>4, <1>5
<1>7. r = 0 \/ r = 1 \/ r = 2 \/ r = 3 \/ r = 4
  OBVIOUS
<1>8. \/ j = 5 * (a - Start) - 4 \/ j = 5 * (a - Start) - 3
      \/ j = 5 * (a - Start) - 2 \/ j = 5 * (a - Start) - 1
      \/ j = 5 * (a - Start) /\ a <= Start + pushes
  BY <1>1, <1>6, <1>7
<1> QED BY <1>6, <1>8

\* What a load of published_seq returns.
LEMMA ReadPublished ==
    ASSUME Inv, NEW j \in Visible(Published, known)
    PROVE  \E A \in Nat : /\ Start <= A /\ A <= Begun /\ A <= Start + pushes
                          /\ j = 5 * (A - Start) /\ j \in 0 .. Len(log) /\ cview[Published] <= j
                          /\ StoreAt(Published, j).val = SeqOf(A)
                          /\ StoreAt(Published, j).rel = j /\ AbsAt(j) = A
<1>0. /\ pushes \in Nat /\ Start \in Nat /\ Stored \in 0 .. 4 /\ Len(log) = 5 * pushes + Stored
      /\ Begun = Start + pushes + (IF Stored = 0 THEN 0 ELSE 1) /\ known \in 0 .. Len(log)
  BY Types
<1>1. j \in 0 .. Len(log) /\ (j # 0 => log[j].loc = Published) /\ cview[Published] <= j
  BY <1>0, Locations, VisibleStore
<1>2. \A m \in 0 .. Len(log), k \in 0 .. pushes :
            5 * k <= m /\ m < 5 * k + 5 => AbsAt(m) = Start + k
  BY DEF Inv, Numbered
<1>3. CASE j = 0
  <2>1. AbsAt(j) = Start
    BY <1>0, <1>1, <1>2, <1>3
  <2>2. StoreAt(Published, j).val = SeqOf(Start) /\ StoreAt(Published, j).rel = 0
    BY <1>3 DEF StoreAt, Before
  <2>3. j = 5 * (Start - Start) /\ Start <= Begun /\ Start <= Start + pushes
    BY <1>0, <1>3
  <2> QED BY <1>0, <1>1, <1>3, <2>1, <2>2, <2>3
<1>4. CASE j # 0
  <2>0. j \in 1 .. Len(log)
    BY <1>0, <1>1, <1>4
  <2>1. PICK a \in Nat : /\ a > Start /\ a <= Begun
                         /\ \/ j = 5 * (a - Start) - 4 \/ j = 5 * (a - Start) - 3
                            \/ j = 5 * (a - Start) - 2 \/ j = 5 * (a - Start) - 1
                            \/ j = 5 * (a - Start) /\ a <= Start + pushes
    BY <2>0, StoreIs
  <2>2. j = 5 * (a - Start) /\ a <= Start + pushes
    BY <1>1, <1>4, <2>0, <2>1, StoresOf, Locations
  <2>3. log[j].val = SeqOf(a) /\ log[j].rel = j
    BY <2>0, <2>1, <2>2, StoresOf
  <2>4. AbsAt(j) = a
    <3>1. a - Start \in 0 .. pushes /\ 5 * (a - Start) <= j /\ j < 5 * (a - Start) + 5
      BY <1>0, <2>1, <2>2
    <3>2. AbsAt(j) = Start + (a - Start)
      BY <1>1, <1>2, <3>1
    <3> QED BY <1>0, <3>2
  <2>5. StoreAt(Published, j) = log[j]
    BY <1>4 DEF StoreAt
  <2> QED BY <1>0, <1>1, <2>1, <2>2, <2>3, <2>4, <2>5
<1> QED BY <1>3, <1>4

\* What a load of slot i's sequence returns: the sequence of push A, or its
\* invalidation; never one older than a push the reader is obliged to see.
LEMMA ReadSlot ==
    ASSUME Inv, NEW i \in 0 .. N - 1, NEW p \in 0 .. Len(log), NEW j \in Visible(SlotSeq(i), p)
    PROVE  \E A \in Nat :
            /\ A <= Begun /\ (A <= Start => A = Base(i) /\ j = 0)
            /\ A > Start => IdxAt(A) = i /\ 5 * (A - Start) - 4 <= j /\ j <= 5 * (A - Start) - 1
            /\ j \in 0 .. Len(log) /\ cview[SlotSeq(i)] <= j
            /\ StoreAt(SlotSeq(i), j).rel \in 0 .. Len(log)
            /\ \/ /\ StoreAt(SlotSeq(i), j).val = SeqOf(A) /\ StoreAt(SlotSeq(i), j).rel = j
                  /\ j = SeqPos(A) /\ (j # 0 => AbsAt(j) + 1 = A)
               \/ A > Start /\ StoreAt(SlotSeq(i), j).val = 0 /\ j = 5 * (A - Start) - 4
            /\ \A a \in Nat : a > Start /\ IdxAt(a) = i =>
                    /\ 5 * (a - Start) - 1 <= p => 5 * (a - Start) - 1 <= j
                    /\ 5 * (a - Start) - 4 <= p => 5 * (a - Start) - 4 <= j
<1>0. /\ pushes \in Nat /\ Start \in Nat /\ Stored \in 0 .. 4 /\ Len(log) = 5 * pushes + Stored
      /\ Begun = Start + pushes + (IF Stored = 0 THEN 0 ELSE 1) /\ Len(log) \in Nat
      /\ SlotSeq(i) \in Locs
  BY Types, Locations
<1>1. j \in 0 .. Len(log) /\ (j # 0 => log[j].loc = SlotSeq(i)) /\ cview[SlotSeq(i)] <= j
      /\ \A h \in 1 .. Len(log) : log[h].loc = SlotSeq(i) /\ h <= p => h <= j
  BY <1>0, VisibleStore
<1>2. ASSUME NEW a \in Nat, a > Start, IdxAt(a) = i
      PROVE  /\ 5 * (a - Start) - 1 <= p => 5 * (a - Start) - 1 <= j
             /\ 5 * (a - Start) - 4 <= p => 5 * (a - Start) - 4 <= j
  <2>1. PICK k \in Nat \ {0} : k = a - Start
    BY <1>0, <1>2
  <2>2. 5 * k - 1 <= p => 5 * k - 1 \in 1 .. Len(log) /\ log[5 * k - 1].loc = SlotSeq(i)
    BY <1>0, <1>2, <2>1, StoresOf
  <2>3. 5 * k - 4 <= p => 5 * k - 4 \in 1 .. Len(log) /\ log[5 * k - 4].loc = SlotSeq(i)
    BY <1>0, <1>2, <2>1, StoresOf
  <2> QED BY <1>1, <2>1, <2>2, <2>3
<1>3. CASE j = 0
  <2>1. Base(i) \in 0 .. Start /\ Before(SlotSeq(i)) = SeqOf(Base(i))
    BY BaseFacts
  <2>2. PICK A \in Nat : A = Base(i) /\ A <= Start /\ A <= Begun
    BY <1>0, <2>1
  <2>3. StoreAt(SlotSeq(i), j).val = SeqOf(A) /\ StoreAt(SlotSeq(i), j).rel = j /\ j = SeqPos(A)
    BY <1>3, <2>1, <2>2 DEF StoreAt, SeqPos
  <2>4. ~(A > Start)
    BY <1>0, <2>2
  <2>5. StoreAt(SlotSeq(i), j).rel \in 0 .. Len(log)
    BY <1>1, <2>3
  <2> QED BY <1>1, <1>2, <1>3, <2>2, <2>3, <2>4, <2>5
<1>4. CASE j # 0
  <2>0. j \in 1 .. Len(log)
    BY <1>0, <1>1, <1>4
  <2>1. PICK a \in Nat : /\ a > Start /\ a <= Begun
                         /\ \/ j = 5 * (a - Start) - 4 \/ j = 5 * (a - Start) - 3
                            \/ j = 5 * (a - Start) - 2 \/ j = 5 * (a - Start) - 1
                            \/ j = 5 * (a - Start) /\ a <= Start + pushes
    BY <2>0, StoreIs
  <2>2. j = 5 * (a - Start) - 4 \/ j = 5 * (a - Start) - 1
    BY <1>1, <1>4, <2>0, <2>1, StoresOf, Locations
  <2>3. StoreAt(SlotSeq(i), j) = log[j]
    BY <1>4 DEF StoreAt
  <2>4. IdxAt(a) = i
    BY <1>1, <1>4, <2>0, <2>1, <2>2, StoresOf, Locations
  <2>5. log[j].rel \in 0 .. Len(log)
    BY <2>0, Types
  <2>6. \/ log[j].val = SeqOf(a) /\ log[j].rel = j /\ j = SeqPos(a) /\ AbsAt(j) + 1 = a
        \/ a > Start /\ log[j].val = 0 /\ j = 5 * (a - Start) - 4
    <3>1. CASE j = 5 * (a - Start) - 4
      BY <2>0, <2>1, <3>1, StoresOf
    <3>2. CASE j = 5 * (a - Start) - 1
      <4>1. log[j].val = SeqOf(a) /\ log[j].rel = j
        BY <2>0, <2>1, <3>2, StoresOf
      <4>2. j = SeqPos(a)
        BY <1>0, <2>1, <3>2 DEF SeqPos
      <4>3. PICK k \in 0 .. pushes : k = a - Start - 1
        BY <1>0, <2>0, <2>1, <3>2
      <4>4. AbsAt(j) = Start + k
        <5>1. 5 * k <= j /\ j < 5 * k + 5
          BY <1>0, <3>2, <4>3
        <5> QED BY <1>1, <5>1 DEF Inv, Numbered
      <4>5. AbsAt(j) + 1 = a
        BY <1>0, <4>3, <4>4
      <4> QED BY <4>1, <4>2, <4>5
    <3> QED BY <2>2, <3>1, <3>2
  <2>7. 5 * (a - Start) - 4 <= j /\ j <= 5 * (a - Start) - 1 /\ ~(a <= Start)
    BY <1>0, <2>1, <2>2
  <2> QED BY <1>1, <1>2, <2>1, <2>3, <2>4, <2>5, <2>6, <2>7
<1> QED BY <1>3, <1>4

\* What a load of a payload word returns.
LEMMA ReadWord ==
    ASSUME Inv, NEW i \in 0 .. N - 1, NEW loc \in {Lo(i), Hi(i)}, NEW j \in Visible(loc, known)
    PROVE  \E A \in Nat :
            /\ StoreAt(loc, j).val = A /\ A <= Begun /\ (A <= Start => A = Base(i))
            /\ StoreAt(loc, j).rel \in 0 .. Len(log) /\ j \in 0 .. Len(log)
            /\ A > Start => IdxAt(A) = i /\ StoreAt(loc, j).rel = 5 * (A - Start) - 4
            /\ \A a \in Nat : a > Start /\ IdxAt(a) = i /\ 5 * (a - Start) - 1 <= known => a <= A
<1>0. /\ pushes \in Nat /\ Start \in Nat /\ Stored \in 0 .. 4 /\ Len(log) = 5 * pushes + Stored
      /\ Begun = Start + pushes + (IF Stored = 0 THEN 0 ELSE 1) /\ Len(log) \in Nat
      /\ known \in 0 .. Len(log) /\ loc \in Locs
  BY Types, Locations
<1>1. j \in 0 .. Len(log) /\ (j # 0 => log[j].loc = loc)
      /\ \A h \in 1 .. Len(log) : log[h].loc = loc /\ h <= known => h <= j
  BY <1>0, VisibleStore
\* A push whose sequence is known has its words known.
<1>2. ASSUME NEW a \in Nat, a > Start, IdxAt(a) = i, 5 * (a - Start) - 1 <= known
      PROVE  5 * (a - Start) - 3 <= j
  <2>1. PICK k \in Nat \ {0} : k = a - Start
    BY <1>0, <1>2
  <2>2. 5 * k - 3 \in 1 .. Len(log) /\ 5 * k - 2 \in 1 .. Len(log)
        /\ 5 * k - 3 <= known /\ 5 * k - 2 <= known
    BY <1>0, <1>2, <2>1
  <2>3. log[5 * k - 3].loc = Lo(i) /\ log[5 * k - 2].loc = Hi(i)
    BY <1>2, <2>1, <2>2, StoresOf
  <2>4. 5 * k - 3 <= j \/ 5 * k - 2 <= j
    BY <1>1, <2>2, <2>3
  <2> QED BY <1>1, <2>1, <2>4
<1>3. CASE j = 0
  <2>1. PICK A \in Nat : A = Base(i) /\ A <= Start /\ A <= Begun
                         /\ Before(Lo(i)) = A /\ Before(Hi(i)) = A
    <3>1. Base(i) \in 0 .. Start /\ Before(Lo(i)) = Base(i) /\ Before(Hi(i)) = Base(i)
      BY BaseFacts
    <3> QED BY <1>0, <3>1
  <2>2. StoreAt(loc, j).val = A /\ StoreAt(loc, j).rel = 0
    BY <1>3, <2>1 DEF StoreAt
  <2>3. ~(A > Start) /\ 0 \in 0 .. Len(log)
    BY <1>0, <2>1
  <2>4. \A a \in Nat : ~(a > Start /\ IdxAt(a) = i /\ 5 * (a - Start) - 1 <= known)
    <3> SUFFICES ASSUME NEW a \in Nat, a > Start, IdxAt(a) = i, 5 * (a - Start) - 1 <= known
                 PROVE  FALSE
      OBVIOUS
    <3>1. 5 * (a - Start) - 3 <= j
      BY <1>2
    <3> QED BY <1>0, <1>3, <3>1
  <2> QED BY <1>1, <2>1, <2>2, <2>3, <2>4
<1>4. CASE j # 0
  <2>0. j \in 1 .. Len(log)
    BY <1>0, <1>1, <1>4
  <2>1. PICK A \in Nat : /\ A > Start /\ A <= Begun
                         /\ \/ j = 5 * (A - Start) - 4 \/ j = 5 * (A - Start) - 3
                            \/ j = 5 * (A - Start) - 2 \/ j = 5 * (A - Start) - 1
                            \/ j = 5 * (A - Start) /\ A <= Start + pushes
    BY <2>0, StoreIs
  <2>2. j = 5 * (A - Start) - 3 \/ j = 5 * (A - Start) - 2
    BY <1>1, <1>4, <2>0, <2>1, StoresOf, Locations
  <2>3. StoreAt(loc, j) = log[j]
    BY <1>4 DEF StoreAt
  <2>4. IdxAt(A) = i
    BY <1>1, <1>4, <2>0, <2>1, <2>2, StoresOf, Locations
  <2>5. log[j].rel = 5 * (A - Start) - 4 /\ log[j].val = A
    BY <2>0, <2>1, <2>2, StoresOf
  <2>6. log[j].rel \in 0 .. Len(log)
    BY <2>0, Types
  <2>7. \A a \in Nat : a > Start /\ IdxAt(a) = i /\ 5 * (a - Start) - 1 <= known => a <= A
    <3> SUFFICES ASSUME NEW a \in Nat, a > Start, IdxAt(a) = i, 5 * (a - Start) - 1 <= known
                 PROVE  a <= A
      OBVIOUS
    <3>1. 5 * (a - Start) - 3 <= j
      BY <1>2
    <3> QED BY <1>0, <2>1, <2>2, <3>1
  <2>8. ~(A <= Start)
    BY <1>0, <2>1
  <2> QED BY <1>1, <2>1, <2>3, <2>4, <2>5, <2>6, <2>7, <2>8
<1> QED BY <1>3, <1>4

-----------------------------------------------------------------------------
(* The initial state.                                                      *)

\* The log begins with one store per location, and each is the newest of its
\* location.
LEMMA InitInv == ASSUME Init PROVE Inv
<1>1. /\ Start \in Nat /\ Modulus \in Nat \ {0} /\ SeqOf(Start) \in 0 .. Modulus - 1
      /\ UsizeMax \in Nat
  <2>1. Start \in Nat /\ Modulus = Span + 1 /\ Span \in Nat \ {0} /\ UsizeMax \in Nat
    BY Consts
  <2>2. SeqOf(Start) \in 0 .. Span
    BY <2>1, SeqForm
  <2> QED BY <2>1, <2>2
<1>2. Len(log) = 0 /\ log \in Seq([loc : Locs, val : Nat, rel : Nat]) /\ Stored = 0
      /\ Begun = Start
  BY <1>1 DEF Init, Stored, Begun
<1>3. TypeOK
  BY <1>1, <1>2 DEF Init, TypeOK
<1>4. Logged
  BY <1>2 DEF Init, Logged
<1>5. Producing
  BY <1>1, <1>2 DEF Init, Producing
<1>6. Numbered
  <2>1. ASSUME NEW j \in 0 .. Len(log), NEW k \in 0 .. pushes PROVE AbsAt(j) = Start + k
    <3>1. j = 0 /\ k = 0
      BY <1>2, <2>1 DEF Init
    <3>2. {i \in 1 .. 0 : log[i].loc = Published} = {}
      OBVIOUS
    <3>3. AbsAt(0) = Start
      BY <1>1, <3>2, FS_EmptySet DEF AbsAt
    <3> QED BY <1>1, <3>1, <3>3
  <2> QED BY <2>1 DEF Numbered
<1>7. Cursor /\ Sampled /\ Copying /\ GenuineItem
  BY DEF Init, Cursor, Sampled, Copying, GenuineItem
<1>8. Locals
  <2>1. <<0, 0>> \in [1 .. 2 -> Nat]
    <3>1. Len(<<0, 0>>) = 2 /\ <<0, 0>>[1] = 0 /\ <<0, 0>>[2] = 0
      OBVIOUS
    <3> QED OBVIOUS
  <2> QED BY <1>2, <2>1 DEF Init, Locals
<1> QED BY <1>3, <1>4, <1>5, <1>6, <1>7, <1>8 DEF Inv

-----------------------------------------------------------------------------
(* Producer::push.                                                         *)

\* What the producer leaves alone.
consumerVars == <<handleVars, callVars, known, cview, cpc, losses, got>>

\* What a store of push does to the log and to the consumer.
LEMMA StoreStep ==
    ASSUME Inv, NEW e \in [loc : Locs, val : Nat, rel : 0 .. Len(log) + 1],
           log' = Append(log, e), UNCHANGED consumerVars,
           pushes' \in Nat, ppc' \in {"idle", "lo", "hi", "seq", "pub"},
           Len(log) + 1 = 5 * pushes' + Stored', Begun <= Begun', Begun' \in Nat,
           pushes' = IF e.loc = Published THEN pushes + 1 ELSE pushes
    PROVE  /\ Len(log') = Len(log) + 1 /\ log' \in Seq([loc : Locs, val : Nat, rel : Nat])
           /\ \A j \in 1 .. Len(log) : log'[j] = log[j]
           /\ log'[Len(log) + 1] = e
           /\ \A j \in 1 .. Len(log') : log'[j].loc \in Locs /\ log'[j].rel \in 0 .. Len(log')
           /\ known \in 0 .. Len(log') /\ cview \in [Locs -> 0 .. Len(log')]
           /\ Numbered' /\ Cursor' /\ Locals' /\ Sampled' /\ Copying' /\ GenuineItem'
<1> DEFINE E == [loc : Locs, val : Nat, rel : Nat]
<1>1. /\ pushes \in Nat /\ Start \in Nat /\ Stored \in 0 .. 4 /\ Len(log) = 5 * pushes + Stored
      /\ known \in 0 .. Len(log) /\ acquired \in 0 .. Len(log) /\ Len(log) \in Nat
      /\ cview \in [Locs -> 0 .. Len(log)] /\ Begun \in Nat
  BY Types
<1>2. log \in Seq(E) /\ e \in E
  <2>1. log \in Seq(E)
    BY DEF Inv, Logged
  <2>2. 0 .. Len(log) + 1 \subseteq Nat
    BY <1>1
  <2> QED BY <2>1, <2>2
<1>3. /\ Len(log') = Len(log) + 1 /\ log' \in Seq(E)
      /\ \A j \in 1 .. Len(log) : log'[j] = log[j]
      /\ log'[Len(log) + 1] = e
  <2> HIDE DEF E
  <2> QED BY <1>2
<1>4. \A j \in 1 .. Len(log') : log'[j].loc \in Locs /\ log'[j].rel \in 0 .. Len(log')
  <2> SUFFICES ASSUME NEW j \in 1 .. Len(log')
               PROVE  log'[j].loc \in Locs /\ log'[j].rel \in 0 .. Len(log')
    OBVIOUS
  <2>1. CASE j \in 1 .. Len(log)
    <3>1. log[j].loc \in Locs /\ log[j].rel \in 0 .. Len(log)
      BY <2>1 DEF Inv, TypeOK
    <3>2. log'[j] = log[j] /\ Len(log') = Len(log) + 1
      BY <1>3, <2>1
    <3> QED BY <1>1, <3>1, <3>2
  <2>2. CASE j = Len(log) + 1
    <3>1. log'[j] = e /\ Len(log') = Len(log) + 1 /\ e.loc \in Locs /\ e.rel \in 0 .. Len(log) + 1
      BY <1>3, <2>2
    <3> QED BY <3>1
  <2>3. j \in 1 .. Len(log) \/ j = Len(log) + 1
    BY <1>1, <1>3
  <2> QED BY <2>1, <2>2, <2>3
<1>5. known \in 0 .. Len(log') /\ cview \in [Locs -> 0 .. Len(log')]
  <2>1. 0 .. Len(log) \subseteq 0 .. Len(log')
    BY <1>1, <1>3
  <2> QED BY <1>1, <2>1
<1>6. Numbered'
  <2> DEFINE At(l, m) == {i \in 1 .. m : l[i].loc = Published}
  <2>0. /\ pushes' \in Nat /\ Stored' \in 0 .. 4 /\ Len(log) + 1 = 5 * pushes' + Stored'
        /\ pushes \in Nat /\ Stored \in 0 .. 4 /\ Len(log) = 5 * pushes + Stored
        /\ Len(log') = Len(log) + 1 /\ Len(log) \in Nat
    <3>1. Stored' \in 0 .. 4
      BY DEF Stored
    <3> QED BY <1>1, <1>3, <3>1
  <2>1. ASSUME NEW m \in 0 .. Len(log) PROVE At(log', m) = At(log, m)
    <3>1. \A i \in 1 .. m : i \in 1 .. Len(log)
      BY <2>0
    <3>2. \A i \in 1 .. m : log'[i] = log[i]
      BY <1>3, <3>1
    <3> QED BY ONLY <3>2
  <2>2. \A m \in 0 .. Len(log), k \in 0 .. pushes :
            5 * k <= m /\ m < 5 * k + 5 => Start + Cardinality(At(log, m)) = Start + k
    BY DEF Inv, Numbered, AbsAt
  <2>3. ASSUME NEW j \in 0 .. Len(log'), NEW k \in 0 .. pushes', 5 * k <= j, j < 5 * k + 5
        PROVE  Start + Cardinality(At(log', j)) = Start + k
    <3>1. CASE j <= Len(log)
      <4>1. j \in 0 .. Len(log) /\ k \in 0 .. pushes
        BY ONLY <2>0, <2>3, <3>1, j \in 0 .. Len(log'), k \in 0 .. pushes'
      <4>2. At(log', j) = At(log, j)
        BY <2>1, <4>1
      <4> QED BY <2>2, <2>3, <4>1, <4>2
    <3>2. CASE j = Len(log) + 1
      <4>1. k = pushes'
        <5>1. PICK P \in Nat, s \in 0 .. 4 : P = pushes' /\ s = Stored'
          BY <2>0
        <5>2. j = 5 * P + s /\ k \in 0 .. P /\ 5 * k <= j /\ j < 5 * k + 5
          BY <2>0, <2>3, <3>2, <5>1
        <5>3. k = P
          BY ONLY <5>2, P \in Nat, s \in 0 .. 4
        <5> QED BY <5>1, <5>3
      <4>2. pushes \in 0 .. pushes /\ Len(log) \in 0 .. Len(log)
            /\ 5 * pushes <= Len(log) /\ Len(log) < 5 * pushes + 5
        BY <1>1
      <4>3. Start + Cardinality(At(log, Len(log))) = Start + pushes
        BY <2>2, <4>2
      <4>4. At(log', Len(log)) = At(log, Len(log))
        BY <1>1, <2>1
      <4>5. IsFiniteSet(At(log, Len(log))) /\ Cardinality(At(log, Len(log))) \in Nat
        <5>1. IsFiniteSet(1 .. Len(log)) /\ At(log, Len(log)) \subseteq 1 .. Len(log)
          BY <1>1, FS_Interval
        <5> HIDE DEF At
        <5>2. IsFiniteSet(At(log, Len(log)))
          BY <5>1, FS_Subset
        <5> QED BY <5>2, FS_CardinalityType
      <4>6. CASE e.loc = Published
        <5>0. 1 .. j = 1 .. Len(log) \cup {j} /\ log'[j].loc = Published
          BY <1>1, <1>3, <3>2, <4>6
        <5>1. At(log', j) = At(log', Len(log)) \cup {j}
          BY ONLY <5>0
        <5>2. j \notin At(log, Len(log))
          BY <1>1, <3>2
        <5> HIDE DEF At
        <5>3. At(log', j) = At(log, Len(log)) \cup {j}
          BY <4>4, <5>1
        <5>4. Cardinality(At(log', j)) = Cardinality(At(log, Len(log))) + 1
          BY <4>5, <5>2, <5>3, FS_AddElement, ZenonT(30)
        <5>5. PICK c \in Nat : c = Cardinality(At(log, Len(log)))
          BY <4>5
        <5>6. c = pushes
          <6>1. Start + c = Start + pushes
            BY <4>3, <5>5
          <6> QED BY ONLY <1>1, <6>1, c \in Nat
        <5>7. k = pushes + 1 /\ Cardinality(At(log', j)) = c + 1
          BY <4>1, <4>6, <5>4, <5>5
        <5> QED BY <5>6, <5>7
      <4>7. CASE e.loc # Published
        <5>a. j = Len(log) + 1 /\ Len(log) \in Nat
          BY <1>1, <3>2
        <5>b. 1 .. j = 1 .. Len(log) \cup {j}
          BY <5>a
        <5>c. log'[j].loc # Published
          BY <1>3, <4>7, <5>a
        <5>0. 1 .. j = 1 .. Len(log) \cup {j} /\ log'[j].loc # Published
          BY <5>b, <5>c
        <5>1. At(log', j) = At(log', Len(log))
          BY ONLY <5>0
        <5> HIDE DEF At
        <5> QED BY <4>1, <4>3, <4>4, <4>7, <5>1
      <4> QED BY <4>6, <4>7
    <3>3. j <= Len(log) \/ j = Len(log) + 1
      BY <1>1, <1>3
    <3> QED BY <3>1, <3>2, <3>3
  <2> QED BY <2>3 DEF Numbered, AbsAt
<1>7. Cursor' /\ Sampled' /\ GenuineItem'
  BY DEF Inv, consumerVars, handleVars, callVars, losses, Cursor, Sampled, GenuineItem, AtCursor,
         Wanted
<1>8. Locals'
  <2>1. acquired \in 0 .. Len(log')
    BY <1>1, <1>3
  <2> QED BY <2>1 DEF Inv, consumerVars, handleVars, callVars, losses, Locals
<1>9. Copying'
  <2>1. \A p \in 1 .. Begun : p \in 1 .. Begun'
    BY <1>1
  <2> QED BY <2>1 DEF Inv, consumerVars, handleVars, callVars, losses, Copying, Copied, Wanted, Idx
<1> QED BY <1>3, <1>4, <1>5, <1>6, <1>7, <1>8, <1>9

\* The store push makes next.
NextStore(e) ==
    LET K == pushes + 1
        i == IdxAt(Start + K)
    IN  /\ Stored = 0 => e.loc = SlotSeq(i) /\ e.val = 0
        /\ Stored = 1 => e = [loc |-> Lo(i), val |-> Start + K, rel |-> 5 * K - 4]
        /\ Stored = 2 => e = [loc |-> Hi(i), val |-> Start + K, rel |-> 5 * K - 4]
        /\ Stored = 3 => e = [loc |-> SlotSeq(i), val |-> SeqOf(Start + K), rel |-> 5 * K - 1]
        /\ Stored = 4 => e = [loc |-> Published, val |-> SeqOf(Start + K), rel |-> 5 * K]

\* The log stays what Logged says if the new store is the next one of its push.
LEMMA LogStep ==
    ASSUME Inv, Len(log') = Len(log) + 1, log' \in Seq([loc : Locs, val : Nat, rel : Nat]),
           \A j \in 1 .. Len(log) : log'[j] = log[j],
           pushes' \in {pushes, pushes + 1}, Len(log) + 1 = 5 * pushes' + Stored',
           NextStore(log'[Len(log) + 1])
    PROVE  Logged'
<1> DEFINE K == pushes + 1
           i == IdxAt(Start + K)
           e == log'[Len(log) + 1]
<1>e. /\ Stored = 0 => e.loc = SlotSeq(i) /\ e.val = 0
      /\ Stored = 1 => e = [loc |-> Lo(i), val |-> Start + K, rel |-> 5 * K - 4]
      /\ Stored = 2 => e = [loc |-> Hi(i), val |-> Start + K, rel |-> 5 * K - 4]
      /\ Stored = 3 => e = [loc |-> SlotSeq(i), val |-> SeqOf(Start + K), rel |-> 5 * K - 1]
      /\ Stored = 4 => e = [loc |-> Published, val |-> SeqOf(Start + K), rel |-> 5 * K]
  BY DEF NextStore
<1>k. K = pushes + 1 /\ i = IdxAt(Start + K) /\ e = log'[Len(log) + 1]
  OBVIOUS
<1> HIDE DEF K, i, e
<1>1. /\ pushes \in Nat /\ Start \in Nat /\ Stored \in 0 .. 4 /\ Len(log) = 5 * pushes + Stored
      /\ Len(log) \in Nat
  BY Types
<1>2. PICK P \in Nat, L \in Nat, s \in 0 .. 4 :
         P = pushes /\ L = Len(log) /\ s = Stored /\ L = 5 * P + s /\ K = P + 1
  BY <1>1, <1>k
<1>3. ASSUME NEW k \in 1 .. pushes' + 1
      PROVE  LET h == IdxAt(Start + k)
             IN  /\ 5 * k - 4 <= Len(log') => /\ log'[5 * k - 4].loc = SlotSeq(h)
                                              /\ log'[5 * k - 4].val = 0
                 /\ 5 * k - 3 <= Len(log') =>
                     log'[5 * k - 3] = [loc |-> Lo(h), val |-> Start + k, rel |-> 5 * k - 4]
                 /\ 5 * k - 2 <= Len(log') =>
                     log'[5 * k - 2] = [loc |-> Hi(h), val |-> Start + k, rel |-> 5 * k - 4]
                 /\ 5 * k - 1 <= Len(log') =>
                     log'[5 * k - 1] = [loc |-> SlotSeq(h), val |-> SeqOf(Start + k), rel |-> 5 * k - 1]
                 /\ 5 * k <= Len(log') =>
                     log'[5 * k] = [loc |-> Published, val |-> SeqOf(Start + k), rel |-> 5 * k]
  <2>0. pushes' = P \/ pushes' = P + 1
    BY <1>2
  <2>1. k \in Nat \ {0} /\ k <= P + 2
    <3>1. CASE pushes' = P
      <4>1. k \in 1 .. P + 1
        BY <3>1
      <4> QED BY ONLY <4>1, P \in Nat
    <3>2. CASE pushes' = P + 1
      <4>1. k \in 1 .. (P + 1) + 1
        BY <3>2
      <4> QED BY ONLY <4>1, P \in Nat
    <3> QED BY <2>0, <3>1, <3>2
  <2>2. Len(log') = L + 1
    BY <1>2
  <2>3. CASE k <= P
    <3>1. k \in 1 .. pushes + 1
      BY <1>2, <2>1, <2>3
    <3>2. \A c \in 0 .. 4 : 5 * k - c \in 1 .. Len(log) /\ 5 * k - c <= Len(log)
      BY <1>2, <2>1, <2>3
    <3>3. \A c \in 0 .. 4 : log'[5 * k - c] = log[5 * k - c]
      BY <3>2
    <3>4. /\ log'[5 * k - 4] = log[5 * k - 4] /\ log'[5 * k - 3] = log[5 * k - 3]
          /\ log'[5 * k - 2] = log[5 * k - 2] /\ log'[5 * k - 1] = log[5 * k - 1]
          /\ log'[5 * k] = log[5 * k]
      BY <2>1, <3>3
    <3>5. /\ 5 * k - 4 <= Len(log) /\ 5 * k - 3 <= Len(log) /\ 5 * k - 2 <= Len(log)
          /\ 5 * k - 1 <= Len(log) /\ 5 * k <= Len(log)
      <4>1. L = 5 * P + s /\ Len(log) = L
        BY <1>2
      <4> QED BY ONLY <2>1, <2>3, <4>1, P \in Nat, L \in Nat, s \in 0 .. 4
    <3> QED BY <3>1, <3>4, <3>5 DEF Inv, Logged
  <2>4. CASE k = P + 1
    <3>1. k \in 1 .. pushes + 1 /\ k = K /\ IdxAt(Start + k) = i
      BY <1>2, <1>k, <2>1, <2>4
    <3>2. LET h == IdxAt(Start + k)
          IN  /\ 5 * k - 4 <= Len(log) => /\ log[5 * k - 4].loc = SlotSeq(h)
                                          /\ log[5 * k - 4].val = 0
              /\ 5 * k - 3 <= Len(log) =>
                  log[5 * k - 3] = [loc |-> Lo(h), val |-> Start + k, rel |-> 5 * k - 4]
              /\ 5 * k - 2 <= Len(log) =>
                  log[5 * k - 2] = [loc |-> Hi(h), val |-> Start + k, rel |-> 5 * k - 4]
              /\ 5 * k - 1 <= Len(log) =>
                  log[5 * k - 1] = [loc |-> SlotSeq(h), val |-> SeqOf(Start + k), rel |-> 5 * k - 1]
      BY <3>1 DEF Inv, Logged
    <3>3. /\ 5 * k - 4 = L + 1 <=> s = 0
          /\ 5 * k - 3 = L + 1 <=> s = 1
          /\ 5 * k - 2 = L + 1 <=> s = 2
          /\ 5 * k - 1 = L + 1 <=> s = 3
          /\ 5 * k = L + 1 <=> s = 4
      BY <1>2, <2>4
    <3>4. \A c \in 0 .. 4 : 5 * k - c <= L => log'[5 * k - c] = log[5 * k - c]
      <4>1. \A c \in 0 .. 4 : 5 * k - c <= L => 5 * k - c \in 1 .. Len(log)
        BY <1>2, <2>1
      <4> QED BY <4>1
    <3>5. /\ 5 * k - 4 <= L => log'[5 * k - 4] = log[5 * k - 4]
          /\ 5 * k - 3 <= L => log'[5 * k - 3] = log[5 * k - 3]
          /\ 5 * k - 2 <= L => log'[5 * k - 2] = log[5 * k - 2]
          /\ 5 * k - 1 <= L => log'[5 * k - 1] = log[5 * k - 1]
      BY <2>1, <3>4
    <3>6. 5 * k - 4 <= Len(log') => /\ log'[5 * k - 4].loc = SlotSeq(i)
                                    /\ log'[5 * k - 4].val = 0
      <4>1. 5 * k - 4 <= L \/ 5 * k - 4 = L + 1 \/ ~(5 * k - 4 <= L + 1)
        BY ONLY <2>1, L \in Nat
      <4> QED BY <1>2, <1>e, <1>k, <2>2, <3>1, <3>2, <3>3, <3>5, <4>1
    <3>7. 5 * k - 3 <= Len(log') =>
              log'[5 * k - 3] = [loc |-> Lo(i), val |-> Start + k, rel |-> 5 * k - 4]
      <4>1. 5 * k - 3 <= L \/ 5 * k - 3 = L + 1 \/ ~(5 * k - 3 <= L + 1)
        BY ONLY <2>1, L \in Nat
      <4> QED BY <1>2, <1>e, <1>k, <2>2, <3>1, <3>2, <3>3, <3>5, <4>1
    <3>8. 5 * k - 2 <= Len(log') =>
              log'[5 * k - 2] = [loc |-> Hi(i), val |-> Start + k, rel |-> 5 * k - 4]
      <4>1. 5 * k - 2 <= L \/ 5 * k - 2 = L + 1 \/ ~(5 * k - 2 <= L + 1)
        BY ONLY <2>1, L \in Nat
      <4> QED BY <1>2, <1>e, <1>k, <2>2, <3>1, <3>2, <3>3, <3>5, <4>1, ZenonT(40)
    <3>9. 5 * k - 1 <= Len(log') =>
              log'[5 * k - 1] = [loc |-> SlotSeq(i), val |-> SeqOf(Start + k), rel |-> 5 * k - 1]
      <4>1. 5 * k - 1 <= L \/ 5 * k - 1 = L + 1 \/ ~(5 * k - 1 <= L + 1)
        BY ONLY <2>1, L \in Nat
      <4> QED BY <1>2, <1>e, <1>k, <2>2, <3>1, <3>2, <3>3, <3>5, <4>1, ZenonT(40)
    <3>10. 5 * k <= Len(log') =>
              log'[5 * k] = [loc |-> Published, val |-> SeqOf(Start + k), rel |-> 5 * k]
      <4>1. 5 * k = L + 1 \/ ~(5 * k <= L + 1)
        BY <1>2, <2>1, <2>4
      <4> QED BY <1>2, <1>e, <1>k, <2>2, <3>1, <3>3, <4>1
    <3> QED BY <3>1, <3>6, <3>7, <3>8, <3>9, <3>10
  <2>5. CASE k = P + 2
    <3>1. \A c \in 0 .. 4 : ~(5 * k - c <= L + 1)
      BY <1>2, <2>5
    <3>2. /\ ~(5 * k - 4 <= Len(log')) /\ ~(5 * k - 3 <= Len(log')) /\ ~(5 * k - 2 <= Len(log'))
          /\ ~(5 * k - 1 <= Len(log')) /\ ~(5 * k <= Len(log'))
      BY <1>2, <2>2, <2>5
    <3> QED BY <3>2
  <2>6. k <= P \/ k = P + 1 \/ k = P + 2
    BY <2>1
  <2> QED BY <2>3, <2>4, <2>5, <2>6
<1>4. Len(log') = 5 * pushes' + Stored'
  OBVIOUS
<1> QED BY <1>3, <1>4 DEF Logged

\* A store of push preserves the invariant.
LEMMA PushStep ==
    ASSUME Inv, NEW e \in [loc : Locs, val : Nat, rel : 0 .. Len(log) + 1],
           log' = Append(log, e), UNCHANGED consumerVars,
           pushes' = (IF e.loc = Published THEN pushes + 1 ELSE pushes),
           ppc' \in {"idle", "lo", "hi", "seq", "pub"},
           Len(log) + 1 = 5 * pushes' + Stored', Begun <= Begun', Begun' \in Nat,
           NextStore(e),
           Producing', {next_seq', pseq'} \subseteq 0 .. Modulus - 1,
           fenced' \in 0 .. Len(log) + 1
    PROVE  Inv'
<1>1. pushes \in Nat /\ pushes' \in Nat
  <2>1. pushes \in Nat
    BY Types
  <2> QED BY <2>1
<1>2. /\ Len(log') = Len(log) + 1 /\ log' \in Seq([loc : Locs, val : Nat, rel : Nat])
      /\ \A j \in 1 .. Len(log) : log'[j] = log[j]
      /\ log'[Len(log) + 1] = e
      /\ \A j \in 1 .. Len(log') : log'[j].loc \in Locs /\ log'[j].rel \in 0 .. Len(log')
      /\ known \in 0 .. Len(log') /\ cview \in [Locs -> 0 .. Len(log')]
      /\ Numbered' /\ Cursor' /\ Locals' /\ Sampled' /\ Copying' /\ GenuineItem'
  BY <1>1, StoreStep
<1>3. Logged'
  <2>1. NextStore(log'[Len(log) + 1]) /\ pushes' \in {pushes, pushes + 1}
    BY <1>2
  <2> HIDE DEF Inv
  <2> QED BY <1>2, <2>1, LogStep
<1>4. TypeOK'
  <2>1. TypeOK
    BY DEF Inv
  <2>2. last_seq' = last_seq /\ newest' = newest /\ target' = target /\ known' = known
        /\ cview' = cview /\ cpc' = cpc /\ dropped_accum' = dropped_accum
    BY DEF consumerVars, handleVars, callVars
  <2> QED BY <1>2, <2>1, <2>2 DEF TypeOK
<1> QED BY <1>2, <1>3, <1>4 DEF Inv

\* What a push knows of its own sequence.
LEMMA PushSeqs ==
    ASSUME Inv
    PROVE  /\ Len(log) \in Nat /\ pushes \in Nat /\ Start \in Nat
           /\ next_seq = SeqOf(Begun) /\ fenced \in 0 .. Len(log)
           /\ ppc = "idle" => /\ Begun = Start + pushes /\ Len(log) = 5 * pushes /\ Stored = 0
                              /\ Assigned = SeqOf(Begun + 1)
           /\ ppc # "idle" => /\ Begun = Start + (pushes + 1) /\ pseq = SeqOf(Begun)
                              /\ fenced = 5 * (pushes + 1) - 4 /\ producer_taken
           /\ \A k \in Nat : SeqOf(k) \in 0 .. Modulus - 1
           /\ \A k \in Nat : SeqOf(k) \in Nat /\ IdxAt(k) \in 0 .. N - 1
<1>1. Producing /\ TypeOK /\ Logged
  BY DEF Inv
<1>2. /\ Len(log) \in Nat /\ pushes \in Nat /\ Start \in Nat /\ Begun \in Nat
      /\ Stored \in 0 .. 4 /\ Len(log) = 5 * pushes + Stored
  BY Types
<1>3. Modulus = Span + 1 /\ Span \in Nat
  BY Consts
<1>4. ASSUME NEW k \in Nat PROVE SeqOf(k) \in 0 .. Modulus - 1 /\ SeqOf(k) \in Nat
  <2>1. SeqOf(k) \in 0 .. Span
    BY SeqForm
  <2> QED BY <1>3, <2>1
<1>5. Assigned = SeqOf(Begun + 1)
  <2>1. next_seq = SeqOf(Begun)
    BY <1>1 DEF Producing
  <2> QED BY <1>2, <2>1, SeqNext DEF Assigned, AtCursor
<1>6. ppc = "idle" => Begun = Start + pushes /\ Stored = 0
  BY <1>2 DEF Begun, Stored
<1>7. ppc # "idle" => Begun = Start + (pushes + 1)
  BY <1>2 DEF Begun
<1>8. ASSUME ppc # "idle" PROVE fenced = 5 * (pushes + 1) - 4 /\ pseq = SeqOf(Begun) /\ producer_taken
  <2>1. fenced = 5 * pushes + 1 /\ pseq = SeqOf(Begun) /\ producer_taken
    BY <1>1, <1>8 DEF Producing
  <2> QED BY <1>2, <2>1
<1>9. ASSUME ppc = "idle" PROVE Len(log) = 5 * pushes
  BY <1>2, <1>6, <1>9
<1>10. next_seq = SeqOf(Begun) /\ fenced \in 0 .. Len(log)
  BY <1>1 DEF Producing, TypeOK
<1>11. \A k \in Nat : IdxAt(k) \in 0 .. N - 1
  BY Slots
<1> QED BY <1>2, <1>4, <1>5, <1>6, <1>7, <1>8, <1>9, <1>10, <1>11

\* push first marks its slot invalid; the store it appends is the first of five.
LEMMA InvalidateInv == ASSUME Inv, PushInvalidate PROVE Inv'
<1> DEFINE K == pushes + 1
           i == IdxAt(Start + K)
           e == [loc |-> SlotSeq(i), val |-> 0, rel |-> fenced]
<1>1. /\ Len(log) \in Nat /\ pushes \in Nat /\ Start \in Nat /\ fenced \in 0 .. Len(log)
      /\ Begun = Start + pushes /\ Len(log) = 5 * pushes /\ Stored = 0 /\ Begun \in Nat
      /\ Assigned = SeqOf(Begun + 1)
  BY PushSeqs, Types DEF PushInvalidate
<1>2. Begun + 1 = Start + K /\ Start + K \in Nat /\ Assigned = SeqOf(Start + K)
  <2>1. Begun + 1 = Start + K /\ Start + K \in Nat
    BY <1>1
  <2> QED BY <1>1, <2>1
<1>3. i \in 0 .. N - 1 /\ SlotSeq(i) \in Locs /\ SlotSeq(i) # Published
      /\ SeqOf(Start + K) \in 0 .. Modulus - 1
  BY <1>2, PushSeqs, Locations
<1>4. idx_for(Assigned) = i
  BY <1>2 DEF IdxAt
<1>5. log' = Append(log, e) /\ ppc' = "lo" /\ next_seq' = SeqOf(Start + K) /\ producer_taken'
      /\ pseq' = SeqOf(Start + K) /\ fenced' = Len(log) + 1 /\ pushes' = pushes
      /\ UNCHANGED consumerVars
  BY <1>2, <1>4 DEF PushInvalidate, Store, Relaxed, PushTo, consumerVars
<1>6. Stored' = 1 /\ Begun' = Start + K
  BY <1>1, <1>5 DEF Stored, Begun
<1>7. Producing'
  BY <1>1, <1>5, <1>6 DEF Producing
<1>8. e \in [loc : Locs, val : Nat, rel : 0 .. Len(log) + 1] /\ e.loc # Published
      /\ e.loc = SlotSeq(i) /\ e.val = 0
  <2>1. fenced \in 0 .. Len(log) + 1
    BY <1>1
  <2> QED BY <1>3, <2>1
<1>9. Begun <= Begun' /\ Begun' \in Nat /\ Len(log) + 1 = 5 * pushes' + Stored'
      /\ fenced' \in 0 .. Len(log) + 1
  BY <1>1, <1>2, <1>5, <1>6
<1> HIDE DEF K, i, e
<1>10. {next_seq', pseq'} \subseteq 0 .. Modulus - 1
       /\ pushes' = (IF e.loc = Published THEN pushes + 1 ELSE pushes)
       /\ ppc' \in {"idle", "lo", "hi", "seq", "pub"}
  BY <1>3, <1>5, <1>8
<1>11. NextStore(e)
  BY <1>1, <1>8 DEF NextStore, K, i
<1> QED BY <1>5, <1>7, <1>8, <1>9, <1>10, <1>11, PushStep

\* The stores between: the word named by w, then the sequence.
LEMMA WordInv ==
    ASSUME Inv, NEW w \in {"lo", "hi"}, ppc = w,
           w = "lo" => PushLo, w = "hi" => PushHi
    PROVE  Inv'
<1> DEFINE K == pushes + 1
           i == IdxAt(Start + K)
           loc == IF w = "lo" THEN Lo(i) ELSE Hi(i)
           e == [loc |-> loc, val |-> Start + K, rel |-> 5 * K - 4]
<1>1. /\ Len(log) \in Nat /\ pushes \in Nat /\ Start \in Nat
      /\ Begun = Start + K /\ Begun \in Nat /\ pseq = SeqOf(Start + K)
      /\ fenced = 5 * K - 4 /\ fenced \in 0 .. Len(log) /\ producer_taken
      /\ next_seq = SeqOf(Start + K) /\ Len(log) = 5 * pushes + Stored
  BY PushSeqs, Types
<1>2. Stored = IF w = "lo" THEN 1 ELSE 2
  BY DEF Stored
<1>3. i \in 0 .. N - 1 /\ loc \in Locs /\ loc # Published
      /\ SeqOf(Start + K) \in 0 .. Modulus - 1
  BY <1>1, PushSeqs, Locations
<1>4. idx_for(pseq) = i
  BY <1>1 DEF IdxAt
<1>5. log' = Append(log, e) /\ ppc' = (IF w = "lo" THEN "hi" ELSE "seq") /\ producer_taken'
      /\ next_seq' = next_seq /\ pseq' = pseq /\ fenced' = fenced /\ pushes' = pushes
      /\ UNCHANGED consumerVars
  <2>1. Start + pushes + 1 = Start + K
    BY <1>1
  <2> QED BY <1>1, <1>4, <2>1 DEF PushLo, PushHi, Store, Relaxed, PushTo, consumerVars
<1>6. Stored' = Stored + 1 /\ Begun' = Begun
  BY <1>1, <1>2, <1>5, SMTT(30) DEF Stored, Begun
<1>7. Producing'
  BY <1>1, <1>5, <1>6 DEF Producing
<1>8. e \in [loc : Locs, val : Nat, rel : 0 .. Len(log) + 1] /\ e.loc # Published
  <2>1. 5 * K - 4 \in 0 .. Len(log) + 1 /\ Start + K \in Nat
    BY <1>1
  <2> QED BY <1>3, <2>1
<1>9. Begun <= Begun' /\ Begun' \in Nat /\ Len(log) + 1 = 5 * pushes' + Stored'
      /\ fenced' \in 0 .. Len(log) + 1
  BY <1>1, <1>2, <1>5, <1>6
<1>10. /\ Stored = 1 => e = [loc |-> Lo(i), val |-> Start + K, rel |-> 5 * K - 4]
       /\ Stored = 2 => e = [loc |-> Hi(i), val |-> Start + K, rel |-> 5 * K - 4]
       /\ Stored = 1 \/ Stored = 2
  BY <1>2
<1> HIDE DEF K, i, e
<1>11. {next_seq', pseq'} \subseteq 0 .. Modulus - 1
       /\ pushes' = (IF e.loc = Published THEN pushes + 1 ELSE pushes)
       /\ ppc' \in {"idle", "lo", "hi", "seq", "pub"}
  BY <1>1, <1>3, <1>5, <1>8
<1>12. NextStore(e)
  BY <1>10 DEF NextStore, K, i
<1> QED BY <1>5, <1>7, <1>8, <1>9, <1>11, <1>12, PushStep

\* The two that end a push: the slot's sequence, and published_seq.
LEMMA SeqInv == ASSUME Inv, PushSeq PROVE Inv'
<1> DEFINE K == pushes + 1
           i == IdxAt(Start + K)
           e == [loc |-> SlotSeq(i), val |-> SeqOf(Start + K), rel |-> 5 * K - 1]
<1>1. /\ Len(log) \in Nat /\ pushes \in Nat /\ Start \in Nat
      /\ Begun = Start + K /\ Begun \in Nat /\ pseq = SeqOf(Start + K)
      /\ fenced = 5 * K - 4 /\ fenced \in 0 .. Len(log) /\ producer_taken
      /\ next_seq = SeqOf(Start + K) /\ Len(log) = 5 * pushes + Stored
  BY PushSeqs, Types DEF PushSeq
<1>2. Stored = 3 /\ Len(log) + 1 = 5 * K - 1
  <2>1. Stored = 3
    BY DEF Stored, PushSeq
  <2> QED BY <1>1, <2>1
<1>3. i \in 0 .. N - 1 /\ SlotSeq(i) \in Locs /\ SlotSeq(i) # Published
      /\ SeqOf(Start + K) \in 0 .. Modulus - 1 /\ SeqOf(Start + K) \in Nat
  BY <1>1, PushSeqs, Locations
<1>4. idx_for(pseq) = i
  BY <1>1 DEF IdxAt
<1>5. log' = Append(log, e) /\ ppc' = "pub" /\ producer_taken'
      /\ next_seq' = next_seq /\ pseq' = pseq /\ fenced' = fenced /\ pushes' = pushes
      /\ UNCHANGED consumerVars
  BY <1>1, <1>2, <1>4 DEF PushSeq, Store, Release, PushTo, consumerVars
<1>6. Stored' = 4 /\ Begun' = Begun
  BY <1>1, <1>5 DEF Stored, Begun, PushSeq
<1>7. Producing'
  BY <1>1, <1>5, <1>6 DEF Producing
<1>8. e \in [loc : Locs, val : Nat, rel : 0 .. Len(log) + 1] /\ e.loc # Published
  <2>1. 5 * K - 1 \in 0 .. Len(log) + 1
    BY <1>1, <1>2
  <2> QED BY <1>3, <2>1
<1>9. Begun <= Begun' /\ Begun' \in Nat /\ Len(log) + 1 = 5 * pushes' + Stored'
      /\ fenced' \in 0 .. Len(log) + 1
  BY <1>1, <1>2, <1>5, <1>6
<1>10. NextStore(e)
  BY <1>2 DEF NextStore
<1> HIDE DEF K, i, e
<1>11. {next_seq', pseq'} \subseteq 0 .. Modulus - 1
       /\ pushes' = (IF e.loc = Published THEN pushes + 1 ELSE pushes)
       /\ ppc' \in {"idle", "lo", "hi", "seq", "pub"}
  BY <1>1, <1>3, <1>5, <1>8
<1> QED BY <1>5, <1>7, <1>8, <1>9, <1>10, <1>11, PushStep

\* push ends with the Release store of published_seq, which carries the prefix up
\* to its own slot sequence.
LEMMA PublishInv == ASSUME Inv, PushPublish PROVE Inv'
<1> DEFINE K == pushes + 1
           e == [loc |-> Published, val |-> SeqOf(Start + K), rel |-> 5 * K]
<1>1. /\ Len(log) \in Nat /\ pushes \in Nat /\ Start \in Nat
      /\ Begun = Start + K /\ Begun \in Nat /\ pseq = SeqOf(Start + K)
      /\ fenced = 5 * K - 4 /\ fenced \in 0 .. Len(log) /\ producer_taken
      /\ next_seq = SeqOf(Start + K) /\ Len(log) = 5 * pushes + Stored
  BY PushSeqs, Types DEF PushPublish
<1>2. Stored = 4 /\ Len(log) + 1 = 5 * K
  <2>1. Stored = 4
    BY DEF Stored, PushPublish
  <2> QED BY <1>1, <2>1
<1>3. Published \in Locs
      /\ SeqOf(Start + K) \in 0 .. Modulus - 1 /\ SeqOf(Start + K) \in Nat
  BY <1>1, PushSeqs, Locations
<1>5. log' = Append(log, e) /\ ppc' = "idle" /\ producer_taken' = producer_taken
      /\ next_seq' = next_seq /\ pseq' = 0 /\ fenced' = fenced /\ pushes' = K
      /\ UNCHANGED consumerVars
  BY <1>1, <1>2 DEF PushPublish, Store, Release, PushTo, consumerVars
<1>6. Stored' = 0 /\ Begun' = Begun
  BY <1>1, <1>5 DEF Stored, Begun
<1>7. Producing'
  BY <1>1, <1>5, <1>6 DEF Producing
<1>8. e \in [loc : Locs, val : Nat, rel : 0 .. Len(log) + 1] /\ e.loc = Published
  <2>1. 5 * K \in 0 .. Len(log) + 1
    BY <1>1, <1>2
  <2> QED BY <1>3, <2>1
<1>9. Begun <= Begun' /\ Begun' \in Nat /\ Len(log) + 1 = 5 * pushes' + Stored'
      /\ fenced' \in 0 .. Len(log) + 1 /\ 0 \in 0 .. Modulus - 1
  BY <1>1, <1>2, <1>5, <1>6, Consts
<1>10. NextStore(e) /\ pushes' = pushes + 1
  BY <1>2, <1>5 DEF NextStore
<1> HIDE DEF K, e
<1>11. {next_seq', pseq'} \subseteq 0 .. Modulus - 1
       /\ pushes' = (IF e.loc = Published THEN pushes + 1 ELSE pushes)
       /\ ppc' \in {"idle", "lo", "hi", "seq", "pub"}
  BY <1>1, <1>3, <1>5, <1>8, <1>9, <1>10
<1> QED BY <1>5, <1>7, <1>8, <1>9, <1>10, <1>11, PushStep

\* Every step of push preserves the invariant.
LEMMA PushInv == ASSUME Inv, Push PROVE Inv'
<1>1. ASSUME PushLo PROVE Inv'
  BY <1>1, WordInv DEF PushLo
<1>2. ASSUME PushHi PROVE Inv'
  BY <1>2, WordInv DEF PushHi
<1> QED BY <1>1, <1>2, InvalidateInv, SeqInv, PublishInv DEF Push

-----------------------------------------------------------------------------
(* The handles.                                                            *)

\* Steps that leave the log alone leave what it says alone.
LEMMA LogStays ==
    ASSUME Inv, UNCHANGED <<log, ppc, pushes>>
    PROVE  Logged' /\ Numbered' /\ Begun' = Begun /\ Stored' = Stored
<1>1. Logged'
  BY DEF Inv, Logged, Stored
<1>2. Numbered'
  BY DEF Inv, Numbered, AbsAt
<1> QED BY <1>1, <1>2 DEF Begun, Stored

\* Acquiring or dropping the producer handle leaves the log alone; the next producer
\* inherits the stores but not the fence.
LEMMA ProducerHandle == ASSUME Inv, TryProducer \/ DropProducer PROVE Inv'
<1>1. /\ UNCHANGED <<next_seq, log, ppc, pseq, pushes, handleVars, callVars, known, cview, cpc,
                     losses, got>>
      /\ ppc = "idle" \/ ~producer_taken
      /\ fenced' \in {0, fenced}
  BY DEF TryProducer, DropProducer
<1>2. Logged' /\ Numbered' /\ Begun' = Begun
  BY <1>1, LogStays
<1>3. ppc = "idle"
  <2>1. ppc # "idle" => producer_taken
    BY DEF Inv, Producing
  <2> QED BY <1>1, <2>1
<1>4. Producing'
  BY <1>1, <1>2, <1>3 DEF Inv, Producing
<1>5. TypeOK'
  <2>1. 0 \in 0 .. Len(log)
    BY Types
  <2> QED BY <1>1, <2>1 DEF Inv, TypeOK, handleVars, callVars
<1>6. Cursor' /\ Locals' /\ Sampled' /\ GenuineItem'
  BY <1>1 DEF Inv, Cursor, AtCursor, Locals, Sampled, Wanted, GenuineItem, handleVars, callVars,
              losses
<1>7. Copying'
  BY <1>1, <1>2 DEF Inv, Copying, Copied, Wanted, Idx, handleVars, callVars
<1> QED BY <1>2, <1>4, <1>5, <1>6, <1>7 DEF Inv

\* A new consumer starts from nothing read; a call is never cut short by it.
LEMMA ConsumerHandle == ASSUME Inv, TryConsumer \/ DropConsumer \/ ResetDropped PROVE Inv'
<1>1. cpc = "idle"
  BY DEF Inv, Locals, TryConsumer, DropConsumer, ResetDropped
<1>2. /\ UNCHANGED <<producerVars, callVars, known, cview, cpc>>
      /\ (last_seq' = 0 /\ pos' = -1) \/ UNCHANGED <<last_seq, pos>>
      /\ dropped_accum' = 0 /\ got' \in {got, <<>>}
  BY DEF TryConsumer, DropConsumer, ResetDropped
<1>3. Logged' /\ Numbered' /\ Begun' = Begun
  BY <1>2, LogStays DEF producerVars
<1>4. Producing'
  BY <1>2, <1>3 DEF Inv, Producing, producerVars
<1>5. TypeOK'
  <2>1. 0 \in 0 .. UsizeMax /\ 0 \in 0 .. Modulus - 1
    BY Consts
  <2> QED BY <1>2, <2>1 DEF Inv, TypeOK, producerVars, callVars
<1>6. Cursor' /\ Sampled' /\ Copying' /\ GenuineItem'
  BY <1>1, <1>2 DEF Inv, Cursor, AtCursor, Sampled, Copying, GenuineItem
<1>7. Locals'
  BY <1>1, <1>2 DEF Inv, Locals, callVars, producerVars
<1> QED BY <1>3, <1>4, <1>5, <1>6, <1>7 DEF Inv

-----------------------------------------------------------------------------
(* The consumer's calls.                                                   *)

\* What is left to check of a consumer's step.
LEMMA ConsumerStep ==
    ASSUME Inv, UNCHANGED producerVars, Cursor', Locals', Sampled', Copying', GenuineItem',
           last_seq' \in 0 .. Modulus - 1, newest' \in 0 .. Modulus - 1,
           target' \in 0 .. Modulus - 1, known' \in 0 .. Len(log),
           cview' \in [Locs -> 0 .. Len(log)], cpc' \in {"idle", "s1", "lo", "hi", "s2"},
           cpc' # "idle" => target' # 0, dropped_accum' \in 0 .. UsizeMax
    PROVE  Inv'
<1>1. UNCHANGED <<next_seq, log, fenced, producer_taken, ppc, pseq, pushes>>
  BY DEF producerVars
<1>2. Logged' /\ Numbered' /\ Begun' = Begun
  BY <1>1, LogStays
<1>3. Producing'
  BY <1>1, <1>2 DEF Inv, Producing
<1>4. TypeOK'
  BY <1>1 DEF Inv, TypeOK
<1> QED BY <1>2, <1>3, <1>4 DEF Inv

\* Sequences are u32 values.
LEMMA SeqType ==
    ASSUME NEW k \in Nat
    PROVE  SeqOf(k) \in 0 .. Modulus - 1 /\ (k # 0 <=> SeqOf(k) # 0) /\ SeqOf(k) \in 0 .. Span
<1>1. Modulus = Span + 1 /\ Span \in Nat
  BY Consts
<1>2. SeqOf(k) \in 0 .. Span /\ (k = 0 <=> SeqOf(k) = 0)
  BY SeqForm
<1> QED BY <1>1, <1>2

\* The load of published_seq that opens a call.
LEMMA NewestSeq ==
    ASSUME Inv, NEW j \in Visible(Published, known), newest_seq(j)
    PROVE  \E A \in Nat : /\ Start <= A /\ A <= Begun /\ j = 5 * (A - Start)
                          /\ StoreAt(Published, j).val = SeqOf(A) /\ AbsAt(j) = A
                          /\ cview[Published] <= j /\ cview'[Published] = j
                          /\ known' \in 0 .. Len(log) /\ known <= known' /\ j <= known'
                          /\ cview' \in [Locs -> 0 .. Len(log)]
<1>1. PICK A \in Nat : /\ Start <= A /\ A <= Begun /\ A <= Start + pushes
                       /\ j = 5 * (A - Start) /\ j \in 0 .. Len(log) /\ cview[Published] <= j
                       /\ StoreAt(Published, j).val = SeqOf(A)
                       /\ StoreAt(Published, j).rel = j /\ AbsAt(j) = A
  BY ReadPublished
<1>2. known \in 0 .. Len(log) /\ cview \in [Locs -> 0 .. Len(log)] /\ Len(log) \in Nat
  BY Types
<1>3. cview'[Published] = j /\ cview' \in [Locs -> 0 .. Len(log)]
  BY <1>1, <1>2, Locations DEF newest_seq, Saw
<1>4. known' = IF known < j THEN j ELSE known
  <2>1. known \in Nat /\ j \in Nat
    BY <1>1, <1>2
  <2> QED BY <1>1, <2>1, MaxTwo DEF newest_seq
<1>5. known' \in 0 .. Len(log) /\ known <= known' /\ j <= known'
  BY <1>1, <1>2, <1>4
<1> QED BY <1>1, <1>3, <1>5

\* Where a poll that finds something resumes.
LEMMA PollFrom ==
    ASSUME Inv, NEW A \in Nat, cview[Published] <= 5 * (A - Start), SeqOf(A) \notin {0, last_seq}
    PROVE  LET from == IF pos = -1 THEN A - SeqOf(A) ELSE pos
               jumped == IF Lags(last_seq, SeqOf(A))
                         THEN seq_distance(last_seq, resume_after(SeqOf(A))) ELSE 0
               after == IF Lags(last_seq, SeqOf(A)) THEN resume_after(SeqOf(A)) ELSE last_seq
           IN  /\ from \in Nat /\ jumped \in Nat /\ AtCursor(after, from + jumped)
               /\ Behind(A, from + jumped) \in 1 .. N /\ from + jumped < A
               /\ jumped # 0 => from + jumped <= A - N + 1
<1>0. Start \in Nat /\ cview[Published] \in Nat
  BY Types, Locations
<1>1. PICK new \in 1 .. Span, q \in Nat : new = SeqOf(A) /\ A = Span * q + new
  <2>1. SeqOf(A) \in 0 .. Span /\ SeqOf(A) # 0 /\ Span \in Nat
    BY SeqForm, Consts
  <2>2. SeqOf(A) \in 1 .. Span
    BY <2>1
  <2>3. \E q \in Nat : A = Span * q + SeqOf(A)
    BY SeqForm
  <2> QED BY <2>2, <2>3
<1>2. CASE pos = -1
  <2>1. last_seq = 0
    BY <1>2 DEF Inv, Cursor
  <2>2. PICK from \in Nat : from = A - new /\ from = Span * q + 0 /\ from < A
    <3>1. PICK S \in Nat \ {0} : S = Span
      BY Consts
    <3>2. S * q \in Nat /\ new \in Nat \ {0} /\ A = S * q + new
      BY <1>1, <3>1
    <3> QED BY <3>1, <3>2
  <2>3. AtCursor(0, from)
    <3>1. 0 \in 0 .. Span /\ 0 # Span /\ q \in Int
      BY Consts
    <3> QED BY <2>2, <3>1, CursorBack
  <2>4. from <= A
    BY <2>2
  <2>5. from = IF pos = -1 THEN A - SeqOf(A) ELSE pos
    BY <1>1, <1>2, <2>2
  <2> QED BY <2>1, <2>2, <2>3, <2>4, <2>5, Jump DEF Behind
<1>3. CASE pos # -1
  <2>1. pos \in Nat /\ AtCursor(last_seq, pos) /\ 5 * (pos - Start) <= cview[Published]
        /\ (last_seq = 0 /\ pos # 0 => 5 * (pos + 1 - Start) <= cview[Published])
    BY <1>3 DEF Inv, Cursor
  <2>2. pos <= A
    <3>1. 5 * (pos - Start) <= 5 * (A - Start)
      BY <1>0, <2>1
    <3> QED BY <1>0, <2>1, <3>1
  <2>3. ASSUME last_seq = 0, pos # 0 PROVE pos < A
    <3>1. 5 * (pos + 1 - Start) <= 5 * (A - Start)
      BY <1>0, <2>1, <2>3
    <3> QED BY <1>0, <2>1, <3>1
  <2> QED BY <1>3, <2>1, <2>2, <2>3, Jump DEF Behind
<1> QED BY <1>2, <1>3

\* poll_up_to up to the head of its loop.
LEMMA PollBeginInv ==
    ASSUME Inv, NEW m \in 0 .. MaxPoll, NEW j \in Visible(Published, known), PollBeginAt(m, j)
    PROVE  Inv'
<1> DEFINE new == StoreAt(Published, j).val
           from == IF pos = -1 THEN AbsAt(j) - new ELSE pos
           jump == Lags(last_seq, new)
           jumped == IF jump THEN seq_distance(last_seq, resume_after(new)) ELSE 0
           after == IF jump THEN resume_after(new) ELSE last_seq
<1>0. newest_seq(j) /\ cpc = "idle" /\ consumer_taken /\ got' = <<>>
      /\ UNCHANGED <<producerVars, consumer_taken, dropped_accum, missed>>
  BY DEF PollBeginAt, newest_seq
<1>1. PICK A \in Nat : /\ Start <= A /\ A <= Begun /\ j = 5 * (A - Start)
                       /\ StoreAt(Published, j).val = SeqOf(A) /\ AbsAt(j) = A
                       /\ cview[Published] <= j /\ cview'[Published] = j
                       /\ known' \in 0 .. Len(log) /\ known <= known' /\ j <= known'
                       /\ cview' \in [Locs -> 0 .. Len(log)]
  BY <1>0, NewestSeq
<1>2. new = SeqOf(A) /\ from = (IF pos = -1 THEN A - SeqOf(A) ELSE pos)
  BY <1>1
<1>3. /\ TypeOK /\ Locals /\ Cursor /\ 0 \in 0 .. Modulus - 1
      /\ last_seq \in 0 .. Modulus - 1 /\ dropped_accum \in 0 .. UsizeMax
  <2>1. 0 \in 0 .. Modulus - 1
    BY Consts
  <2> QED BY <2>1 DEF Inv, TypeOK
<1>4. GenuineItem'
  BY <1>0 DEF GenuineItem
<1>t. Start \in Nat /\ Len(log) \in Nat /\ cview[Published] \in Nat
  BY Types, Locations
<1>5. CASE UNCHANGED <<last_seq, pos, jumpedOver, cpc, callVars>>
  <2>1. Cursor'
    <3>1. pos' # -1 => /\ pos \in Nat /\ 5 * (pos - Start) <= j
                       /\ last_seq = 0 /\ pos # 0 => 5 * (pos + 1 - Start) <= j
      <4>1. pos # -1 => /\ pos \in Nat /\ 5 * (pos - Start) <= cview[Published]
                        /\ last_seq = 0 /\ pos # 0 => 5 * (pos + 1 - Start) <= cview[Published]
        BY <1>3 DEF Cursor
      <4>2. j \in Nat
        BY <1>1, <1>t
      <4> QED BY <1>1, <1>5, <1>t, <4>1, <4>2, SMTT(30)
    <3> QED BY <1>1, <1>3, <1>5, <3>1 DEF Cursor, AtCursor
  <2>2. Locals'
    BY <1>0, <1>3, <1>5 DEF Locals, callVars, producerVars
  <2>3. Sampled' /\ Copying'
    BY <1>0, <1>5 DEF Sampled, Copying
  <2> QED BY <1>0, <1>1, <1>3, <1>4, <1>5, <2>1, <2>2, <2>3, ConsumerStep DEF callVars, TypeOK
<1>6. CASE /\ m > 0 /\ new \notin {0, last_seq}
           /\ newest' = new /\ newestAbs' = AbsAt(j)
           /\ max' = m /\ got_read' = 0 /\ dropped' = saturating_add(0, jumped)
           /\ last_seq' = after
           /\ target' = next_after(after)
           /\ pos' = from + jumped
           /\ cpc' = "s1"
           /\ UNCHANGED <<copy, acquired>>
  <2>1. /\ from \in Nat /\ jumped \in Nat /\ AtCursor(after, from + jumped)
        /\ Behind(A, from + jumped) \in 1 .. N /\ from + jumped < A
    <3>1. SeqOf(A) \notin {0, last_seq} /\ cview[Published] <= 5 * (A - Start)
      BY <1>1, <1>2, <1>6
    <3> QED BY <1>1, <1>2, <3>1, PollFrom
  <2> HIDE DEF new, from, jump, jumped, after
  <2>2. PICK p \in Nat : p = from + jumped /\ pos' = p /\ AtCursor(after, p) /\ p < A
                         /\ Behind(A, p) \in 1 .. N /\ p + 1 \in 1 .. A /\ p + 1 \in Nat
    <3>1. from + jumped \in Nat /\ from + jumped + 1 \in 1 .. A /\ from + jumped + 1 \in Nat
      BY <2>1
    <3> QED BY <1>6, <2>1, <3>1
  <2>3. target' = SeqOf(p + 1) /\ target' # 0 /\ target' \in 0 .. Modulus - 1
    <3>1. target' = SeqOf(p + 1)
      BY <1>6, <2>2, SeqNext
    <3>2. p + 1 # 0
      BY <2>2
    <3> QED BY <2>2, <3>1, <3>2, SeqType
  <2>4. last_seq' \in 0 .. Modulus - 1
    <3>1. after \in 0 .. Span /\ Modulus = Span + 1 /\ Span \in Nat
      BY <2>2, CursorForm, Consts
    <3> QED BY <1>6, <3>1
  <2>5. Cursor'
    <3>1. 5 * (p - Start) <= j /\ 5 * (p + 1 - Start) <= j /\ p # -1
      BY <1>1, <1>t, <2>2, SMTT(30)
    <3> QED BY <1>1, <1>6, <2>2, <3>1 DEF Cursor, AtCursor
  <2>6. max' \in Nat /\ max' > 0 /\ dropped' \in Nat
    <3>1. m \in Nat /\ UsizeMax \in Nat
      BY Consts
    <3> QED BY <1>6, <2>1, <3>1 DEF saturating_add
  <2>7. Locals'
    <3>1. log' = log /\ consumer_taken' = consumer_taken
      BY <1>0 DEF producerVars
    <3> QED BY <1>0, <1>3, <1>6, <2>6, <3>1 DEF Locals
  <2>8. Sampled'
    <3>1. newestAbs' = A /\ newest' = SeqOf(A)
      BY <1>1, <1>2, <1>6
    <3>2. 5 * (A - Start) <= known' /\ 5 * (A - Start) <= cview'[Published]
      BY <1>1, <1>t
    <3>3. Wanted' = p + 1
      BY <2>2, <2>6 DEF Wanted
    <3>4. pos' # -1
      BY <2>2
    <3> QED BY <2>2, <2>3, <3>1, <3>2, <3>3, <3>4 DEF Sampled, Behind
  <2>9. Copying'
    BY <1>6 DEF Copying
  <2>10. newest' \in 0 .. Modulus - 1 /\ dropped_accum' \in 0 .. UsizeMax
    BY <1>0, <1>1, <1>2, <1>3, <1>6, SeqType
  <2> QED BY <1>0, <1>1, <1>4, <1>6, <2>3, <2>4, <2>5, <2>7, <2>8, <2>9, <2>10, ConsumerStep
<1> QED BY <1>5, <1>6 DEF PollBeginAt

\* A cursor stays where it is, or moves to just before the push last observed.
LEMMA CursorStays ==
    ASSUME Inv, UNCHANGED <<last_seq, pos>>, cview'[Published] \in Nat,
           cview[Published] <= cview'[Published]
    PROVE  Cursor'
<1>1. Start \in Nat /\ cview[Published] \in Nat
  BY Types, Locations
<1>2. pos # -1 => /\ pos \in Nat /\ 5 * (pos - Start) <= cview[Published]
                  /\ last_seq = 0 /\ pos # 0 => 5 * (pos + 1 - Start) <= cview[Published]
  BY DEF Inv, Cursor
<1>3. pos # -1 => /\ 5 * (pos - Start) <= cview'[Published]
                  /\ last_seq = 0 /\ pos # 0 => 5 * (pos + 1 - Start) <= cview'[Published]
  BY <1>1, <1>2
<1> QED BY <1>3 DEF Inv, Cursor, AtCursor

\* latest samples published_seq and aims at the slot of what it sampled.
LEMMA LatestBeginInv == ASSUME Inv, LatestBegin PROVE Inv'
<1>1. PICK j \in Visible(Published, known) :
        LET new == StoreAt(Published, j).val
        IN  /\ newest_seq(j)
            /\ got' = <<>>
            /\ \/ /\ new = 0
                  /\ UNCHANGED <<cpc, callVars>>
               \/ /\ new # 0
                  /\ newest' = new /\ newestAbs' = AbsAt(j) /\ target' = new
                  /\ cpc' = "s1"
                  /\ UNCHANGED <<max, got_read, dropped, copy, acquired>>
            /\ UNCHANGED <<producerVars, handleVars, losses>>
  BY DEF LatestBegin
<1>2. PICK A \in Nat : /\ Start <= A /\ A <= Begun /\ j = 5 * (A - Start)
                       /\ StoreAt(Published, j).val = SeqOf(A) /\ AbsAt(j) = A
                       /\ cview[Published] <= j /\ cview'[Published] = j
                       /\ known' \in 0 .. Len(log) /\ known <= known' /\ j <= known'
                       /\ cview' \in [Locs -> 0 .. Len(log)]
  BY <1>1, NewestSeq
<1>3. cpc = "idle" /\ max = 0 /\ consumer_taken /\ max' = max /\ acquired' = acquired
      /\ dropped' = dropped /\ copy' = copy /\ log' = log /\ consumer_taken' = consumer_taken
      /\ UNCHANGED <<last_seq, pos, dropped_accum>>
  BY <1>1 DEF newest_seq, Inv, Locals, callVars, producerVars, handleVars
<1>4. GenuineItem'
  BY <1>1 DEF GenuineItem
<1>5. Locals'
  BY <1>1, <1>3 DEF Inv, Locals
<1>6. Cursor'
  <2>1. j \in Nat
    BY <1>2, Types
  <2> QED BY <1>2, <1>3, <2>1, CursorStays
<1>7. dropped_accum' \in 0 .. UsizeMax /\ last_seq' \in 0 .. Modulus - 1
  BY <1>3 DEF Inv, TypeOK
<1>8. CASE UNCHANGED <<cpc, callVars>>
  <2>1. Sampled' /\ Copying'
    BY <1>3, <1>8 DEF Sampled, Copying
  <2>2. newest' \in 0 .. Modulus - 1 /\ target' \in 0 .. Modulus - 1 /\ cpc' = "idle"
    BY <1>3, <1>8 DEF Inv, TypeOK, callVars
  <2> QED BY <1>1, <1>2, <1>4, <1>5, <1>6, <1>7, <2>1, <2>2, ConsumerStep
<1>9. CASE SeqOf(A) # 0 /\ newest' = SeqOf(A) /\ newestAbs' = A /\ target' = SeqOf(A) /\ cpc' = "s1"
  <2>1. Wanted' = A /\ A \in 1 .. A
    <3>1. A # 0
      BY <1>9, SeqForm
    <3> QED BY <1>3, <1>9, <3>1 DEF Wanted
  <2>2. Sampled'
    <3>1. 5 * (A - Start) <= known' /\ 5 * (A - Start) <= cview'[Published] /\ ~(max' > 0)
      BY <1>2, <1>3, Types
    <3> QED BY <1>9, <2>1, <3>1 DEF Sampled
  <2>3. Copying'
    BY <1>9 DEF Copying
  <2>4. newest' \in 0 .. Modulus - 1 /\ target' \in 0 .. Modulus - 1 /\ target' # 0
    BY <1>9, SeqType
  <2> QED BY <1>1, <1>2, <1>4, <1>5, <1>6, <1>7, <1>9, <2>2, <2>3, <2>4, ConsumerStep
<1> QED BY <1>1, <1>2, <1>8, <1>9

\* skip_to_latest moves the cursor onto the newest push but one.
LEMMA SkipInv == ASSUME Inv, SkipToLatest PROVE Inv'
<1>1. PICK j \in Visible(Published, known) :
        LET new == StoreAt(Published, j).val
        IN  /\ newest_seq(j)
            /\ last_seq' = IF new = 0 THEN last_seq ELSE wrapping_sub(new, 1)
            /\ pos' = IF new = 0 THEN pos ELSE AbsAt(j) - 1
            /\ got' = <<>>
            /\ UNCHANGED <<producerVars, consumer_taken, dropped_accum,
                           callVars, cpc, losses>>
  BY DEF SkipToLatest
<1>2. PICK A \in Nat : /\ Start <= A /\ A <= Begun /\ j = 5 * (A - Start)
                       /\ StoreAt(Published, j).val = SeqOf(A) /\ AbsAt(j) = A
                       /\ cview[Published] <= j /\ cview'[Published] = j
                       /\ known' \in 0 .. Len(log) /\ known <= known' /\ j <= known'
                       /\ cview' \in [Locs -> 0 .. Len(log)]
  BY <1>1, NewestSeq
<1>t. Start \in Nat /\ j \in Nat
  BY <1>2, Types
<1>3. cpc = "idle" /\ cpc' = "idle"
  BY <1>1 DEF newest_seq
<1>4. GenuineItem' /\ Sampled' /\ Copying'
  BY <1>1, <1>3 DEF GenuineItem, Sampled, Copying
<1>5. Locals'
  BY <1>1 DEF Inv, Locals, callVars, producerVars
<1>6. Cursor' /\ last_seq' \in 0 .. Modulus - 1
  <2>1. CASE SeqOf(A) = 0
    <3>1. UNCHANGED <<last_seq, pos>>
      BY <1>1, <1>2, <2>1
    <3>2. Cursor'
      BY <1>2, <1>t, <3>1, CursorStays
    <3> QED BY <3>1, <3>2 DEF Inv, TypeOK
  <2>2. CASE SeqOf(A) # 0
    <3>0. PICK S \in Nat \ {0}, M \in Nat \ {0} : S = Span /\ M = Modulus /\ M = S + 1
      BY Consts
    <3>1. PICK new \in 1 .. S, q \in Nat : new = SeqOf(A) /\ A = S * q + new
      <4>1. SeqOf(A) \in 0 .. S
        BY <3>0, SeqForm
      <4>2. SeqOf(A) \in 1 .. S
        BY <2>2, <4>1
      <4>3. \E q \in Nat : A = S * q + SeqOf(A)
        BY <3>0, SeqForm
      <4> QED BY <4>2, <4>3
    <3>2. last_seq' = new - 1
      <4>1. new - 1 \in 0 .. M - 1
        BY <3>0
      <4>2. (new - 1) % M = new - 1
        BY <4>1, ModSmall
      <4>3. last_seq' = (new - 1) % M
        BY <1>1, <1>2, <2>2, <3>0, <3>1 DEF wrapping_sub
      <4> QED BY <4>2, <4>3
    <3>3. PICK p \in Nat : p = A - 1 /\ p = S * q + (new - 1)
      <4>1. S * q \in Nat
        OBVIOUS
      <4> QED BY <3>1, <4>1
    <3>4. pos' = p
      BY <1>1, <1>2, <2>2, <3>1, <3>3
    <3>5. AtCursor(new - 1, p)
      <4>1. new - 1 \in 0 .. Span /\ new - 1 # Span /\ q \in Int /\ p = Span * q + (new - 1)
        BY <3>0, <3>3
      <4> QED BY <4>1, CursorBack
    <3>6. 5 * (p - Start) <= j /\ 5 * (p + 1 - Start) <= j
      BY <1>2, <1>t, <3>3
    <3>7. Cursor'
      BY <1>2, <3>2, <3>4, <3>5, <3>6 DEF Cursor, AtCursor
    <3>8. new - 1 \in 0 .. Modulus - 1
      BY <3>0
    <3> QED BY <3>2, <3>7, <3>8
  <2> QED BY <2>1, <2>2
<1>7. /\ dropped_accum' \in 0 .. UsizeMax /\ newest' \in 0 .. Modulus - 1
      /\ target' \in 0 .. Modulus - 1
  BY <1>1 DEF Inv, TypeOK, callVars
<1> QED BY <1>1, <1>2, <1>3, <1>4, <1>5, <1>6, <1>7, ConsumerStep

-----------------------------------------------------------------------------
(* The reads.                                                              *)

\* Each turn of the poll's loop brings the cursor one push nearer to the mark, and
\* reaches the mark's sequence exactly when nothing is left.
LEMMA BehindNext ==
    ASSUME NEW A \in Nat, NEW p \in Nat, p + 1 <= A, Behind(A, p) \in 1 .. N
    PROVE  /\ Behind(A, p + 1) \in 0 .. N - 1
           /\ SeqOf(p + 1) # SeqOf(A) => p + 1 < A /\ Behind(A, p + 1) \in 1 .. N
<1>0. PICK S \in Nat \ {0} : S = Span /\ N \in Nat \ {0} /\ N < S
  BY Consts
<1>1. PICK d \in Nat : d = A - p /\ d >= 1
  OBVIOUS
<1>2. PICK b \in 1 .. N : b = d % S
  BY <1>0, <1>1 DEF Behind
<1>3. PICK q \in Int : d = S * q + b
  <2>1. d \in Int
    OBVIOUS
  <2> QED BY ONLY <1>2, <2>1, S \in Nat \ {0}, DivMod
<1>4. Behind(A, p + 1) = b - 1
  <2>1. A - (p + 1) = S * q + (b - 1) /\ A - (p + 1) \in Int /\ b - 1 \in 0 .. S - 1
    BY <1>0, <1>1, <1>3
  <2>2. (A - (p + 1)) % S = b - 1
    BY <2>1, ModUnique
  <2> QED BY <1>0, <2>2 DEF Behind
<1>5. ASSUME SeqOf(p + 1) # SeqOf(A) PROVE p + 1 < A /\ b - 1 # 0
  <2>1. p + 1 < A /\ p + 1 \in Nat \ {0} /\ A \in Nat \ {0}
    BY <1>5
  <2>2. (A - (p + 1)) % Span # 0
    BY <1>5, <2>1, SeqSame
  <2> QED BY <1>4, <2>1, <2>2 DEF Behind
<1> QED BY <1>0, <1>4, <1>5

\* The turn of the poll's loop.
LEMMA AdvanceStep ==
    ASSUME Inv, cpc # "idle", max > 0, NEW r \in 0 .. 1, NEW d \in 0 .. 1, Advance(r, d),
           UNCHANGED producerVars, cview'[Published] = cview[Published],
           known' \in 0 .. Len(log), known <= known'
    PROVE  /\ Cursor' /\ Locals' /\ Sampled' /\ Copying' /\ cpc' \in {"idle", "s1"}
           /\ last_seq' \in 0 .. Modulus - 1 /\ newest' \in 0 .. Modulus - 1
           /\ target' \in 0 .. Modulus - 1 /\ dropped_accum' \in 0 .. UsizeMax
           /\ cpc' # "idle" => target' # 0
<1>0. /\ Start \in Nat /\ known \in 0 .. Len(log) /\ Len(log) \in Nat
      /\ acquired \in 0 .. Len(log) /\ cview[Published] \in Nat
      /\ max \in Nat /\ dropped \in Nat /\ dropped_accum \in 0 .. UsizeMax /\ consumer_taken
      /\ target \in 0 .. Modulus - 1 /\ newest \in 0 .. Modulus - 1 /\ target # 0
      /\ UsizeMax \in Nat /\ 0 \in 0 .. Modulus - 1
  BY Types, Locations, Consts DEF Inv, TypeOK, Locals
<1>1. /\ newestAbs \in Nat /\ newest = SeqOf(newestAbs)
      /\ 5 * (newestAbs - Start) <= known /\ 5 * (newestAbs - Start) <= cview[Published]
      /\ pos + 1 \in 1 .. newestAbs /\ target = SeqOf(pos + 1)
      /\ pos # -1 /\ Behind(newestAbs, pos) \in 1 .. N
  BY DEF Inv, Sampled, Wanted
<1>2. PICK p \in Nat : p = pos /\ p + 1 <= newestAbs
  <2>1. pos \in Nat
    BY <1>1 DEF Inv, Cursor
  <2> QED BY <1>1, <2>1
<1>3. last_seq' = target /\ pos' = p + 1 /\ log' = log /\ consumer_taken' = consumer_taken
  BY <1>2 DEF Advance, producerVars
<1>4. Cursor'
  <2>1. 5 * (p + 1 - Start) <= cview[Published] /\ p + 1 # -1 /\ p + 1 \in Nat
    <3>1. PICK s \in Nat, c \in Nat, A \in Nat :
             s = Start /\ c = cview[Published] /\ A = newestAbs
      BY <1>0, <1>1
    <3>2. 5 * (A - s) <= c /\ p + 1 <= A
      BY <1>1, <1>2, <3>1
    <3>3. 5 * (p + 1 - s) <= c
      BY ONLY <3>2, s \in Nat, c \in Nat, A \in Nat, p \in Nat
    <3> QED BY <3>1, <3>3
  <2>2. AtCursor(target, p + 1)
    BY <1>1, <1>2 DEF AtCursor
  <2> QED BY <1>0, <1>3, <2>1, <2>2 DEF Cursor, AtCursor
<1>5. <<0, 0>> \in [1 .. 2 -> Nat]
  <2>1. Len(<<0, 0>>) = 2 /\ <<0, 0>>[1] = 0 /\ <<0, 0>>[2] = 0
    OBVIOUS
  <2> QED OBVIOUS
<1>6. \A a, b \in Nat : saturating_add(a, b) \in 0 .. UsizeMax /\ saturating_add(a, b) \in Nat
  BY <1>0 DEF saturating_add
<1>7. CASE got_read + r = max \/ target = newest
  <2>1. Return /\ dropped_accum' = saturating_add(dropped_accum, saturating_add(dropped, d))
    BY <1>7 DEF Advance
  <2>2. dropped_accum' \in 0 .. UsizeMax
    <3>1. d \in Nat /\ dropped_accum \in Nat
      BY <1>0
    <3> QED BY <1>0, <1>6, <2>1, <3>1
  <2>3. Locals' /\ Sampled' /\ Copying'
    BY <1>0, <1>3, <1>5, <2>1 DEF Return, Locals, Sampled, Copying
  <2> QED BY <1>0, <1>3, <1>4, <2>1, <2>2, <2>3 DEF Return
<1>8. CASE ~(got_read + r = max \/ target = newest)
  <2>1. /\ dropped' = saturating_add(dropped, d) /\ target' = next_after(target)
        /\ copy' = <<0, 0>> /\ acquired' = 0 /\ cpc' = "s1" /\ target # newest
        /\ UNCHANGED <<newest, max, newestAbs, dropped_accum>>
    BY <1>8 DEF Advance
  <2>2. p + 1 < newestAbs /\ Behind(newestAbs, p + 1) \in 1 .. N
    BY <1>1, <1>2, <2>1, BehindNext
  <2>3. target' = SeqOf(p + 2) /\ target' \in 0 .. Modulus - 1 /\ target' # 0
    <3>1. p + 1 \in Nat /\ (p + 1) + 1 = p + 2 /\ p + 2 \in Nat /\ p + 2 # 0
      OBVIOUS
    <3>2. AtCursor(target, p + 1)
      BY <1>1, <1>2 DEF AtCursor
    <3>3. target' = SeqOf(p + 2)
      BY <2>1, <3>1, <3>2, SeqNext
    <3> QED BY <3>1, <3>3, SeqType
  <2>4. Sampled'
    <3>1. Wanted' = p + 2
      BY <1>3, <2>1 DEF Wanted
    <3>2. p + 2 \in 1 .. newestAbs /\ p + 1 # -1
      BY <1>1, <2>2
    <3>3. 5 * (newestAbs - Start) <= known'
      BY <1>0, <1>1
    <3> QED BY <1>1, <1>3, <2>1, <2>2, <2>3, <3>1, <3>2, <3>3 DEF Sampled, Behind
  <2>5. Locals'
    <3>1. dropped' \in Nat
      <4>1. d \in Nat
        OBVIOUS
      <4> QED BY <1>0, <1>6, <2>1, <4>1
    <3>2. 0 \in 0 .. Len(log)
      BY <1>0
    <3> QED BY <1>0, <1>3, <1>5, <2>1, <3>1, <3>2 DEF Locals
  <2>6. Copying'
    BY <2>1 DEF Copying
  <2> QED BY <1>0, <1>3, <1>4, <2>1, <2>3, <2>4, <2>5, <2>6
<1> QED BY <1>7, <1>8

\* A latest that is done changes nothing but its locals.
LEMMA ReturnStep ==
    ASSUME Inv, cpc # "idle", Return, UNCHANGED handleVars, UNCHANGED producerVars,
           cview'[Published] = cview[Published]
    PROVE  /\ Cursor' /\ Locals' /\ Sampled' /\ Copying' /\ cpc' = "idle"
           /\ last_seq' \in 0 .. Modulus - 1 /\ newest' \in 0 .. Modulus - 1
           /\ target' \in 0 .. Modulus - 1 /\ dropped_accum' \in 0 .. UsizeMax
<1>0. Len(log) \in Nat /\ 0 \in 0 .. Modulus - 1 /\ cview[Published] \in Nat
  BY Types, Locations, Consts
<1>1. UNCHANGED <<consumer_taken, last_seq, dropped_accum, pos, log>>
  BY DEF handleVars, producerVars
<1>2. Cursor'
  BY <1>0, <1>1, CursorStays
<1>3. Locals' /\ Sampled' /\ Copying'
  <2>1. <<0, 0>> \in [1 .. 2 -> Nat]
    <3>1. Len(<<0, 0>>) = 2 /\ <<0, 0>>[1] = 0 /\ <<0, 0>>[2] = 0
      OBVIOUS
    <3> QED OBVIOUS
  <2>2. 0 \in 0 .. Len(log')
    BY <1>0, <1>1
  <2> QED BY <1>1, <2>1, <2>2 DEF Return, Locals, Sampled, Copying
<1> QED BY <1>0, <1>1, <1>2, <1>3 DEF Return, Inv, TypeOK

\* What the read in progress is after, and in which slot it looks.
LEMMA Target ==
    ASSUME Inv, cpc # "idle"
    PROVE  /\ Wanted \in Nat \ {0} /\ target = SeqOf(Wanted) /\ target # 0
           /\ target \in 0 .. Modulus - 1
           /\ Idx \in 0 .. N - 1 /\ IdxAt(Wanted) = Idx
           /\ Wanted <= Begun /\ (Wanted > Start => 5 * (Wanted - Start) - 1 <= known)
           /\ \A p \in Nat : SeqOf(p) = target => IdxAt(p) = Idx
<1>0. /\ Start \in Nat /\ pushes \in Nat /\ known \in 0 .. Len(log) /\ Begun \in Nat
      /\ Stored \in 0 .. 4 /\ Len(log) = 5 * pushes + Stored
      /\ Begun = Start + pushes + (IF Stored = 0 THEN 0 ELSE 1)
  BY Types
<1>1. PICK A \in Nat : A = newestAbs /\ 5 * (A - Start) <= known /\ Wanted \in 1 .. A
                       /\ target = SeqOf(Wanted)
  BY DEF Inv, Sampled
<1>2. Wanted \in Nat \ {0} /\ Wanted <= A
  BY <1>1
<1>3. A <= Begun
  BY <1>0, <1>1
<1>4. ASSUME Wanted > Start PROVE 5 * (Wanted - Start) - 1 <= known
  <2>1. 5 * (Wanted - Start) <= 5 * (A - Start)
    BY <1>0, <1>2
  <2> QED BY <1>0, <1>1, <1>2, <2>1
<1>5. target # 0 /\ target \in 0 .. Modulus - 1
  BY <1>1, <1>2, SeqType
<1>6. Idx \in 0 .. N - 1
  <2>1. target \in Int
    BY Types
  <2> QED BY <2>1, Slots DEF Idx
<1>7. Wanted <= Begun
  BY <1>0, <1>2, <1>3
<1> QED BY <1>1, <1>2, <1>4, <1>5, <1>6, <1>7 DEF Idx, IdxAt

\* A load of the wanted slot's sequence by a reader that has seen the push wanted
\* finds that push or a later one.
LEMMA NotOlder ==
    ASSUME Inv, cpc # "idle", NEW w \in Nat \ {0}, w <= Start => w <= Base(Idx),
           IdxAt(w) = Idx,
           NEW p \in 0 .. Len(log), w > Start => 5 * (w - Start) - 1 <= p,
           NEW j \in Visible(SlotSeq(Idx), p)
    PROVE  \E A \in Nat :
            /\ A <= Begun /\ w <= A /\ IdxAt(A) = Idx /\ (A <= Start => A = Base(Idx))
            /\ j \in 0 .. Len(log) /\ cview[SlotSeq(Idx)] <= j
            /\ StoreAt(SlotSeq(Idx), j).rel \in 0 .. Len(log)
            /\ \/ /\ StoreAt(SlotSeq(Idx), j).val = SeqOf(A)
                  /\ StoreAt(SlotSeq(Idx), j).rel = j
                  /\ j = SeqPos(A) /\ PushAt(j) = A
               \/ StoreAt(SlotSeq(Idx), j).val = 0 /\ w < A
            /\ \A a \in Nat : a > Start /\ IdxAt(a) = Idx /\ 5 * (a - Start) - 4 <= p => a <= A
<1>0. Start \in Nat /\ Len(log) \in Nat /\ Idx \in 0 .. N - 1 /\ p \in Nat
  BY Types, Target
<1>1. PICK A \in Nat :
            /\ A <= Begun /\ (A <= Start => A = Base(Idx) /\ j = 0)
            /\ A > Start => IdxAt(A) = Idx /\ 5 * (A - Start) - 4 <= j /\ j <= 5 * (A - Start) - 1
            /\ j \in 0 .. Len(log) /\ cview[SlotSeq(Idx)] <= j
            /\ StoreAt(SlotSeq(Idx), j).rel \in 0 .. Len(log)
            /\ \/ /\ StoreAt(SlotSeq(Idx), j).val = SeqOf(A) /\ StoreAt(SlotSeq(Idx), j).rel = j
                  /\ j = SeqPos(A) /\ (j # 0 => AbsAt(j) + 1 = A)
               \/ A > Start /\ StoreAt(SlotSeq(Idx), j).val = 0 /\ j = 5 * (A - Start) - 4
            /\ \A a \in Nat : a > Start /\ IdxAt(a) = Idx =>
                    /\ 5 * (a - Start) - 1 <= p => 5 * (a - Start) - 1 <= j
                    /\ 5 * (a - Start) - 4 <= p => 5 * (a - Start) - 4 <= j
  BY <1>0, ReadSlot
<1>2. ASSUME NEW a \in Nat, a > Start, IdxAt(a) = Idx, 5 * (a - Start) - 4 <= p
      PROVE  a <= A
  <2>1. 5 * (a - Start) - 4 <= j
    BY <1>1, <1>2
  <2>2. CASE A > Start
    <3>1. 5 * (a - Start) - 4 <= j /\ j <= 5 * (A - Start) - 1
      BY <1>1, <2>1, <2>2
    <3>2. j \in Int
      BY <1>0, <1>1
    <3> QED BY ONLY <1>0, <2>2, <3>1, <3>2, a \in Nat, A \in Nat
  <2>3. CASE ~(A > Start)
    <3>1. j = 0
      BY <1>0, <1>1, <2>3
    <3> QED BY <1>0, <1>2, <2>1, <3>1
  <2> QED BY <2>2, <2>3
<1>3. w <= A
  <2>1. CASE w > Start
    <3>1. 5 * (w - Start) - 4 <= p
      BY <1>0, <2>1
    <3> QED BY <1>2, <2>1, <3>1
  <2>2. CASE ~(w > Start) /\ A > Start
    BY <1>0, <2>2
  <2>3. CASE ~(w > Start) /\ ~(A > Start)
    <3>1. w <= Base(Idx) /\ A = Base(Idx)
      BY <1>0, <1>1, <2>3
    <3> QED BY <3>1
  <2> QED BY <2>1, <2>2, <2>3
<1>4. IdxAt(A) = Idx
  <2>1. CASE A > Start
    BY <1>1, <2>1
  <2>2. CASE ~(A > Start)
    <3>1. A = Base(Idx) /\ A # 0
      BY <1>0, <1>1, <1>3, <2>2
    <3> QED BY <1>0, <3>1, BaseFacts
  <2> QED BY <2>1, <2>2
<1>5. ASSUME j = SeqPos(A), j # 0 => AbsAt(j) + 1 = A PROVE PushAt(j) = A
  <2>1. CASE A > Start
    <3>1. j # 0
      BY <1>0, <1>5, <2>1 DEF SeqPos
    <3> QED BY <1>5, <3>1 DEF PushAt
  <2>2. CASE ~(A > Start)
    <3>1. A = Base(Idx) /\ j = 0
      BY <1>0, <1>1, <2>2
    <3> QED BY <3>1 DEF PushAt, Base
  <2> QED BY <2>1, <2>2
<1>6. ASSUME A > Start, StoreAt(SlotSeq(Idx), j).val = 0, j = 5 * (A - Start) - 4 PROVE w < A
  <2>1. CASE w > Start
    <3>1. 5 * (w - Start) - 1 <= j
      BY <1>1, <2>1
    <3> QED BY ONLY <1>0, <1>6, <3>1, w \in Nat \ {0}, A \in Nat
  <2>2. CASE ~(w > Start)
    BY <1>0, <1>6, <2>2
  <2> QED BY <2>1, <2>2
<1>7. A <= Start => A = Base(Idx)
  BY <1>1
<1> QED BY <1>1, <1>2, <1>3, <1>4, <1>5, <1>6, <1>7

\* The same of the push the call is after.
LEMMA LoadSeq ==
    ASSUME Inv, cpc # "idle", NEW p \in 0 .. Len(log), known <= p,
           NEW j \in Visible(SlotSeq(Idx), p)
    PROVE  \E A \in Nat :
            /\ A <= Begun /\ Wanted <= A /\ IdxAt(A) = Idx /\ (A <= Start => A = Base(Idx))
            /\ j \in 0 .. Len(log) /\ cview[SlotSeq(Idx)] <= j
            /\ StoreAt(SlotSeq(Idx), j).rel \in 0 .. Len(log)
            /\ \/ /\ StoreAt(SlotSeq(Idx), j).val = SeqOf(A)
                  /\ StoreAt(SlotSeq(Idx), j).rel = j
                  /\ j = SeqPos(A) /\ PushAt(j) = A
               \/ StoreAt(SlotSeq(Idx), j).val = 0 /\ Wanted < A
<1>1. /\ Wanted \in Nat \ {0} /\ Idx \in 0 .. N - 1 /\ IdxAt(Wanted) = Idx
      /\ (Wanted > Start => 5 * (Wanted - Start) - 1 <= known)
  BY Target
<1>2. Start \in Nat /\ known \in 0 .. Len(log) /\ Len(log) \in Nat
  BY Types
<1>3. PICK w \in Nat \ {0} : w = Wanted
  BY <1>1
<1>4. w <= Start => w <= Base(Idx)
  BY <1>1, <1>2, <1>3, BaseFacts
<1>5. w > Start => 5 * (w - Start) - 1 <= p
  BY <1>1, <1>2, <1>3
<1>6. IdxAt(w) = Idx
  BY <1>1, <1>3
<1>7. \E A \in Nat :
            /\ A <= Begun /\ w <= A /\ IdxAt(A) = Idx /\ (A <= Start => A = Base(Idx))
            /\ j \in 0 .. Len(log) /\ cview[SlotSeq(Idx)] <= j
            /\ StoreAt(SlotSeq(Idx), j).rel \in 0 .. Len(log)
            /\ \/ /\ StoreAt(SlotSeq(Idx), j).val = SeqOf(A)
                  /\ StoreAt(SlotSeq(Idx), j).rel = j
                  /\ j = SeqPos(A) /\ PushAt(j) = A
               \/ StoreAt(SlotSeq(Idx), j).val = 0 /\ w < A
            /\ \A a \in Nat : a > Start /\ IdxAt(a) = Idx /\ 5 * (a - Start) - 4 <= p => a <= A
  BY <1>4, <1>5, <1>6, NotOlder
<1> QED BY <1>3, <1>7

\* A read that fails has found a later push in the slot.
LEMMA Missed ==
    ASSUME Inv, cpc # "idle", NEW p \in 0 .. Len(log), known <= p,
           NEW j \in Visible(SlotSeq(Idx), p), StoreAt(SlotSeq(Idx), j).val # target
    PROVE  \E A \in Nat : Wanted < A /\ A <= Begun /\ IdxAt(A) = IdxAt(Wanted)
<1>1. PICK A \in Nat :
            /\ A <= Begun /\ Wanted <= A /\ IdxAt(A) = Idx
            /\ \/ StoreAt(SlotSeq(Idx), j).val = SeqOf(A)
               \/ StoreAt(SlotSeq(Idx), j).val = 0 /\ Wanted < A
  BY LoadSeq
<1>2. Wanted \in Nat \ {0} /\ target = SeqOf(Wanted) /\ IdxAt(Wanted) = Idx
  BY Target
<1>3. Wanted < A
  <2>1. SeqOf(A) # target => A # Wanted
    BY <1>2
  <2> QED BY <1>1, <1>2, <2>1
<1> QED BY <1>1, <1>2, <1>3

\* Where a read goes from here.
LEMMA MissStep ==
    ASSUME Inv, cpc # "idle", Miss, UNCHANGED producerVars, NEW j \in 0 .. Len(log),
           Saw(SlotSeq(Idx), j), known' \in 0 .. Len(log), known <= known'
    PROVE  Inv'
<1>1. Idx \in 0 .. N - 1 /\ SlotSeq(Idx) \in Locs /\ SlotSeq(Idx) # Published
  BY Target, Locations
<1>2. cview' \in [Locs -> 0 .. Len(log)] /\ cview'[Published] = cview[Published]
  BY <1>1, Types, Locations DEF Saw
<1>3. GenuineItem'
  BY DEF Miss, GenuineItem
<1>4. CASE max > 0
  <2>1. Advance(0, 1) /\ 0 \in 0 .. 1 /\ 1 \in 0 .. 1
    <3>1. ~(max = 0)
      BY <1>4
    <3> QED BY <3>1 DEF Miss
  <2> QED BY <1>2, <1>3, <1>4, <2>1, AdvanceStep, ConsumerStep
<1>5. CASE ~(max > 0)
  <2>1. Return /\ UNCHANGED handleVars
    BY <1>5 DEF Miss
  <2> QED BY <1>2, <1>3, <2>1, ReturnStep, ConsumerStep
<1> QED BY <1>4, <1>5

\* A copy that is whole, or whose sequence came round by whole spans, may be returned.
LEMMA HitStep ==
    ASSUME Inv, cpc # "idle", NEW A, Hit(A), UNCHANGED producerVars, NEW j \in 0 .. Len(log),
           Saw(SlotSeq(Idx), j), known' \in 0 .. Len(log), known <= known',
           \/ copy[1] = Wanted /\ copy[2] = Wanted
           \/ A - Wanted >= Span /\ (A - Wanted) % Span = 0
    PROVE  Inv'
<1>1. Idx \in 0 .. N - 1 /\ SlotSeq(Idx) \in Locs /\ SlotSeq(Idx) # Published
      /\ target = SeqOf(Wanted)
  BY Target, Locations
<1>2. cview' \in [Locs -> 0 .. Len(log)] /\ cview'[Published] = cview[Published]
  BY <1>1, Types, Locations DEF Saw
<1>3. GenuineItem'
  <2>1. got' = <<target, copy[1], copy[2], Wanted, A>>
    BY DEF Hit, Wanted
  <2>2. got'[1] = target /\ got'[2] = copy[1] /\ got'[3] = copy[2] /\ got'[4] = Wanted
        /\ got'[5] = A
    BY <2>1
  <2> QED BY <1>1, <2>2 DEF GenuineItem
<1>4. CASE max > 0
  <2>1. Advance(1, 0) /\ 0 \in 0 .. 1 /\ 1 \in 0 .. 1
    <3>1. ~(max = 0)
      BY <1>4
    <3> QED BY <3>1 DEF Hit
  <2> QED BY <1>2, <1>3, <1>4, <2>1, AdvanceStep, ConsumerStep
<1>5. CASE ~(max > 0)
  <2>1. Return /\ UNCHANGED handleVars
    BY <1>5 DEF Hit
  <2> QED BY <1>2, <1>3, <2>1, ReturnStep, ConsumerStep
<1> QED BY <1>4, <1>5

\* The first read of the slot's sequence: a miss advances, a match starts the copy.
LEMMA Read1Inv == ASSUME Inv, ReadSeq1 PROVE Inv'
<1>0. cpc = "s1" /\ UNCHANGED producerVars
  BY DEF ReadSeq1
<1>1. PICK j \in Visible(SlotSeq(Idx), known) :
        /\ Saw(SlotSeq(Idx), j)
        /\ known' = Max({known, StoreAt(SlotSeq(Idx), j).rel})
        /\ \/ /\ StoreAt(SlotSeq(Idx), j).val # target
              /\ Miss
           \/ /\ StoreAt(SlotSeq(Idx), j).val = target
              /\ cpc' = "lo" /\ got' = <<>>
              /\ UNCHANGED <<handleVars, newest, target, max, got_read, dropped,
                             copy, acquired, newestAbs, losses>>
  BY DEF ReadSeq1
<1>t. known \in 0 .. Len(log) /\ Len(log) \in Nat /\ known <= known /\ Start \in Nat
      /\ cview \in [Locs -> 0 .. Len(log)]
  BY Types
<1>2. PICK A \in Nat :
            /\ A <= Begun /\ Wanted <= A /\ IdxAt(A) = Idx /\ (A <= Start => A = Base(Idx))
            /\ j \in 0 .. Len(log) /\ cview[SlotSeq(Idx)] <= j
            /\ StoreAt(SlotSeq(Idx), j).rel \in 0 .. Len(log)
            /\ \/ /\ StoreAt(SlotSeq(Idx), j).val = SeqOf(A)
                  /\ StoreAt(SlotSeq(Idx), j).rel = j
                  /\ j = SeqPos(A) /\ PushAt(j) = A
               \/ StoreAt(SlotSeq(Idx), j).val = 0 /\ Wanted < A
  BY <1>0, <1>t, LoadSeq
<1>3. known' = IF known < StoreAt(SlotSeq(Idx), j).rel THEN StoreAt(SlotSeq(Idx), j).rel ELSE known
  <2>1. known \in Nat /\ StoreAt(SlotSeq(Idx), j).rel \in Nat
    BY <1>2, <1>t
  <2> QED BY <1>1, <2>1, MaxTwo
<1>4. known' \in 0 .. Len(log) /\ known <= known' /\ StoreAt(SlotSeq(Idx), j).rel <= known'
  BY <1>2, <1>3, <1>t
<1>5. CASE Miss
  BY <1>0, <1>1, <1>2, <1>4, <1>5, MissStep
<1>6. CASE /\ StoreAt(SlotSeq(Idx), j).val = target
           /\ cpc' = "lo" /\ got' = <<>>
           /\ UNCHANGED <<handleVars, newest, target, max, got_read, dropped,
                          copy, acquired, newestAbs, losses>>
  <2>0. /\ Idx \in 0 .. N - 1 /\ SlotSeq(Idx) \in Locs /\ SlotSeq(Idx) # Published
        /\ target # 0 /\ Wanted \in Nat \ {0} /\ target = SeqOf(Wanted)
    BY <1>0, Target, Locations
  <2>1. /\ cview' \in [Locs -> 0 .. Len(log)] /\ cview'[Published] = cview[Published]
        /\ cview'[SlotSeq(Idx)] = j
    BY <1>1, <1>2, <1>t, <2>0, Locations DEF Saw
  <2>2. UNCHANGED <<last_seq, pos, consumer_taken, dropped_accum, log, pushes, ppc>>
    BY <1>0, <1>6 DEF handleVars, producerVars
  <2>3. Cursor'
    <3>1. cview[Published] \in Nat
      BY <1>t, Locations
    <3> QED BY <2>1, <2>2, <3>1, CursorStays
  <2>4. Locals'
    BY <1>0, <1>6, <2>2 DEF Inv, Locals
  <2>5. Sampled'
    <3>1. 5 * (newestAbs - Start) <= known'
      <4>1. newestAbs \in Nat /\ 5 * (newestAbs - Start) <= known
        BY <1>0 DEF Inv, Sampled
      <4> QED BY <1>t, <1>4, <4>1
    <3> QED BY <1>0, <1>6, <2>1, <2>2, <3>1 DEF Inv, Sampled, Wanted
  <2>6. Copying'
    <3>1. StoreAt(SlotSeq(Idx), j).val = SeqOf(A) /\ j = SeqPos(A)
          /\ StoreAt(SlotSeq(Idx), j).rel = j
      BY <1>2, <1>6, <2>0
    <3>2. SeqOf(A) = target /\ A \in 1 .. Begun /\ A >= Wanted
      BY <1>2, <1>6, <2>0, <3>1, Types
    <3>3. SeqPos(A) <= known' /\ SeqPos(A) <= cview'[SlotSeq(Idx)]
      BY <1>2, <1>4, <1>t, <2>1, <3>1
    <3>4. Idx' = Idx /\ Wanted' = Wanted /\ Begun' = Begun /\ target' = target
      BY <1>6, <2>2 DEF Idx, Wanted, Begun
    <3> QED BY <1>2, <1>6, <3>2, <3>3, <3>4 DEF Copying
  <2>7. GenuineItem'
    BY <1>6 DEF GenuineItem
  <2>8. /\ last_seq' \in 0 .. Modulus - 1 /\ newest' \in 0 .. Modulus - 1
        /\ target' \in 0 .. Modulus - 1 /\ dropped_accum' \in 0 .. UsizeMax /\ target' # 0
    BY <1>6, <2>0, <2>2 DEF Inv, TypeOK
  <2> QED BY <1>0, <1>4, <1>6, <2>1, <2>3, <2>4, <2>5, <2>6, <2>7, <2>8, ConsumerStep
<1> QED BY <1>1, <1>5, <1>6

\* A word copied now is that of the push the first load found, or of a later one.
LEMMA WordCopied ==
    ASSUME Inv, cpc \in {"lo", "hi"}, NEW loc \in {Lo(Idx), Hi(Idx)},
           NEW j \in Visible(loc, known),
           NEW p \in 1 .. Begun, SeqOf(p) = target, p <= Start => p = Base(Idx),
           SeqPos(p) <= known
    PROVE  LET A == StoreAt(loc, j).val
           IN  /\ A \in Nat /\ A >= p
               /\ StoreAt(loc, j).rel \in 0 .. Len(log) /\ j \in 0 .. Len(log)
               /\ A > p => /\ A > Start /\ IdxAt(A) = Idx
                           /\ 5 * (A - Start) - 4 <= StoreAt(loc, j).rel
<1>0. Start \in Nat /\ Len(log) \in Nat /\ known \in 0 .. Len(log) /\ p \in Nat
      /\ Begun \in Nat
  BY Types
<1>1. Idx \in 0 .. N - 1 /\ IdxAt(p) = Idx
  BY <1>0, Target
<1>2. PICK A \in Nat :
            /\ StoreAt(loc, j).val = A /\ A <= Begun /\ (A <= Start => A = Base(Idx))
            /\ StoreAt(loc, j).rel \in 0 .. Len(log) /\ j \in 0 .. Len(log)
            /\ A > Start => IdxAt(A) = Idx /\ StoreAt(loc, j).rel = 5 * (A - Start) - 4
            /\ \A a \in Nat : a > Start /\ IdxAt(a) = Idx /\ 5 * (a - Start) - 1 <= known => a <= A
  BY <1>1, ReadWord
<1>3. A >= p /\ (A > p => A > Start)
  <2>1. CASE p > Start
    <3>1. 5 * (p - Start) - 1 <= known
      BY <1>0, <2>1 DEF SeqPos
    <3>2. p <= A
      BY <1>0, <1>1, <1>2, <2>1, <3>1
    <3> QED BY <1>0, <2>1, <3>2
  <2>2. CASE ~(p > Start)
    <3>1. p = Base(Idx)
      BY <1>0, <2>2
    <3>2. A <= Start => A = p
      BY <1>2, <3>1
    <3> QED BY <1>0, <2>2, <3>2
  <2> QED BY <2>1, <2>2
<1>4. A > p => 5 * (A - Start) - 4 <= StoreAt(loc, j).rel
  <2>1. 5 * (A - Start) - 4 \in Int
    BY <1>0
  <2> QED BY <1>0, <1>2, <1>3, <2>1
<1> QED BY <1>2, <1>3, <1>4

\* A copied word was written by the push wanted or by one that overwrote it, and in
\* the latter case the re-check is obliged to see the invalidation.
LEMMA CopyInv ==
    ASSUME Inv, NEW w \in 1 .. 2,
           CopyWord(w, IF w = 1 THEN Lo(Idx) ELSE Hi(Idx), IF w = 1 THEN "lo" ELSE "hi",
                    IF w = 1 THEN "hi" ELSE "s2")
    PROVE  Inv'
<1> DEFINE loc == IF w = 1 THEN Lo(Idx) ELSE Hi(Idx)
<1>0. /\ cpc = (IF w = 1 THEN "lo" ELSE "hi") /\ cpc' = (IF w = 1 THEN "hi" ELSE "s2")
      /\ UNCHANGED <<producerVars, handleVars, newest, target, max, got_read,
                     dropped, newestAbs, known, losses, got>>
  BY DEF CopyWord
<1>1. PICK j \in Visible(loc, known) :
          /\ Saw(loc, j)
          /\ copy' = [copy EXCEPT ![w] = StoreAt(loc, j).val]
          /\ acquired' = Max({acquired, StoreAt(loc, j).rel})
  BY DEF CopyWord
<1>t. known \in 0 .. Len(log) /\ Len(log) \in Nat /\ Start \in Nat
      /\ cview \in [Locs -> 0 .. Len(log)] /\ acquired \in 0 .. Len(log)
      /\ copy \in [1 .. 2 -> Nat]
  BY Types DEF Inv, Locals
<1>2. PICK p \in 1 .. Begun :
            /\ p >= Wanted /\ SeqOf(p) = target /\ (p <= Start => p = Base(Idx))
            /\ SeqPos(p) <= known /\ SeqPos(p) <= cview[SlotSeq(Idx)]
            /\ cpc \in {"hi", "s2"} => Copied(1, p)
  BY <1>0 DEF Inv, Copying
<1>3. PICK A \in Nat, r \in 0 .. Len(log) :
            /\ A = StoreAt(loc, j).val /\ r = StoreAt(loc, j).rel
            /\ A >= p /\ j \in 0 .. Len(log)
            /\ A > p => /\ A > Start /\ IdxAt(A) = Idx
                        /\ 5 * (A - Start) - 4 <= r
  <2>1. cpc \in {"lo", "hi"} /\ loc \in {Lo(Idx), Hi(Idx)}
    BY <1>0
  <2> HIDE DEF loc
  <2> QED BY <1>1, <1>2, <2>1, WordCopied
<1>4. acquired' = IF acquired < r THEN r ELSE acquired
  <2>1. acquired \in Nat /\ r \in Nat
    BY <1>t
  <2> QED BY <1>1, <1>3, <2>1, MaxTwo
<1>5. acquired' \in 0 .. Len(log) /\ acquired <= acquired' /\ r <= acquired'
  BY <1>4, <1>t
<1>6. copy' \in [1 .. 2 -> Nat] /\ copy'[w] = A /\ (w = 2 => copy'[1] = copy[1])
  BY <1>1, <1>3, <1>t
<1>7. Idx \in 0 .. N - 1 /\ loc \in Locs /\ loc # Published /\ loc # SlotSeq(Idx)
      /\ SlotSeq(Idx) \in Locs /\ target # 0
  BY <1>0, Target, Locations
<1> HIDE DEF loc
<1>8. cview' \in [Locs -> 0 .. Len(log)] /\ cview'[Published] = cview[Published]
      /\ cview'[SlotSeq(Idx)] = cview[SlotSeq(Idx)]
  BY <1>1, <1>3, <1>7, <1>t, Locations DEF Saw
<1>9. UNCHANGED <<last_seq, pos, consumer_taken, dropped_accum, log, pushes, ppc>>
      /\ UNCHANGED <<newest, target, max, dropped, newestAbs, known, got>>
  BY <1>0 DEF handleVars, producerVars
<1>10. Cursor'
  <2>1. cview[Published] \in Nat
    BY <1>t, Locations
  <2> QED BY <1>8, <1>9, <2>1, CursorStays
<1>11. Locals'
  BY <1>0, <1>5, <1>6, <1>9 DEF Inv, Locals
<1>12. Sampled'
  BY <1>0, <1>8, <1>9 DEF Inv, Sampled, Wanted
<1>13. Copying'
  <2>1. Idx' = Idx /\ Wanted' = Wanted /\ Begun' = Begun /\ target' = target
    BY <1>9 DEF Idx, Wanted, Begun
  <2>2. Copied(w, p)'
    <3>1. A > p => 5 * (A - Start) - 4 <= acquired'
      <4>1. 5 * (A - Start) - 4 \in Int /\ acquired' \in Int
        BY <1>5, <1>t
      <4> QED BY <1>3, <1>5, <4>1
    <3> QED BY <1>3, <1>6, <2>1, <3>1 DEF Copied
  <2>3. w = 2 => Copied(1, p)'
    <3>1. ASSUME w = 2 PROVE Copied(1, p)'
      <4>1. Copied(1, p) /\ copy'[1] = copy[1] /\ copy[1] \in Nat
        BY <1>0, <1>2, <1>6, <1>t, <3>1
      <4>2. copy[1] > p => 5 * (copy[1] - Start) - 4 <= acquired'
        <5>1. 5 * (copy[1] - Start) - 4 \in Int /\ acquired' \in Int
          BY <1>5, <1>t, <4>1
        <5> QED BY <1>5, <1>t, <4>1, <5>1 DEF Copied
      <4> QED BY <2>1, <4>1, <4>2 DEF Copied
    <3> QED BY <3>1
  <2>4. w = 1 \/ w = 2
    OBVIOUS
  <2>5. /\ p \in 1 .. Begun' /\ p >= Wanted' /\ SeqOf(p) = target' /\ (p <= Start => p = Base(Idx'))
        /\ SeqPos(p) <= known' /\ SeqPos(p) <= cview'[SlotSeq(Idx')]
        /\ cpc' \in {"hi", "s2"} => Copied(1, p)'
        /\ cpc' = "s2" => Copied(2, p)'
    BY <1>0, <1>2, <1>8, <1>9, <2>1, <2>2, <2>3, <2>4
  <2> QED BY <2>5 DEF Copying
<1>14. GenuineItem'
  BY <1>9 DEF Inv, GenuineItem
<1>15. /\ last_seq' \in 0 .. Modulus - 1 /\ newest' \in 0 .. Modulus - 1
       /\ target' \in 0 .. Modulus - 1 /\ dropped_accum' \in 0 .. UsizeMax /\ target' # 0
       /\ known' \in 0 .. Len(log)
  BY <1>7, <1>9, <1>t DEF Inv, TypeOK
<1> QED BY <1>0, <1>8, <1>10, <1>11, <1>12, <1>13, <1>14, <1>15, ConsumerStep

\* The re-check: the sequence unchanged means the copy is whole, or a span has gone by.
LEMMA Read2Inv == ASSUME Inv, ReadSeq2 PROVE Inv'
<1>0. cpc = "s2" /\ UNCHANGED producerVars /\ known' = AfterFence
  BY DEF ReadSeq2
<1>t. known \in 0 .. Len(log) /\ Len(log) \in Nat /\ Start \in Nat /\ Begun \in Nat
      /\ acquired \in 0 .. Len(log) /\ copy \in [1 .. 2 -> Nat]
  BY Types DEF Inv, Locals
<1>1. AfterFence \in 0 .. Len(log) /\ known <= AfterFence /\ acquired <= AfterFence
  <2>1. AfterFence = IF known < acquired THEN acquired ELSE known
    <3>1. known \in Nat /\ acquired \in Nat
      BY <1>t
    <3> QED BY <3>1, MaxTwo DEF AfterFence
  <2> QED BY <1>t, <2>1
<1>2. PICK j \in Visible(SlotSeq(Idx), AfterFence) :
          /\ Saw(SlotSeq(Idx), j)
          /\ \/ StoreAt(SlotSeq(Idx), j).val # target /\ Miss
             \/ StoreAt(SlotSeq(Idx), j).val = target /\ Hit(PushAt(j))
  BY DEF ReadSeq2
<1>3. PICK p \in 1 .. Begun :
            /\ p >= Wanted /\ SeqOf(p) = target /\ (p <= Start => p = Base(Idx))
            /\ SeqPos(p) <= known /\ Copied(1, p) /\ Copied(2, p)
  BY <1>0 DEF Inv, Copying
<1>4. /\ Wanted \in Nat \ {0} /\ target = SeqOf(Wanted) /\ target # 0
      /\ Idx \in 0 .. N - 1 /\ IdxAt(p) = Idx
  BY <1>0, <1>3, <1>t, Target
<1>5. PICK A \in Nat :
            /\ A <= Begun /\ p <= A /\ IdxAt(A) = Idx /\ (A <= Start => A = Base(Idx))
            /\ j \in 0 .. Len(log)
            /\ \/ StoreAt(SlotSeq(Idx), j).val = SeqOf(A) /\ PushAt(j) = A
               \/ StoreAt(SlotSeq(Idx), j).val = 0 /\ p < A
            /\ \A a \in Nat : a > Start /\ IdxAt(a) = Idx /\ 5 * (a - Start) - 4 <= AfterFence
                    => a <= A
  <2>1. p \in Nat \ {0} /\ (p <= Start => p <= Base(Idx))
    BY <1>3, <1>t
  <2>2. p > Start => 5 * (p - Start) - 1 <= AfterFence
    <3>1. p > Start => SeqPos(p) = 5 * (p - Start) - 1
      BY <1>t, <2>1 DEF SeqPos
    <3>2. SeqPos(p) <= known
      BY <1>3
    <3> QED BY <1>1, <1>t, <2>1, <3>1, <3>2
  <2> QED BY <1>0, <1>1, <1>4, <2>1, <2>2, NotOlder
<1>6. CASE StoreAt(SlotSeq(Idx), j).val # target /\ Miss
  BY <1>0, <1>1, <1>2, <1>5, <1>6, MissStep
<1>7. CASE StoreAt(SlotSeq(Idx), j).val = target /\ Hit(PushAt(j))
  <2>1. SeqOf(A) = SeqOf(Wanted) /\ PushAt(j) = A
    BY <1>4, <1>5, <1>7
  <2>2. CASE A = Wanted
    \* No later push has been begun that the fence acquires: the words are p's own.
    <3>1. p = Wanted
      BY <1>3, <1>4, <1>5, <2>2
    <3>2. ASSUME NEW w \in 1 .. 2, Copied(w, p) PROVE copy[w] = Wanted
      <4>1. copy[w] \in Nat /\ copy[w] >= p
        BY <1>t, <3>2 DEF Copied
      <4>2. ASSUME copy[w] > p PROVE FALSE
        <5>1. copy[w] > Start /\ IdxAt(copy[w]) = Idx /\ 5 * (copy[w] - Start) - 4 <= acquired
          BY <3>2, <4>2 DEF Copied
        <5>2. 5 * (copy[w] - Start) - 4 <= AfterFence
          <6>1. 5 * (copy[w] - Start) - 4 \in Int
            BY <1>t, <4>1
          <6> QED BY <1>1, <1>t, <5>1, <6>1
        <5>3. copy[w] <= A
          BY <1>5, <4>1, <5>1, <5>2
        <5> QED BY <2>2, <3>1, <4>1, <4>2, <5>3
      <4> QED BY <3>1, <4>1, <4>2
    <3>3. copy[1] = Wanted /\ copy[2] = Wanted
      BY <1>3, <3>2
    <3> QED BY <1>0, <1>1, <1>2, <1>5, <1>7, <3>3, HitStep
  <2>3. CASE A # Wanted
    <3>1. Wanted < A /\ A \in Nat \ {0}
      BY <1>3, <1>4, <1>5, <2>3
    <3>2. A - Wanted >= Span /\ (A - Wanted) % Span = 0
      BY <1>4, <2>1, <3>1, SeqSame
    <3> QED BY <1>0, <1>1, <1>2, <1>5, <1>7, <2>1, <3>2, HitStep
  <2> QED BY <2>2, <2>3
<1> QED BY <1>2, <1>6, <1>7

-----------------------------------------------------------------------------
(* The invariant, and what it says.                                        *)

\* The invariant reads nothing but the state.
LEMMA StutterInv == ASSUME Inv, UNCHANGED vars PROVE Inv'
<1>1. UNCHANGED <<producerVars, handleVars, callVars, losses, known, cview, cpc, got>>
  BY DEF vars
<1>2. /\ UNCHANGED <<next_seq, log, fenced, producer_taken, ppc, pseq, pushes>>
      /\ UNCHANGED <<consumer_taken, last_seq, dropped_accum, pos>>
      /\ UNCHANGED <<newest, target, max, got_read, dropped, copy, acquired, newestAbs>>
      /\ UNCHANGED <<known, cview, cpc, got>>
  BY <1>1 DEF producerVars, handleVars, callVars
<1>3. Logged' /\ Numbered' /\ Begun' = Begun
  BY <1>2, LogStays
<1>4. TypeOK' /\ Producing' /\ Locals' /\ GenuineItem'
  BY <1>2, <1>3 DEF Inv, TypeOK, Producing, Locals, GenuineItem
<1>5. Cursor' /\ Sampled'
  BY <1>2 DEF Inv, Cursor, AtCursor, Sampled, Wanted
<1>6. Copying'
  BY <1>2, <1>3 DEF Inv, Copying, Copied, Wanted, Idx
<1> QED BY <1>3, <1>4, <1>5, <1>6 DEF Inv

\* Every step preserves the invariant.
LEMMA NextInv == ASSUME Inv, [Next]_vars PROVE Inv'
<1>1. ASSUME Calls PROVE Inv'
  <2>1. ASSUME NEW m \in 0 .. MaxPoll, PollBegin(m) PROVE Inv'
    BY <2>1, PollBeginInv DEF PollBegin
  <2> QED BY <1>1, <2>1, LatestBeginInv, SkipInv DEF Calls
<1>2. ASSUME Steps PROVE Inv'
  <2>1. ASSUME CopyLo PROVE Inv'
    <3>1. 1 \in 1 .. 2
      OBVIOUS
    <3> QED BY <2>1, <3>1, CopyInv DEF CopyLo
  <2>2. ASSUME CopyHi PROVE Inv'
    <3>1. 2 \in 1 .. 2 /\ ~(2 = 1)
      OBVIOUS
    <3> QED BY <2>2, <3>1, CopyInv DEF CopyHi
  <2> QED BY <1>2, <2>1, <2>2, Read1Inv, Read2Inv DEF Steps
<1> QED BY <1>1, <1>2, StutterInv, PushInv, ProducerHandle, ConsumerHandle DEF Next

\* The inductive invariant holds: what every theorem below rests on.
THEOREM Invariance == Spec => []Inv
<1>1. Init => Inv
  BY InitInv
<1>2. Inv /\ [Next]_vars => Inv'
  BY NextInv
<1> QED BY <1>1, <1>2, PTL DEF Spec

\* Type correctness: every sequence push, the poll and latest compute is a u32
\* value, and no read is ever after the reserved 0.
THEOREM TypeCorrect == Spec => []TypeOK
<1>1. Inv => TypeOK
  BY DEF Inv
<1> QED BY <1>1, Invariance, PTL

\* GenuineItem: the check of slot_seq before and after the copy, with its two
\* fences, gives a hook only words that one push wrote, and that push is the one
\* the sequence names, unless it is one a number of whole spans later.
THEOREM Genuine == Spec => []GenuineItem
<1>1. Inv => GenuineItem
  BY DEF Inv
<1> QED BY <1>1, Invariance, PTL

\* CursorExact: the turns and the jump of poll_up_to and the move of skip_to_latest
\* take last_seq to the sequence of the push they take the cursor to, also across
\* the wrap past the reserved 0.
THEOREM Exact == Spec => []CursorExact
<1>1. Inv => CursorExact
  BY DEF Inv, Cursor, CursorExact, AtCursor
<1> QED BY <1>1, Invariance, PTL

\* PollBounded: the lag test leaves a poll between one and N turns before the mark
\* it froze at its entry.
THEOREM Bounded == Spec => []PollBounded
<1>1. Inv => PollBounded
  BY DEF Inv, Sampled, PollBounded
<1> QED BY <1>1, Invariance, PTL

\* CursorNear: a poll that found something ends at most N - 1 pushes before that
\* mark, whatever the producer does.
THEOREM Near == Spec => CursorNear
<1>1. ASSUME Inv, [Next]_vars, cpc # "idle", max > 0, cpc' = "idle"
      PROVE  Behind(newestAbs, pos') \in 0 .. N - 1
  <2>1. ReadSeq1 \/ ReadSeq2
    <3>1. ~Calls
      BY <1>1 DEF Calls, LatestBegin, SkipToLatest, PollBegin, PollBeginAt, newest_seq
    <3>2. ~(TryProducer \/ DropProducer \/ Push)
      BY <1>1 DEF TryProducer, DropProducer, Push, PushInvalidate, PushLo, PushHi, PushSeq,
                  PushPublish, PushTo
    <3>3. ~(TryConsumer \/ DropConsumer \/ ResetDropped)
      BY <1>1 DEF TryConsumer, DropConsumer, ResetDropped
    <3>4. ~CopyLo /\ ~CopyHi
      BY <1>1 DEF CopyLo, CopyHi, CopyWord
    <3>5. ~UNCHANGED vars
      BY <1>1 DEF vars
    <3> QED BY <1>1, <3>1, <3>2, <3>3, <3>4, <3>5 DEF Next, Steps
  <2>2. Miss \/ \E A : Hit(A)
    BY <1>1, <2>1 DEF ReadSeq1, ReadSeq2
  <2>3. pos' = pos + 1
    <3>1. max # 0
      BY <1>1
    <3> QED BY <2>2, <3>1 DEF Miss, Hit, Advance
  <2>4. /\ newestAbs \in Nat /\ pos + 1 \in 1 .. newestAbs /\ pos # -1
        /\ Behind(newestAbs, pos) \in 1 .. N
    BY <1>1 DEF Inv, Sampled, Wanted
  <2>5. pos \in Nat /\ pos + 1 <= newestAbs
    BY <1>1, <2>4 DEF Inv, Cursor
  <2> QED BY <2>3, <2>4, <2>5, BehindNext
<1>2. Inv /\ [Next]_vars => [cpc # "idle" /\ max > 0 /\ cpc' = "idle"
                                => Behind(newestAbs, pos') \in 0 .. N - 1]_vars
  BY <1>1
<1> QED BY <1>2, Invariance, PTL DEF Spec, CursorNear

\* If the capacity divides the span, a slot comes round every N pushes.
LEMMA SlotTurn ==
    ASSUME Span % N = 0, NEW a \in Nat \ {0}, NEW b \in Nat \ {0}, a < b, IdxAt(a) = IdxAt(b)
    PROVE  b - a >= N
<1>0. PICK S \in Nat \ {0}, M \in Nat \ {0}, n \in Nat \ {0} :
         S = Span /\ M = Modulus /\ M = S + 1 /\ n = N /\ S % n = 0
  BY Consts
<1>1. ASSUME NEW k \in Nat \ {0} PROVE IdxAt(k) = (k - 1) % n
  <2>1. PICK c \in Int : c = k - 1
    OBVIOUS
  <2>2. PICK r \in 0 .. S - 1 : r = c % S
    BY ModRange
  <2>3. SeqOf(k) = r + 1
    BY <1>0, <2>1, <2>2 DEF SeqOf
  <2>4. r \in 0 .. M - 1 /\ (r + 1) - 1 = r
    BY <1>0
  <2>5. r % M = r
    BY <2>4, ModSmall
  <2>6. IdxAt(k) = r % n
    BY <1>0, <2>3, <2>4, <2>5 DEF IdxAt, idx_for, wrapping_sub
  <2>7. (c % S) % n = c % n
    BY <1>0, ModMod
  <2> QED BY <2>1, <2>2, <2>6, <2>7
<1>2. PICK c \in Int, d \in Int : c = a - 1 /\ d = b - 1 /\ c < d
  OBVIOUS
<1>3. c % n = d % n
  BY <1>1, <1>2
<1>4. d - c >= n
  BY <1>2, <1>3, ModApart
<1> QED BY <1>0, <1>2, <1>4

\* A poll that turns leaves missed alone, or adds the push it was after if that is
\* early.
LEMMA MissedStep ==
    ASSUME Inv, [Next]_vars, missed = {}, Span % N = 0
    PROVE  missed' = {}
<1>1. CASE TryProducer \/ DropProducer \/ Push
  BY <1>1 DEF TryProducer, DropProducer, Push, PushInvalidate, PushLo, PushHi, PushSeq,
              PushPublish, PushTo, losses
<1>2. CASE TryConsumer \/ DropConsumer \/ ResetDropped
  BY <1>2 DEF TryConsumer, DropConsumer, ResetDropped, losses
<1>3. CASE Calls
  BY <1>3 DEF Calls, LatestBegin, SkipToLatest, PollBegin, PollBeginAt, losses
<1>4. CASE CopyLo \/ CopyHi
  BY <1>4 DEF CopyLo, CopyHi, CopyWord, losses
<1>5. CASE UNCHANGED vars
  BY <1>5 DEF vars, losses
<1>6. ASSUME cpc # "idle", NEW p \in 0 .. Len(log), known <= p,
             NEW j \in Visible(SlotSeq(Idx), p), StoreAt(SlotSeq(Idx), j).val # target, Miss
      PROVE  missed' = {}
  <2>1. CASE max > 0
    <3>1. Advance(0, 1)
      <4>1. max # 0
        BY <2>1
      <4> QED BY <1>6, <4>1 DEF Miss
    <3>2. PICK w \in Nat \ {0} : w = Wanted
      BY <1>6, Target
    <3>3. PICK A \in Nat : w < A /\ A <= Begun /\ IdxAt(A) = IdxAt(w)
      BY <1>6, <3>2, Missed
    <3>4. A - w >= N
      BY <3>3, SlotTurn
    <3>5. pos + 1 = w /\ Begun \in Nat /\ N \in Nat
      BY <2>1, <3>2, Types, Consts DEF Wanted
    <3>6. Early(pos, pos + 1) = {}
      <4>1. ASSUME NEW k \in pos + 1 .. pos + 1 PROVE ~(Begun - k < N)
        <5>1. k = w
          BY <3>5, <4>1
        <5> QED BY <3>3, <3>4, <3>5, <5>1
      <4> QED BY <4>1 DEF Early
    <3> QED BY <3>1, <3>6 DEF Advance
  <2>2. CASE ~(max > 0)
    BY <1>6, <2>2 DEF Miss, losses
  <2> QED BY <2>1, <2>2
<1>t. known \in 0 .. Len(log) /\ acquired \in 0 .. Len(log) /\ Len(log) \in Nat
  BY Types
<1>7. CASE ReadSeq1
  <2>1. PICK j \in Visible(SlotSeq(Idx), known) :
          \/ StoreAt(SlotSeq(Idx), j).val # target /\ Miss
          \/ UNCHANGED losses
    BY <1>7 DEF ReadSeq1, losses
  <2>2. cpc # "idle" /\ known <= known
    BY <1>7, <1>t DEF ReadSeq1
  <2> QED BY <1>6, <1>t, <2>1, <2>2 DEF losses
<1>8. CASE ReadSeq2
  <2>1. PICK j \in Visible(SlotSeq(Idx), AfterFence) :
          \/ StoreAt(SlotSeq(Idx), j).val # target /\ Miss
          \/ Hit(PushAt(j))
    BY <1>8 DEF ReadSeq2
  <2>2. cpc # "idle"
    BY <1>8 DEF ReadSeq2
  <2>3. AfterFence \in 0 .. Len(log) /\ known <= AfterFence
    <3>1. AfterFence = IF known < acquired THEN acquired ELSE known
      <4>1. known \in Nat /\ acquired \in Nat
        BY <1>t
      <4> QED BY <4>1, MaxTwo DEF AfterFence
    <3> QED BY <1>t, <3>1
  <2>4. CASE StoreAt(SlotSeq(Idx), j).val # target /\ Miss
    BY <1>6, <2>2, <2>3, <2>4
  <2>5. CASE Hit(PushAt(j))
    BY <2>5 DEF Hit, Advance, losses
  <2> QED BY <2>1, <2>4, <2>5
<1> QED BY <1>1, <1>2, <1>3, <1>4, <1>5, <1>7, <1>8 DEF Next, Steps

\* NoEarlyMiss: if the capacity divides the number of sequences, a poll drops an
\* entry by a failed read only when N newer pushes have been begun.  The hypothesis
\* is what the capacity advice of the module's documentation is about.
THEOREM NoneMissed == ASSUME Span % N = 0 PROVE Spec => []NoEarlyMiss
<1>1. Init => missed = {}
  BY DEF Init
<1>2. Inv /\ missed = {} /\ [Next]_vars => (missed = {})'
  BY MissedStep
<1>3. missed = {} => NoEarlyMiss
  BY DEF NoEarlyMiss
<1> QED BY <1>1, <1>2, <1>3, Invariance, PTL DEF Spec

\* JumpOverOne: the jump to new - (N - 1) - 1, also where that wraps past the
\* reserved 0, passes over at most one entry that fewer than N newer ones follow.
THEOREM JumpsOne == Spec => JumpOverOne
<1>1. ASSUME NEW x, NEW T, T \subseteq {x} PROVE Cardinality(T) <= 1
  <2>1. T = {} \/ T = {x}
    BY <1>1
  <2>2. Cardinality({}) = 0 /\ Cardinality({x}) = 1
    BY FS_EmptySet, FS_Singleton
  <2> QED BY <2>1, <2>2
<1>2. ASSUME Inv, NEW m \in 0 .. MaxPoll, NEW j \in Visible(Published, known), PollBeginAt(m, j)
      PROVE  \E x : jumpedOver' \ jumpedOver \subseteq {x}
  <2> DEFINE new == StoreAt(Published, j).val
             from == IF pos = -1 THEN AbsAt(j) - new ELSE pos
             jumped == IF Lags(last_seq, new)
                       THEN seq_distance(last_seq, resume_after(new)) ELSE 0
  <2>0. newest_seq(j)
    BY <1>2 DEF PollBeginAt
  <2>1. PICK A \in Nat : /\ Start <= A /\ A <= Begun /\ j = 5 * (A - Start)
                         /\ StoreAt(Published, j).val = SeqOf(A) /\ AbsAt(j) = A
                         /\ cview[Published] <= j
    BY <1>2, <2>0, NewestSeq
  <2>2. CASE UNCHANGED jumpedOver
    BY <2>2
  <2>3. CASE new \notin {0, last_seq} /\ jumpedOver' = jumpedOver \cup Early(from, from + jumped)
    <3>1. PICK f \in Nat, d \in Nat :
             f = from /\ d = jumped /\ (d # 0 => f + d <= A - N + 1)
      <4>1. SeqOf(A) \notin {0, last_seq} /\ cview[Published] <= 5 * (A - Start)
        BY <2>1, <2>3
      <4>2. from = (IF pos = -1 THEN A - SeqOf(A) ELSE pos) /\ new = SeqOf(A)
        BY <2>1
      <4> QED BY <1>2, <2>1, <4>1, <4>2, PollFrom
    <3>2. Begun \in Nat /\ N \in Nat \ {0}
      BY <1>2, Types, Consts
    <3>3. Early(f, f + d) \subseteq {A - N + 1}
      <4>1. ASSUME NEW k \in f + 1 .. f + d, Begun - k < N PROVE k = A - N + 1
        BY <2>1, <3>1, <3>2, <4>1
      <4> QED BY <4>1 DEF Early
    <3>4. jumpedOver' \ jumpedOver \subseteq {A - N + 1}
      BY <2>3, <3>1, <3>3
    <3> QED BY <3>4
  <2> QED BY <1>2, <2>2, <2>3 DEF PollBeginAt
<1>3. ASSUME Inv, [Next]_vars PROVE Cardinality(jumpedOver' \ jumpedOver) <= 1
  <2>1. CASE \E m \in 0 .. MaxPoll : PollBegin(m)
    <3>1. \E x : jumpedOver' \ jumpedOver \subseteq {x}
      BY <1>2, <1>3, <2>1 DEF PollBegin
    <3> QED BY <1>1, <3>1
  <2>2. CASE ~(\E m \in 0 .. MaxPoll : PollBegin(m))
    <3>1. jumpedOver' \in {jumpedOver, {}}
      BY <1>3, <2>2 DEF Next, TryProducer, DropProducer, Push, PushInvalidate, PushLo, PushHi,
           PushSeq, PushPublish, PushTo, TryConsumer, DropConsumer, ResetDropped, Calls,
           LatestBegin, SkipToLatest, Steps, ReadSeq1, CopyLo, CopyHi, CopyWord, ReadSeq2,
           Miss, Hit, Advance, losses, vars
    <3>2. jumpedOver' \ jumpedOver \subseteq {0}
      BY <3>1
    <3> QED BY <1>1, <3>2
  <2> QED BY <2>1, <2>2
<1>4. Inv /\ [Next]_vars => [Cardinality(jumpedOver' \ jumpedOver) <= 1]_vars
  BY <1>3
<1> QED BY <1>4, Invariance, PTL DEF Spec, JumpOverOne

-----------------------------------------------------------------------------
(* What the counts add up to: Counts is inductive beside Inv.              *)

\* The counts add up, and nothing is counted outside a poll.
Counts ==
    /\ {pos, excused, entry, got_read} \subseteq Int
    /\ {dropped, dropped_accum} \subseteq 0 .. UsizeMax
    /\ max = 0 => dropped = 0
    /\ EveryPushCounted

\* Adding d to one of two counters adds it to their sum, and so does adding the one
\* to the other; each up to the limit.
LEMMA SaturatedSum ==
    ASSUME NEW a \in 0 .. UsizeMax, NEW b \in 0 .. UsizeMax, NEW d \in Nat, NEW n \in Int,
           Saturated(a + b) = Saturated(n)
    PROVE  /\ saturating_add(b, d) \in 0 .. UsizeMax
           /\ Saturated(a + saturating_add(b, d)) = Saturated(n + d)
           /\ saturating_add(a, saturating_add(b, d)) \in 0 .. UsizeMax
           /\ saturating_add(a, saturating_add(b, d)) = Saturated(n + d)
           /\ Saturated(saturating_add(a, saturating_add(b, d))) = Saturated(n + d)
<1>1. UsizeMax \in Nat
  BY Consts
<1> QED BY <1>1 DEF Saturated, saturating_add

\* The counts of a poll's turn, by itself.
LEMMA SaturatedTurn ==
    ASSUME NEW b \in 0 .. UsizeMax, NEW d \in Nat, NEW n \in Int, b = Saturated(n)
    PROVE  saturating_add(b, d) = Saturated(n + d)
<1>1. UsizeMax \in Nat
  BY Consts
<1> QED BY <1>1 DEF Saturated, saturating_add

\* Outside a poll its locals count nothing.
LEMMA CountsIdle ==
    ASSUME Inv, cpc = "idle"
    PROVE  max = 0
BY DEF Inv, Locals

\* A step that leaves the sums alone.
LEMMA CountsSame ==
    ASSUME Counts, UNCHANGED <<pos, excused, entry, got_read, dropped, dropped_accum, max>>
    PROVE  Counts'
BY DEF Counts, EveryPushCounted, Saturated

\* A new handle, or a reset count, starts from nothing.
LEMMA CountsHandle ==
    ASSUME Inv, Counts, TryConsumer \/ DropConsumer \/ ResetDropped
    PROVE  Counts'
<1>1. cpc = "idle"
  BY DEF Inv, Locals, TryConsumer, DropConsumer, ResetDropped
<1>2. max = 0 /\ dropped = 0
  BY <1>1, CountsIdle DEF Counts
<1>3. pos' \in Int /\ excused' = pos' /\ dropped_accum' = 0
  BY DEF Counts, TryConsumer, DropConsumer, ResetDropped
<1>4. UNCHANGED <<max, dropped, entry, got_read>>
  BY DEF TryConsumer, DropConsumer, ResetDropped, callVars
<1>5. 0 \in 0 .. UsizeMax
  BY Consts
<1>6. dropped_accum' + dropped' = 0 /\ pos' - excused' = 0
  <2>1. pos' - excused' = 0
    <3>1. \A p \in Int : p - p = 0
      OBVIOUS
    <3>2. pos' - excused' = pos' - pos'
      BY <1>3, Zenon
    <3> QED BY <1>3, <3>1, <3>2, Zenon
  <2>2. dropped_accum' = 0 /\ dropped' = 0
    BY <1>2, <1>3, <1>4
  <2>3. dropped_accum' + dropped' = 0
    BY ONLY <2>2
  <2> QED BY <2>1, <2>3
<1>7. EveryPushCounted'
  BY <1>2, <1>4, <1>6 DEF EveryPushCounted
<1>8. entry \in Int /\ got_read \in Int
  BY DEF Counts
<1> QED BY <1>2, <1>3, <1>4, <1>5, <1>7, <1>8 DEF Counts

\* A poll that has something to do starts its count with what its jump passes.
LEMMA CountsPoll ==
    ASSUME Inv, Counts, NEW m \in 0 .. MaxPoll, NEW j \in Visible(Published, known),
           PollBeginAt(m, j)
    PROVE  Counts'
<1> DEFINE new == StoreAt(Published, j).val
           from == IF pos = -1 THEN AbsAt(j) - new ELSE pos
           jump == Lags(last_seq, new)
           jumped == IF jump THEN seq_distance(last_seq, resume_after(new)) ELSE 0
<1>0. newest_seq(j) /\ cpc = "idle" /\ dropped_accum' = dropped_accum
  BY DEF PollBeginAt, newest_seq
<1>1. CASE UNCHANGED <<last_seq, pos, excused, jumpedOver, cpc, callVars>>
  BY <1>0, <1>1, CountsSame DEF callVars
<1>2. CASE /\ m > 0 /\ new \notin {0, last_seq}
           /\ max' = m /\ got_read' = 0 /\ dropped' = saturating_add(0, jumped)
           /\ pos' = from + jumped /\ entry' = from /\ excused' = excused + (from - pos)
  <2>1. PICK A \in Nat : /\ Start <= A /\ A <= Begun /\ j = 5 * (A - Start)
                         /\ StoreAt(Published, j).val = SeqOf(A) /\ AbsAt(j) = A
                         /\ cview[Published] <= j
    BY <1>0, NewestSeq
  <2>2. PICK f \in Nat, d \in Nat : f = from /\ d = jumped
    <3>1. SeqOf(A) \notin {0, last_seq} /\ cview[Published] <= 5 * (A - Start)
      BY <1>2, <2>1
    <3>2. from = (IF pos = -1 THEN A - SeqOf(A) ELSE pos) /\ new = SeqOf(A)
      BY <2>1
    <3>3. from \in Nat /\ jumped \in Nat
      BY <2>1, <3>1, <3>2, PollFrom
    <3> QED BY <3>3
  <2> HIDE DEF new, from, jump, jumped
  <2>3. max = 0 /\ dropped = 0
    BY <1>0, CountsIdle DEF Counts
  <2>4. /\ pos \in Int /\ excused \in Int /\ dropped_accum \in 0 .. UsizeMax
        /\ 0 \in 0 .. UsizeMax /\ UsizeMax \in Nat
        /\ Saturated(dropped_accum + 0) = Saturated(pos - excused)
    BY <2>3, Consts DEF Counts, EveryPushCounted
  <2>5. PICK n \in Int : n = pos - excused /\ pos' - excused' = n + d /\ pos' \in Int
                         /\ excused' \in Int /\ pos' - entry' - got_read' = 0 + d
                         /\ entry' \in Int /\ got_read' \in Int
    BY <1>2, <2>2, <2>4
  <2>6. /\ dropped' \in 0 .. UsizeMax
        /\ Saturated(dropped_accum + dropped') = Saturated(n + d)
    BY <1>2, <2>2, <2>4, <2>5, SaturatedSum
  <2>7. dropped' = Saturated(0 + d)
    <3>1. 0 = Saturated(0)
      BY <2>4 DEF Saturated
    <3> QED BY <1>2, <2>2, <2>4, <3>1, SaturatedTurn
  <2>8. EveryPushCounted'
    BY <1>0, <2>5, <2>6, <2>7 DEF EveryPushCounted, Saturated
  <2>9. ~(max' = 0)
    BY <1>2
  <2> QED BY <1>0, <2>4, <2>5, <2>6, <2>8, <2>9 DEF Counts
<1> QED BY <1>1, <1>2 DEF PollBeginAt

\* skip_to_latest moves the cursor and counts nothing.
LEMMA CountsSkip ==
    ASSUME Inv, Counts, SkipToLatest
    PROVE  Counts'
<1>1. PICK j \in Visible(Published, known) :
        /\ newest_seq(j) /\ excused' = excused + (pos' - pos)
        /\ pos' = (IF StoreAt(Published, j).val = 0 THEN pos ELSE AbsAt(j) - 1)
        /\ UNCHANGED <<dropped_accum, callVars>>
  BY DEF SkipToLatest
<1>2. AbsAt(j) \in Nat /\ pos \in Int /\ excused \in Int
  BY <1>1, NewestSeq DEF Counts
<1>3. pos' \in Int /\ excused' \in Int /\ pos' - excused' = pos - excused
  BY <1>1, <1>2
<1>4. max = 0
  BY <1>1, CountsIdle DEF newest_seq
<1>5. UNCHANGED <<dropped_accum, dropped, max, entry, got_read>>
  BY <1>1 DEF callVars
<1>6. EveryPushCounted'
  BY <1>3, <1>4, <1>5 DEF Counts, EveryPushCounted, Saturated
<1> QED BY <1>3, <1>5, <1>6 DEF Counts

\* A turn of the loop passes one push: the hook was given it, or it is dropped.
LEMMA CountsTurn ==
    ASSUME Inv, Counts, max > 0, NEW r \in 0 .. 1, NEW d \in 0 .. 1, r + d = 1,
           Advance(r, d), excused' = excused + r
    PROVE  Counts'
<1>1. /\ {pos, excused, entry, got_read} \subseteq Int
      /\ dropped \in 0 .. UsizeMax /\ dropped_accum \in 0 .. UsizeMax
      /\ Saturated(dropped_accum + dropped) = Saturated(pos - excused)
      /\ dropped = Saturated(pos - entry - got_read)
  BY DEF Counts, EveryPushCounted
<1>2. PICK n \in Int, k \in Int :
         /\ n = pos - excused /\ pos' - excused' = n + d
         /\ k = pos - entry - got_read /\ pos' - entry - (got_read + r) = k + d
         /\ pos' \in Int /\ excused' \in Int /\ got_read + r \in Int
  <2>1. pos' = pos + 1 /\ r \in Int /\ d \in Int /\ 1 - r = d
    BY DEF Advance
  <2> QED BY <1>1, <2>1
<1>3. d \in Nat /\ UsizeMax \in Nat /\ 0 \in 0 .. UsizeMax
  BY Consts
<1>4. /\ saturating_add(dropped, d) \in 0 .. UsizeMax
      /\ Saturated(dropped_accum + saturating_add(dropped, d)) = Saturated(n + d)
      /\ saturating_add(dropped_accum, saturating_add(dropped, d)) \in 0 .. UsizeMax
      /\ Saturated(saturating_add(dropped_accum, saturating_add(dropped, d)))
            = Saturated(n + d)
  BY <1>1, <1>2, <1>3, SaturatedSum
<1>5. saturating_add(dropped, d) = Saturated(k + d)
  BY <1>1, <1>2, <1>3, SaturatedTurn
<1>6. CASE got_read + r = max \/ target = newest
  <2>1. /\ dropped_accum' = saturating_add(dropped_accum, saturating_add(dropped, d))
        /\ max' = 0 /\ dropped' = 0 /\ got_read' = 0 /\ entry' = 0
    BY <1>6 DEF Advance, Return
  <2>2. dropped_accum' \in 0 .. UsizeMax /\ Saturated(dropped_accum') = Saturated(n + d)
    BY <1>4, <2>1
  <2>3. dropped_accum' + dropped' = dropped_accum'
    BY <1>3, <2>1, <2>2
  <2>4. EveryPushCounted'
    BY <1>2, <2>1, <2>2, <2>3 DEF EveryPushCounted, Saturated
  <2> QED BY <1>2, <1>3, <2>1, <2>2, <2>4 DEF Counts
<1>7. CASE ~(got_read + r = max \/ target = newest)
  <2>1. /\ got_read' = got_read + r /\ dropped' = saturating_add(dropped, d)
        /\ UNCHANGED <<max, entry, dropped_accum>>
    BY <1>7 DEF Advance
  <2>2. EveryPushCounted'
    BY <1>2, <1>4, <1>5, <2>1 DEF EveryPushCounted, Saturated
  <2>3. ~(max' = 0)
    BY <2>1
  <2> QED BY <1>1, <1>2, <1>4, <2>1, <2>2, <2>3 DEF Counts
<1> QED BY <1>6, <1>7

\* A latest that is done.
LEMMA CountsReturn ==
    ASSUME Counts, ~(max > 0), max \in Nat, Return, UNCHANGED handleVars
    PROVE  Counts'
<1>1. max = 0 /\ dropped = 0
  BY DEF Counts
<1>2. UNCHANGED <<pos, excused, dropped_accum>>
  BY DEF handleVars
<1>3. max' = 0 /\ dropped' = 0 /\ got_read' = 0 /\ entry' = 0
  BY DEF Return
<1>4. EveryPushCounted'
  BY <1>1, <1>2, <1>3 DEF Counts, EveryPushCounted, Saturated
<1> QED BY <1>1, <1>2, <1>3, <1>4 DEF Counts

\* What a read comes to.
LEMMA CountsRead ==
    ASSUME Inv, Counts, ReadSeq1 \/ ReadSeq2
    PROVE  Counts'
<1>1. max \in Nat
  BY DEF Inv, Locals
<1>2. ASSUME Miss PROVE Counts'
  <2>1. CASE max > 0
    <3>1. Advance(0, 1) /\ excused' = excused
      <4>1. ~(max = 0)
        BY <2>1
      <4> QED BY <1>2, <4>1 DEF Miss
    <3>2. excused' = excused + 0 /\ 0 \in 0 .. 1 /\ 1 \in 0 .. 1 /\ 0 + 1 = 1
      BY <3>1 DEF Counts
    <3> QED BY <2>1, <3>1, <3>2, CountsTurn
  <2>2. CASE ~(max > 0)
    BY <1>1, <1>2, <2>2, CountsReturn DEF Miss
  <2> QED BY <2>1, <2>2
<1>3. ASSUME NEW p, Hit(p) PROVE Counts'
  <2>1. CASE max > 0
    <3>1. Advance(1, 0) /\ excused' = excused + 1
      <4>1. ~(max = 0)
        BY <2>1
      <4> QED BY <1>3, <4>1 DEF Hit
    <3>2. 0 \in 0 .. 1 /\ 1 \in 0 .. 1 /\ 1 + 0 = 1
      OBVIOUS
    <3> QED BY <2>1, <3>1, <3>2, CountsTurn
  <2>2. CASE ~(max > 0)
    BY <1>1, <1>3, <2>2, CountsReturn DEF Hit
  <2> QED BY <2>1, <2>2
<1>4. \/ Miss \/ \E p : Hit(p)
      \/ UNCHANGED handleVars /\ UNCHANGED <<entry, got_read, dropped, max>>
  BY DEF ReadSeq1, ReadSeq2
<1>5. UNCHANGED handleVars => UNCHANGED <<pos, excused, dropped_accum>>
  BY DEF handleVars
<1> QED BY <1>2, <1>3, <1>4, <1>5, CountsSame

\* Every step keeps the counts.
LEMMA CountsNext == ASSUME Inv, Counts, [Next]_vars PROVE Counts'
<1>1. ASSUME UNCHANGED handleVars, UNCHANGED <<entry, got_read, dropped, max>> PROVE Counts'
  <2>1. UNCHANGED <<pos, excused, dropped_accum>>
    BY <1>1 DEF handleVars
  <2> QED BY <1>1, <2>1, CountsSame
<1>2. CASE TryProducer \/ DropProducer \/ Push
  BY <1>1, <1>2 DEF TryProducer, DropProducer, Push, PushInvalidate, PushLo, PushHi, PushSeq,
                    PushPublish, PushTo, callVars
<1>3. CASE TryConsumer \/ DropConsumer \/ ResetDropped
  BY <1>3, CountsHandle
<1>4. CASE Calls
  <2>1. CASE LatestBegin
    BY <1>1, <2>1 DEF LatestBegin, callVars
  <2>2. CASE \E m \in 0 .. MaxPoll : PollBegin(m)
    BY <2>2, CountsPoll DEF PollBegin
  <2> QED BY <1>4, <2>1, <2>2, CountsSkip DEF Calls
<1>5. CASE CopyLo \/ CopyHi
  BY <1>1, <1>5 DEF CopyLo, CopyHi, CopyWord
<1>6. CASE ReadSeq1 \/ ReadSeq2
  BY <1>6, CountsRead
<1>7. CASE UNCHANGED vars
  BY <1>1, <1>7 DEF vars, callVars
<1> QED BY <1>2, <1>3, <1>4, <1>5, <1>6, <1>7 DEF Next, Steps

\* EveryPushCounted: dropped(), and the stats of the poll under way, account for
\* every push the polls of poll_up_to go past, as read or as dropped, until the
\* counters saturate at usize::MAX.
THEOREM Counted == Spec => []EveryPushCounted
<1>1. Init => Counts
  <2>1. UsizeMax \in Nat
    BY Consts
  <2> QED BY <2>1 DEF Init, Counts, EveryPushCounted, Saturated
<1>2. Inv /\ Counts /\ [Next]_vars => Counts'
  BY CountsNext
<1>3. Counts => EveryPushCounted
  BY DEF Counts
<1> QED BY <1>1, <1>2, <1>3, Invariance, PTL DEF Spec
=============================================================================
