--------------------------- MODULE WrapArithmetic ---------------------------
(***************************************************************************)
(* Facts about % that the proofs about wrapping u32 cursors and slot       *)
(* indices rest on.                                                        *)
(***************************************************************************)
EXTENDS Integers, TLAPS

\* A remainder lies below its modulus: what wrapping_add returns is a u32.
LEMMA ModRange ==
    ASSUME NEW a \in Int, NEW m \in Nat \ {0}
    PROVE  a % m \in 0 .. m - 1
OBVIOUS

\* Division with remainder, with a quotient of its own name.
LEMMA DivMod ==
    ASSUME NEW a \in Int, NEW m \in Nat \ {0}
    PROVE  \E q \in Int : a = m * q + (a % m)
<1>1. a \div m \in Int
  OBVIOUS
<1>2. a = m * (a \div m) + (a % m)
  OBVIOUS
<1> QED BY <1>1, <1>2

\* A multiple of m with a positive factor is at least m, with a negative one at
\* most -m.
LEMMA MulGe ==
    ASSUME NEW m \in Nat \ {0}, NEW q \in Int, q >= 1 PROVE m * q >= m
OBVIOUS

LEMMA MulLe ==
    ASSUME NEW m \in Nat \ {0}, NEW q \in Int, q <= -1 PROVE m * q <= -m
OBVIOUS

\* Multiplication distributes over difference and sum.
LEMMA MulDist ==
    ASSUME NEW m \in Int, NEW p \in Int, NEW q \in Int
    PROVE  m * p - m * q = m * (p - q) /\ m * p + m * q = m * (p + q)
OBVIOUS

\* The remainder is the only r in 0 .. m - 1 that differs from a by a multiple.
LEMMA ModUnique ==
    ASSUME NEW a \in Int, NEW m \in Nat \ {0}, NEW q \in Int,
           NEW r \in 0 .. m - 1, a = m * q + r
    PROVE  a % m = r
<1>1. PICK p \in Int : a = m * p + (a % m)
  BY DivMod
<1>2. a % m \in 0 .. m - 1
  BY ModRange
<1>3. m * (p - q) = r - (a % m)
  BY <1>1, <1>2, MulDist
<1>4. ~(p - q >= 1)
  BY <1>3, <1>2, MulGe
<1>5. ~(p - q <= -1)
  BY <1>3, <1>2, MulLe
<1>6. p = q
  BY <1>4, <1>5
<1> QED BY <1>6, <1>1, <1>2

\* wrapping_add(x, 1) of a wrapped count is the wrapped successor.
LEMMA ModSucc ==
    ASSUME NEW a \in Int, NEW m \in Nat \ {0}
    PROVE  ((a % m) + 1) % m = (a + 1) % m
<1>1. PICK r \in 0 .. m - 1 : r = a % m
  BY ModRange
<1>2. PICK q \in Int : a = m * q + r
  BY <1>1, DivMod
<1>3. PICK c \in Int : c = a + 1
  OBVIOUS
<1>4. PICK d \in Int : d = r + 1
  OBVIOUS
<1>5. PICK s \in 0 .. m - 1 : s = d % m
  BY ModRange
<1>6. PICK p \in Int : d = m * p + s
  BY <1>5, DivMod
<1>7. c = m * (q + p) + s
  BY <1>2, <1>3, <1>4, <1>6, MulDist
<1>8. q + p \in Int
  OBVIOUS
<1>9. c % m = s
  BY <1>7, <1>8, ModUnique
<1> QED BY <1>1, <1>3, <1>4, <1>5, <1>9

\* wrapping_sub of two wrapped counts is their distance, as long as that is
\* less than the modulus.
LEMMA ModDiff ==
    ASSUME NEW a \in Int, NEW b \in Int, NEW m \in Nat \ {0},
           0 <= a - b, a - b < m
    PROVE  ((a % m) - (b % m)) % m = a - b
<1>1. PICK r \in 0 .. m - 1 : r = a % m
  BY ModRange
<1>2. PICK s \in 0 .. m - 1 : s = b % m
  BY ModRange
<1>3. PICK p \in Int : a = m * p + r
  BY <1>1, DivMod
<1>4. PICK q \in Int : b = m * q + s
  BY <1>2, DivMod
<1>5. r - s = m * (q - p) + (a - b)
  BY <1>3, <1>4, MulDist
<1>6. a - b \in 0 .. m - 1 /\ q - p \in Int /\ r - s \in Int
  OBVIOUS
<1>7. (r - s) % m = a - b
  BY <1>5, <1>6, ModUnique
<1> QED BY <1>1, <1>2, <1>7

\* Two different counts with the same remainder are at least m apart.
LEMMA ModApart ==
    ASSUME NEW a \in Int, NEW b \in Int, NEW m \in Nat \ {0},
           a < b, a % m = b % m
    PROVE  b - a >= m
<1>1. PICK r \in 0 .. m - 1 : r = a % m
  BY ModRange
<1>2. PICK p \in Int : a = m * p + r
  BY <1>1, DivMod
<1>3. PICK q \in Int : b = m * q + r
  <2>1. PICK s \in 0 .. m - 1 : s = b % m
    BY ModRange
  <2>2. PICK q \in Int : b = m * q + s
    BY <2>1, DivMod
  <2> QED BY <1>1, <2>1, <2>2
<1>4. b - a = m * (q - p)
  BY <1>2, <1>3, MulDist
<1>5. ~(q - p <= -1)
  BY <1>4, MulLe
<1>6. q # p
  BY <1>2, <1>3
<1>7. q - p >= 1
  BY <1>5, <1>6
<1> QED BY <1>4, <1>7, MulGe

\* The slot of a wrapped cursor is the slot of the unwrapped count, if the
\* capacity divides the modulus: where EventBuf needs a power of two.
LEMMA ModMod ==
    ASSUME NEW a \in Int, NEW m \in Nat \ {0}, NEW n \in Nat \ {0}, m % n = 0
    PROVE  (a % m) % n = a % n
<1>1. PICK r \in 0 .. m - 1 : r = a % m
  BY ModRange
<1>2. PICK q \in Int : a = m * q + r
  BY <1>1, DivMod
<1>3. PICK k \in Int : m = n * k
  <2>1. m \div n \in Int
    OBVIOUS
  <2>2. m = n * (m \div n)
    OBVIOUS
  <2> QED BY <2>1, <2>2
<1>4. m * q = n * (k * q)
  BY <1>3
<1>5. PICK j \in Int : j = k * q
  OBVIOUS
<1>6. a = n * j + r
  BY <1>2, <1>4, <1>5
<1>7. PICK s \in 0 .. n - 1 : s = r % n
  BY ModRange
<1>8. PICK i \in Int : r = n * i + s
  <2>1. r \in Int
    OBVIOUS
  <2> QED BY ONLY <1>7, <2>1, n \in Nat \ {0}, DivMod
<1>9. a = n * (j + i) + s
  BY <1>6, <1>8, MulDist
<1>10. j + i \in Int
  OBVIOUS
<1>11. a % n = s
  BY <1>9, <1>10, ModUnique
<1> QED BY <1>1, <1>7, <1>11
=============================================================================
