-------------------------- MODULE EventFlagsProof --------------------------
(***************************************************************************)
(* EventFlags loses no condition and works as a doorbell, for every number *)
(* of conditions, set of threads and number of writes.                     *)
(***************************************************************************)
EXTENDS EventFlags, TLAPS

-----------------------------------------------------------------------------
(* The order of views.                                                     *)

\* Whoever has view v sees all that u sees.
Leq(u, v) == \A w \in Conditions : u[w] <= v[w]

\* Views are ordered word by word; a join is above both its parts.
LEMMA LeqRefl == ASSUME NEW u \in View PROVE Leq(u, u)
BY DEF Leq, View

LEMMA LeqTrans ==
    ASSUME NEW u \in View, NEW v \in View, NEW x \in View, Leq(u, v), Leq(v, x)
    PROVE  Leq(u, x)
<1> SUFFICES ASSUME NEW w \in Conditions PROVE u[w] <= x[w]
  BY DEF Leq
<1>1. u[w] \in Nat /\ v[w] \in Nat /\ x[w] \in Nat
  BY DEF View
<1> QED BY <1>1 DEF Leq

LEMMA JoinLeq ==
    ASSUME NEW u \in View, NEW v \in View
    PROVE  Join(u, v) \in View /\ Leq(u, Join(u, v)) /\ Leq(v, Join(u, v))
BY DEF Join, View, Leq

-----------------------------------------------------------------------------
(* The inductive invariant.                                                *)

\* One handle of each kind, and the flag says whether there is one.
SoleHandles ==
    /\ \A th \in Threads, u \in Threads : th \in prod /\ u \in prod => th = u
    /\ \A th \in Threads, u \in Threads : th \in cons /\ u \in cons => th = u
    /\ producer_taken.taken <=> prod # {}
    /\ consumer_taken.taken <=> cons # {}

\* The producing side knows every write, those of earlier producers included.
ProducerKnows ==
    /\ \A th \in prod : Leq(written, view[th])
    /\ ~producer_taken.taken => Leq(written, producer_taken.view)

\* A raise announces writes that were made.
RaisesAfterWrites == \A c \in Conditions : Leq(announced[c], written)

\* pending carries every write that any raise followed, also past a take.
PendingCarries == \A c \in Conditions : Leq(announced[c], pending.view)

\* DoorbellHolds, told apart by who will look.
Rung ==
    \A c \in Conditions : c \notin pending.mask =>
        /\ \A th \in cons : Leq(announced[c], view[th])
        /\ ~consumer_taken.taken => Leq(announced[c], consumer_taken.view)

Inv ==
    /\ TypeOK /\ SoleHandles /\ ProducerKnows /\ RaisesAfterWrites /\ PendingCarries
    /\ Rung /\ TakeExact

\* EventFlags::new: no handle, nothing pending.
LEMMA InitInv == Init => Inv
<1> SUFFICES ASSUME Init PROVE Inv
  OBVIOUS
<1>1. Nothing \in View /\ Leq(Nothing, Nothing) /\ FALSE \in BOOLEAN
  <2>1. Nothing \in View
    BY DEF Nothing, View
  <2> QED BY <2>1, LeqRefl
<1>2. TypeOK
  BY <1>1 DEF Init, TypeOK, Flag, EMPTY
<1>3. SoleHandles /\ TakeExact
  BY DEF Init, SoleHandles, TakeExact
<1>4. ProducerKnows /\ RaisesAfterWrites /\ PendingCarries /\ Rung
  BY <1>1 DEF Init, ProducerKnows, RaisesAfterWrites, PendingCarries, Rung
<1> QED BY <1>2, <1>3, <1>4 DEF Inv

\* Each thread only comes to see more.
Grows == /\ view' \in [Threads -> View]
         /\ \A th \in Threads : Leq(view[th], view'[th])

\* A thread that joins a view into its own comes to see that view too.
LEMMA JoinGrows ==
    ASSUME view \in [Threads -> View], NEW th \in Threads, NEW v \in View,
           view' = [view EXCEPT ![th] = Join(view[th], v)]
    PROVE  /\ Grows /\ Leq(v, view'[th])
           /\ Join(v, view[th]) \in View /\ Leq(v, Join(v, view[th]))
<1>1. view[th] \in View
  OBVIOUS
<1>2. /\ Join(view[th], v) \in View /\ Leq(view[th], Join(view[th], v))
      /\ Leq(v, Join(view[th], v))
      /\ Join(v, view[th]) \in View /\ Leq(v, Join(v, view[th]))
  BY <1>1, JoinLeq
<1>3. view' \in [Threads -> View] /\ view'[th] = Join(view[th], v)
  BY <1>2
<1>4. ASSUME NEW u \in Threads PROVE Leq(view[u], view'[u])
  <2>1. CASE u = th
    BY <1>2, <1>3, <2>1
  <2>2. CASE u # th
    <3>1. view'[u] = view[u] /\ view[u] \in View
      BY <2>2
    <3> QED BY <3>1, LeqRefl
  <2> QED BY <2>1, <2>2
<1> QED BY <1>2, <1>3, <1>4 DEF Grows

\* Every step keeps the invariant.
LEMMA NextInv == Inv /\ [Next]_vars => Inv'
<1> SUFFICES ASSUME Inv, [Next]_vars PROVE Inv'
  OBVIOUS
<1>a. /\ TypeOK /\ SoleHandles /\ ProducerKnows /\ RaisesAfterWrites /\ PendingCarries
      /\ Rung /\ TakeExact
  BY DEF Inv
<1>b. /\ view \in [Threads -> View] /\ written \in View /\ announced \in [Conditions -> View]
      /\ prod \subseteq Threads /\ cons \subseteq Threads
      /\ pending.view \in View /\ pending.mask \subseteq Conditions
      /\ producer_taken.view \in View /\ consumer_taken.view \in View
      /\ got \in [Threads -> SUBSET Conditions] /\ seen \in View
  BY <1>a DEF TypeOK, Flag, Threads
\* While views grow and the writes stay, the producing side knows them.
<1>c. ASSUME Grows, written' = written
      PROVE  \A th \in Threads : Leq(written, view[th]) => Leq(written', view'[th])
  BY <1>b, <1>c, LeqTrans DEF Grows
\* While views grow and a raise stays announced, whoever saw it still does.
<1>d. ASSUME Grows, announced' = announced
      PROVE  \A th \in Threads, c \in Conditions :
                 Leq(announced[c], view[th]) => Leq(announced'[c], view'[th])
  <2> SUFFICES ASSUME NEW th \in Threads, NEW c \in Conditions, Leq(announced[c], view[th])
               PROVE  Leq(announced[c], view'[th])
    BY <1>d
  <2>1. announced[c] \in View /\ view[th] \in View /\ view'[th] \in View
    BY <1>b, <1>d DEF Grows
  <2> QED BY <1>d, <2>1, LeqTrans DEF Grows
<1>1. ASSUME NEW th \in Threads, TryProducer(th) PROVE Inv'
  <2>1. /\ th \in Producers
        /\ prod' = (IF producer_taken.taken THEN prod ELSE prod \cup {th})
        /\ producer_taken' = [taken |-> TRUE, view |-> Join(producer_taken.view, view[th])]
        /\ view' = [view EXCEPT ![th] = Join(view[th], producer_taken.view)]
        /\ UNCHANGED <<pending, consumer_taken, cons, written, got, since, announced, seen>>
    BY <1>1 DEF TryProducer, Swapped, history
  <2>2. /\ Grows /\ Leq(producer_taken.view, view'[th])
        /\ Join(producer_taken.view, view[th]) \in View
    BY <1>b, <2>1, JoinGrows
  <2>3. producer_taken' \in Flag /\ producer_taken'.taken
    <3>1. TRUE \in BOOLEAN
      OBVIOUS
    <3> QED BY <2>1, <2>2, <3>1 DEF Flag
  <2>4. TypeOK'
    BY <1>a, <2>1, <2>2, <2>3 DEF TypeOK, Grows
  <2>5. SoleHandles'
    BY <1>a, <1>b, <2>1, <2>3 DEF SoleHandles
  <2>6. ProducerKnows'
    <3>1. ASSUME NEW u \in prod' PROVE Leq(written, view'[u])
      <4>1. CASE u \in prod
        BY <1>a, <1>b, <1>c, <2>1, <2>2, <4>1 DEF ProducerKnows
      <4>2. CASE u \notin prod
        <5>1. u = th /\ ~producer_taken.taken
          BY <2>1, <4>2
        <5>2. Leq(written, producer_taken.view) /\ view'[th] \in View
          BY <1>a, <2>2, <5>1 DEF ProducerKnows, Grows
        <5> QED BY <1>b, <2>2, <5>1, <5>2, LeqTrans
      <4> QED BY <4>1, <4>2
    <3> QED BY <2>1, <2>3, <3>1 DEF ProducerKnows
  <2>7. RaisesAfterWrites' /\ PendingCarries' /\ TakeExact'
    BY <1>a, <2>1 DEF RaisesAfterWrites, PendingCarries, TakeExact
  <2>8. Rung'
    BY <1>a, <1>b, <1>d, <2>1, <2>2 DEF Rung
  <2> QED BY <2>4, <2>5, <2>6, <2>7, <2>8 DEF Inv
<1>2. ASSUME NEW th \in Threads, TryConsumer(th) PROVE Inv'
  <2>1. /\ th \in Consumers
        /\ cons' = (IF consumer_taken.taken THEN cons ELSE cons \cup {th})
        /\ consumer_taken' = [taken |-> TRUE, view |-> Join(consumer_taken.view, view[th])]
        /\ view' = [view EXCEPT ![th] = Join(view[th], consumer_taken.view)]
        /\ UNCHANGED <<pending, producer_taken, prod, written, got, since, announced, seen>>
    BY <1>2 DEF TryConsumer, Swapped, history
  <2>2. /\ Grows /\ Leq(consumer_taken.view, view'[th])
        /\ Join(consumer_taken.view, view[th]) \in View
    BY <1>b, <2>1, JoinGrows
  <2>3. consumer_taken' \in Flag /\ consumer_taken'.taken
    <3>1. TRUE \in BOOLEAN
      OBVIOUS
    <3> QED BY <2>1, <2>2, <3>1 DEF Flag
  <2>4. TypeOK'
    BY <1>a, <2>1, <2>2, <2>3 DEF TypeOK, Grows
  <2>5. SoleHandles'
    BY <1>a, <1>b, <2>1, <2>3 DEF SoleHandles
  <2>6. ProducerKnows'
    BY <1>a, <1>b, <1>c, <2>1, <2>2 DEF ProducerKnows
  <2>7. RaisesAfterWrites' /\ PendingCarries' /\ TakeExact'
    BY <1>a, <2>1 DEF RaisesAfterWrites, PendingCarries, TakeExact
  <2>8. Rung'
    <3>1. ASSUME NEW c \in Conditions, c \notin pending.mask, NEW u \in cons'
          PROVE  Leq(announced[c], view'[u])
      <4>1. CASE u \in cons
        BY <1>a, <1>b, <1>d, <2>1, <2>2, <3>1, <4>1 DEF Rung
      <4>2. CASE u \notin cons
        <5>1. u = th /\ ~consumer_taken.taken
          BY <2>1, <4>2
        <5>2. Leq(announced[c], consumer_taken.view)
          BY <1>a, <3>1, <5>1 DEF Rung
        <5>3. announced[c] \in View /\ view'[th] \in View
          BY <1>b, <2>2 DEF Grows
        <5> QED BY <1>b, <2>2, <5>1, <5>2, <5>3, LeqTrans
      <4> QED BY <4>1, <4>2
    <3> QED BY <2>1, <2>3, <3>1 DEF Rung
  <2> QED BY <2>4, <2>5, <2>6, <2>7, <2>8 DEF Inv
<1>3. ASSUME NEW th \in Threads, DropProducer(th) PROVE Inv'
  <2>1. /\ th \in prod /\ prod' = prod \ {th}
        /\ producer_taken' = [taken |-> FALSE, view |-> view[th]]
        /\ UNCHANGED <<pending, consumer_taken, cons, view, written, got, since, announced, seen>>
    BY <1>3 DEF DropProducer, Released, history
  <2>2. producer_taken' \in Flag /\ ~producer_taken'.taken /\ producer_taken'.view = view[th]
    <3>1. FALSE \in BOOLEAN
      OBVIOUS
    <3> QED BY <1>b, <2>1, <3>1 DEF Flag
  <2>3. prod' = {}
    BY <1>a, <1>b, <2>1 DEF SoleHandles
  <2>4. TypeOK'
    BY <1>a, <2>1, <2>2 DEF TypeOK
  <2>5. SoleHandles'
    BY <1>a, <2>1, <2>2, <2>3 DEF SoleHandles
  <2>6. ProducerKnows'
    BY <1>a, <2>1, <2>2, <2>3 DEF ProducerKnows
  <2>7. RaisesAfterWrites' /\ PendingCarries' /\ TakeExact' /\ Rung'
    BY <1>a, <2>1 DEF RaisesAfterWrites, PendingCarries, TakeExact, Rung
  <2> QED BY <2>4, <2>5, <2>6, <2>7 DEF Inv
<1>4. ASSUME NEW th \in Threads, DropConsumer(th) PROVE Inv'
  <2>1. /\ th \in cons /\ cons' = cons \ {th}
        /\ consumer_taken' = [taken |-> FALSE, view |-> view[th]]
        /\ UNCHANGED <<pending, producer_taken, prod, view, written, got, since, announced, seen>>
    BY <1>4 DEF DropConsumer, Released, history
  <2>2. consumer_taken' \in Flag /\ ~consumer_taken'.taken /\ consumer_taken'.view = view[th]
    <3>1. FALSE \in BOOLEAN
      OBVIOUS
    <3> QED BY <1>b, <2>1, <3>1 DEF Flag
  <2>3. cons' = {}
    BY <1>a, <1>b, <2>1 DEF SoleHandles
  <2>4. TypeOK'
    BY <1>a, <2>1, <2>2 DEF TypeOK
  <2>5. SoleHandles'
    BY <1>a, <2>1, <2>2, <2>3 DEF SoleHandles
  <2>6. ProducerKnows' /\ RaisesAfterWrites' /\ PendingCarries' /\ TakeExact'
    BY <1>a, <2>1 DEF ProducerKnows, RaisesAfterWrites, PendingCarries, TakeExact
  <2>7. Rung'
    BY <1>a, <2>1, <2>2, <2>3 DEF Rung
  <2> QED BY <2>4, <2>5, <2>6, <2>7 DEF Inv
<1>5. ASSUME NEW th \in Threads, NEW mask \in SUBSET ALL, Raise(th, mask) PROVE Inv'
  <2>1. /\ th \in prod /\ mask \subseteq Conditions
        /\ pending' = [mask |-> pending.mask \cup mask, view |-> Join(pending.view, view[th])]
        /\ since' = since \cup mask
        /\ announced' = [c \in Conditions |-> IF c \in mask THEN written ELSE announced[c]]
        /\ UNCHANGED <<producer_taken, consumer_taken, prod, cons, view, written, got, seen>>
    BY <1>5 DEF Raise, Raised, bitor, handles, ALL
  <2>2. /\ Join(pending.view, view[th]) \in View
        /\ Leq(pending.view, pending'.view) /\ Leq(view[th], pending'.view)
    <3>1. view[th] \in View
      BY <1>b
    <3>2. /\ Join(pending.view, view[th]) \in View
          /\ Leq(pending.view, Join(pending.view, view[th]))
          /\ Leq(view[th], Join(pending.view, view[th]))
      BY <1>b, <3>1, JoinLeq
    <3> QED BY <2>1, <3>2
  <2>3. pending'.view \in View /\ pending'.mask = pending.mask \cup mask
    BY <2>1, <2>2
  <2>4. TypeOK'
    <3>1. pending' \in [mask : SUBSET Conditions, view : View]
      BY <1>b, <2>1, <2>2
    <3>2. announced' \in [Conditions -> View] /\ since' \subseteq Conditions
      BY <1>a, <1>b, <2>1 DEF TypeOK
    <3> QED BY <1>a, <2>1, <3>1, <3>2 DEF TypeOK
  <2>5. SoleHandles' /\ ProducerKnows'
    BY <1>a, <2>1 DEF SoleHandles, ProducerKnows
  <2>6. PendingCarries'
    <3> SUFFICES ASSUME NEW c \in Conditions PROVE Leq(announced'[c], pending'.view)
      BY DEF PendingCarries
    <3>1. CASE c \in mask
      <4>1. announced'[c] = written /\ Leq(written, view[th]) /\ view[th] \in View
        BY <1>a, <1>b, <2>1, <3>1 DEF ProducerKnows
      <4> QED BY <1>b, <2>2, <2>3, <4>1, LeqTrans
    <3>2. CASE c \notin mask
      <4>1. announced'[c] = announced[c] /\ announced[c] \in View
            /\ Leq(announced[c], pending.view)
        BY <1>a, <1>b, <2>1, <3>2 DEF PendingCarries
      <4> QED BY <1>b, <2>2, <2>3, <4>1, LeqTrans
    <3> QED BY <3>1, <3>2
  <2>7. RaisesAfterWrites' /\ TakeExact'
    BY <1>a, <1>b, <2>1, <2>3, LeqRefl DEF RaisesAfterWrites, TakeExact
  <2>8. Rung'
    <3>1. \A c \in Conditions : c \notin pending'.mask =>
              c \notin pending.mask /\ announced'[c] = announced[c]
      BY <2>1, <2>3
    <3> QED BY <1>a, <2>1, <3>1 DEF Rung
  <2> QED BY <2>4, <2>5, <2>6, <2>7, <2>8 DEF Inv
<1>6. ASSUME NEW th \in Threads, TakeAll(th) PROVE Inv'
  <2>1. /\ th \in cons
        /\ got' = [got EXCEPT ![th] = pending.mask]
        /\ view' = [view EXCEPT ![th] = Join(view[th], pending.view)]
        /\ pending' = [pending EXCEPT !.mask = {}] /\ since' = {}
        /\ UNCHANGED <<producer_taken, consumer_taken, prod, cons, written, announced, seen>>
    BY <1>6 DEF TakeAll, Acquired, Cleared, handles, EMPTY
  <2>2. Grows /\ Leq(pending.view, view'[th])
    BY <1>b, <2>1, JoinGrows
  <2>3. pending'.mask = {} /\ pending'.view = pending.view
        /\ pending' \in [mask : SUBSET Conditions, view : View]
    BY <1>a, <2>1 DEF TypeOK
  <2>4. TypeOK'
    BY <1>a, <1>b, <2>1, <2>2, <2>3 DEF TypeOK, Grows
  <2>5. SoleHandles'
    BY <1>a, <2>1 DEF SoleHandles
  <2>6. ProducerKnows'
    BY <1>a, <1>b, <1>c, <2>1, <2>2 DEF ProducerKnows
  <2>7. RaisesAfterWrites' /\ PendingCarries' /\ TakeExact'
    BY <1>a, <2>1, <2>3 DEF RaisesAfterWrites, PendingCarries, TakeExact
  <2>8. Rung'
    <3>1. consumer_taken.taken /\ \A u \in cons : u = th
      BY <1>a, <1>b, <2>1 DEF SoleHandles
    <3>2. \A c \in Conditions : Leq(announced[c], view'[th])
      <4> TAKE c \in Conditions
      <4>1. announced[c] \in View /\ view'[th] \in View /\ Leq(announced[c], pending.view)
        BY <1>a, <1>b, <2>2 DEF Grows, PendingCarries
      <4> QED BY <1>b, <2>2, <4>1, LeqTrans
    <3> QED BY <2>1, <3>1, <3>2 DEF Rung
  <2> QED BY <2>4, <2>5, <2>6, <2>7, <2>8 DEF Inv
<1>7. ASSUME NEW th \in Threads, NEW c \in Conditions, Write(th, c) PROVE Inv'
  <2>1. /\ th \in prod /\ written' = [written EXCEPT ![c] = written[c] + 1]
        /\ view' = [view EXCEPT ![th] = [view[th] EXCEPT ![c] = written[c] + 1]]
        /\ UNCHANGED <<pending, producer_taken, consumer_taken, prod, cons, got,
                       since, announced, seen>>
    BY <1>7 DEF Write, handles, history
  <2>2. /\ view[th] \in [Conditions -> Nat] /\ written \in [Conditions -> Nat]
        /\ written[c] \in Nat
    BY <1>b DEF View
  <2>3. /\ written' \in [Conditions -> Nat] /\ written'[c] = written[c] + 1
        /\ \A w \in Conditions : w # c => written'[w] = written[w]
    BY <2>1, <2>2
  <2>4. /\ view' \in [Threads -> View]
        /\ view'[th] \in [Conditions -> Nat] /\ view'[th][c] = written[c] + 1
        /\ \A w \in Conditions : w # c => view'[th][w] = view[th][w]
        /\ \A u \in Threads : u # th => view'[u] = view[u]
    <3> DEFINE v == [view[th] EXCEPT ![c] = written[c] + 1]
    <3>1. v \in [Conditions -> Nat] /\ v[c] = written[c] + 1
          /\ \A w \in Conditions : w # c => v[w] = view[th][w]
      BY <2>2
    <3> HIDE DEF v
    <3>2. view' = [view EXCEPT ![th] = v]
      BY <2>1 DEF v
    <3>3. v \in View
      BY <3>1 DEF View
    <3>4. view' \in [Threads -> View] /\ view'[th] = v
          /\ \A u \in Threads : u # th => view'[u] = view[u]
      BY <1>b, <3>2, <3>3
    <3> QED BY <3>1, <3>4
  <2>5. Leq(written, view[th])
    BY <1>a, <2>1 DEF ProducerKnows
  <2>6. Leq(written', view'[th])
    BY <2>2, <2>3, <2>4, <2>5 DEF Leq
  <2>7. Leq(written, written')
    <3> SUFFICES ASSUME NEW w \in Conditions PROVE written[w] <= written'[w]
      BY DEF Leq
    <3>1. written[w] \in Nat
      BY <2>2
    <3> QED BY <2>2, <2>3, <3>1
  <2>8. TypeOK'
    BY <1>a, <2>1, <2>3, <2>4 DEF TypeOK, View
  <2>9. SoleHandles'
    BY <1>a, <2>1 DEF SoleHandles
  <2>10. ProducerKnows'
    <3>1. producer_taken.taken /\ \A u \in prod : u = th
      BY <1>a, <1>b, <2>1 DEF SoleHandles
    <3> QED BY <2>1, <2>6, <3>1 DEF ProducerKnows
  <2>11. RaisesAfterWrites' /\ \A d \in Conditions : Leq(announced[d], view'[th])
    <3>1. ASSUME NEW d \in Conditions
          PROVE  Leq(announced[d], written') /\ Leq(announced[d], view'[th])
      <4>1. announced[d] \in View /\ written' \in View /\ view'[th] \in View
            /\ Leq(announced[d], written)
        BY <1>a, <1>b, <2>3, <2>4 DEF View, RaisesAfterWrites
      <4>2. Leq(announced[d], written')
        BY <1>b, <2>7, <4>1, LeqTrans
      <4> QED BY <2>6, <4>1, <4>2, LeqTrans
    <3> QED BY <2>1, <3>1 DEF RaisesAfterWrites
  <2>12. PendingCarries' /\ TakeExact'
    BY <1>a, <2>1 DEF PendingCarries, TakeExact
  <2>13. Rung'
    <3>1. ASSUME NEW d \in Conditions, d \notin pending.mask, NEW u \in cons
          PROVE  Leq(announced[d], view'[u])
      <4>1. CASE u = th
        BY <2>11, <4>1
      <4>2. CASE u # th
        BY <1>a, <1>b, <2>4, <3>1, <4>2 DEF Rung
      <4> QED BY <4>1, <4>2
    <3> QED BY <1>a, <2>1, <3>1 DEF Rung
  <2> QED BY <2>8, <2>9, <2>10, <2>11, <2>12, <2>13 DEF Inv
<1>8. ASSUME NEW th \in Threads, NEW mask \in SUBSET Conditions, Read(th, mask) PROVE Inv'
  <2>1. PICK r \in [mask -> 0 .. MaxWrite] :
          /\ \A c \in mask : r[c] \in view[th][c] .. written[c]
          /\ view' = [view EXCEPT ![th] =
                         [c \in Conditions |-> IF c \in mask THEN r[c] ELSE view[th][c]]]
          /\ seen' = [c \in Conditions |->
                         IF c \in mask /\ seen[c] < r[c] THEN r[c] ELSE seen[c]]
    BY <1>8 DEF Read
  <2>2. /\ got' = [got EXCEPT ![th] = got[th] \ mask]
        /\ UNCHANGED <<pending, producer_taken, consumer_taken, prod, cons, written,
                       since, announced>>
    BY <1>8 DEF Read, handles
  <2>3. \A c \in mask : r[c] \in Nat /\ view[th][c] <= r[c]
    <3> TAKE c \in mask
    <3>1. c \in Conditions /\ view[th] \in [Conditions -> Nat] /\ written \in [Conditions -> Nat]
      BY <1>b DEF View
    <3>2. view[th][c] \in Nat /\ written[c] \in Nat
      BY <3>1
    <3> QED BY <2>1, <3>2
  <2> DEFINE v == [c \in Conditions |-> IF c \in mask THEN r[c] ELSE view[th][c]]
  <2>4. v \in View /\ Leq(view[th], v)
    <3>1. ASSUME NEW c \in Conditions PROVE v[c] \in Nat /\ view[th][c] <= v[c]
      <4>1. view[th][c] \in Nat
        BY <1>b DEF View
      <4> QED BY <2>3, <4>1
    <3>2. v \in [Conditions -> Nat]
      BY <3>1
    <3> QED BY <3>1, <3>2 DEF View, Leq
  <2>5. view' = [view EXCEPT ![th] = v]
    BY <2>1
  <2> HIDE DEF v
  <2>6. Grows
    <3>1. view' \in [Threads -> View] /\ view'[th] = v
          /\ \A u \in Threads : u # th => view'[u] = view[u]
      BY <1>b, <2>4, <2>5
    <3>2. \A u \in Threads : u # th => Leq(view[u], view'[u])
      BY <1>b, <3>1, LeqRefl
    <3> QED BY <2>4, <3>1, <3>2 DEF Grows
  <2>7. seen' \in View
    <3>1. ASSUME NEW c \in Conditions
          PROVE  (IF c \in mask /\ seen[c] < r[c] THEN r[c] ELSE seen[c]) \in Nat
      BY <1>b, <2>3 DEF View
    <3> QED BY <2>1, <3>1 DEF View
  <2>8. TypeOK'
    <3>1. got' \in [Threads -> SUBSET Conditions]
      BY <1>b, <2>2
    <3> QED BY <1>a, <2>2, <2>6, <2>7, <3>1 DEF TypeOK, Grows
  <2>9. SoleHandles'
    BY <1>a, <2>2 DEF SoleHandles
  <2>10. ProducerKnows'
    BY <1>a, <1>b, <1>c, <2>2, <2>6 DEF ProducerKnows
  <2>11. RaisesAfterWrites' /\ PendingCarries' /\ TakeExact'
    BY <1>a, <2>2 DEF RaisesAfterWrites, PendingCarries, TakeExact
  <2>12. Rung'
    BY <1>a, <1>b, <1>d, <2>2, <2>6 DEF Rung
  <2> QED BY <2>8, <2>9, <2>10, <2>11, <2>12 DEF Inv
<1>9. ASSUME NEW th \in Threads, Handle(th)
      PROVE  \E mask \in SUBSET Conditions : Read(th, mask)
  <2>1. ASSUME NEW index \in 0 .. BITS, HandleIndex(th, index)
        PROVE  \E mask \in SUBSET Conditions : Read(th, mask)
    <3>1. PICK one \in from_index(index) : contains(got[th], one) /\ Read(th, one)
      BY <2>1 DEF HandleIndex
    <3>2. one \subseteq got[th] /\ got[th] \subseteq Conditions
      BY <1>b, <3>1 DEF contains
    <3> QED BY <3>1, <3>2
  <2>2. ASSUME NEW mask \in SUBSET ALL, HandleGroup(th, mask)
        PROVE  \E m \in SUBSET Conditions : Read(th, m)
    <3>1. Read(th, bitand(got[th], mask)) /\ bitand(got[th], mask) \in SUBSET Conditions
      BY <1>b, <2>2 DEF HandleGroup, bitand
    <3> QED BY <3>1
  <2> QED BY <1>9, <2>1, <2>2 DEF Handle
<1>10. CASE UNCHANGED vars
  BY <1>10, <1>a DEF vars, handles, history, Inv, TypeOK, SoleHandles, ProducerKnows,
                     RaisesAfterWrites, PendingCarries, Rung, TakeExact
<1> QED BY <1>1, <1>2, <1>3, <1>4, <1>5, <1>6, <1>7, <1>8, <1>9, <1>10 DEF Next

\* The inductive invariant holds in every behaviour.
LEMMA AlwaysInv == Spec => []Inv
BY InitInv, NextInv, PTL DEF Spec

-----------------------------------------------------------------------------
(* Theorems *)

\* A take returns exactly the conditions raised since the preceding take,
\* whichever threads hold the handles in turn.
THEOREM Exact == Spec => [](TypeOK /\ TakeExact)
<1>1. Inv => TypeOK /\ TakeExact
  BY DEF Inv
<1> QED BY AlwaysInv, <1>1, PTL

\* The doorbell: what was written before a raise is visible to the consuming
\* side, or a condition of that raise is still pending, across any change of
\* hands on either side.
THEOREM Doorbell == Spec => []DoorbellHolds
<1>1. Inv => DoorbellHolds
  <2> SUFFICES ASSUME Inv, NEW c \in Conditions, c \notin pending.mask,
                      NEW v \in Visible, NEW w \in Conditions
               PROVE  announced[c][w] <= v[w]
    BY DEF DoorbellHolds
  <2>1. /\ \A th \in cons : Leq(announced[c], view[th])
        /\ ~consumer_taken.taken => Leq(announced[c], consumer_taken.view)
    BY DEF Inv, Rung
  <2>2. CASE cons = {}
    <3>1. v = consumer_taken.view /\ ~consumer_taken.taken
      BY <2>2 DEF Visible, Inv, SoleHandles
    <3> QED BY <2>1, <3>1 DEF Leq
  <2>3. CASE cons # {}
    <3>1. PICK th \in cons : v = view[th]
      BY <2>3 DEF Visible
    <3> QED BY <2>1, <3>1 DEF Leq
  <2> QED BY <2>2, <2>3
<1> QED BY AlwaysInv, <1>1, PTL
=============================================================================
