------------------------- MODULE CountedSignalProof -------------------------
(***************************************************************************)
(* CountedSignal is exact, for every MAX, set of threads and number of     *)
(* increments: "Multiple producers would invalidate the proof."            *)
(***************************************************************************)
EXTENDS CountedSignal, WrapArithmetic

-----------------------------------------------------------------------------
(* The inductive invariant.                                                *)

ViewsValid ==
    /\ count # <<>>
    /\ \A th \in Threads : view[th] \in 1 .. Len(count)
    /\ producer_taken.view \in 1 .. Len(count)
    /\ consumer_taken.view \in 1 .. Len(count)

\* One producer at a time, and only it is inside increment.
SoleProducer ==
    /\ \A th \in Threads, u \in Threads : th \in prod /\ u \in prod => th = u
    /\ prod # {} => producer_taken.taken
    /\ \A th \in Threads : pc[th] # "idle" => th \in prod

\* No value that a load with view p can still return is below the latest one:
\* since p, only takes have written.
Falling(p) == \A i \in p .. Len(count) : Latest <= count[i]

\* So a loaded value below MAX means that the latest is below MAX.
RoomToAdd ==
    /\ \A th \in Threads : /\ th \in prod => Falling(view[th])
                           /\ pc[th] = "add" => Latest < MAX
    /\ ~producer_taken.taken => Falling(producer_taken.view)

Inv == TypeOK /\ ViewsValid /\ SoleProducer /\ RoomToAdd /\ CountExact

\* CountedSignal::new and the seeding constructors establish it.
LEMMA InitInv == Init => Inv
<1> SUFFICES ASSUME NEW c \in 0 .. MAX, with_count(c) PROVE Inv
  BY DEF Init
<1>1. count = <<c>> /\ Len(count) = 1 /\ Latest = c /\ 0 \in 0 .. MAX /\ c \in Nat
  BY SignalMaxAssumption DEF with_count, Latest
<1>2. TypeOK
  BY <1>1, SignalMaxAssumption DEF with_count, TypeOK, Flag
<1>3. ViewsValid
  BY <1>1 DEF with_count, ViewsValid
<1>4. SoleProducer
  BY DEF with_count, SoleProducer
<1>5. RoomToAdd
  <2>1. \A i \in 1 .. Len(count) : Latest <= count[i]
    BY <1>1
  <2> QED BY <2>1 DEF with_count, RoomToAdd, Falling
<1>6. CountExact
  BY <1>1, SignalMaxAssumption DEF with_count, CountExact, Saturate
<1> QED BY <1>2, <1>3, <1>4, <1>5, <1>6 DEF Inv

\* Every step keeps it.
LEMMA NextInv == Inv /\ [Next]_vars => Inv'
<1> SUFFICES ASSUME Inv, [Next]_vars PROVE Inv'
  OBVIOUS
<1>a. TypeOK /\ ViewsValid /\ SoleProducer /\ RoomToAdd /\ CountExact
  BY DEF Inv
<1> DEFINE L == Len(count)
<1>b. count \in Seq(0 .. MAX) /\ L \in Nat \ {0} /\ MAX \in Nat \ {0}
  BY <1>a, SignalMaxAssumption DEF TypeOK, ViewsValid
<1>c. Latest \in 0 .. MAX /\ Latest = count[L]
  BY <1>b DEF Latest
<1>d. /\ view \in [Threads -> Nat] /\ pc \in [Threads -> {"idle", "confirm", "add"}]
      /\ prod \subseteq Threads /\ occurred \in Nat
  BY <1>a DEF TypeOK, Threads
<1>1. ASSUME NEW th \in Threads, TryProducer(th) PROVE Inv'
  <2>1. /\ UNCHANGED <<count, consumer_taken, cons, pc, history>>
        /\ prod' = (IF producer_taken.taken THEN prod ELSE prod \cup {th})
        /\ producer_taken' = [taken |-> TRUE, view |-> MaxOf(producer_taken.view, view[th])]
        /\ view' = [view EXCEPT ![th] = MaxOf(view[th], producer_taken.view)]
        /\ th \in Producers /\ pc[th] = "idle"
    BY <1>1 DEF TryProducer, Swapped
  <2>2. /\ MaxOf(producer_taken.view, view[th]) \in 1 .. L
        /\ MaxOf(view[th], producer_taken.view) \in 1 .. L
        /\ MaxOf(view[th], producer_taken.view) >= view[th]
        /\ MaxOf(view[th], producer_taken.view) >= producer_taken.view
    BY <1>a, <1>b DEF ViewsValid, MaxOf
  <2>3. TypeOK'
    BY <1>a, <1>b, <2>1, <2>2 DEF TypeOK, Flag, history
  <2>4. ViewsValid'
    BY <1>a, <1>d, <2>1, <2>2 DEF ViewsValid
  <2>5. SoleProducer'
    BY <1>a, <2>1 DEF SoleProducer
  <2>6. RoomToAdd'
    <3>1. Latest' = Latest
      BY <2>1 DEF Latest
    <3>2. \A u \in Threads : u \in prod' => \A i \in view'[u] .. L : Latest <= count[i]
      <4> SUFFICES ASSUME NEW u \in Threads, u \in prod', NEW i \in view'[u] .. L
                   PROVE  Latest <= count[i]
        OBVIOUS
      <4>1. CASE u # th
        BY <1>a, <1>d, <2>1, <4>1 DEF RoomToAdd, Falling
      <4>2. CASE u = th
        <5>1. i \in view[th] .. L /\ i \in producer_taken.view .. L
          BY <1>a, <1>b, <1>d, <2>1, <2>2, <4>2, SMTT(30) DEF ViewsValid
        <5> QED BY <1>a, <2>1, <4>2, <5>1 DEF RoomToAdd, Falling
      <4> QED BY <4>1, <4>2
    <3> QED BY <1>a, <2>1, <3>1, <3>2 DEF RoomToAdd, Falling
  <2>7. CountExact'
    BY <1>a, <2>1 DEF CountExact, Latest, Saturate, history
  <2> QED BY <2>3, <2>4, <2>5, <2>6, <2>7 DEF Inv
<1>2. ASSUME NEW th \in Threads, TryConsumer(th) PROVE Inv'
  <2>1. /\ UNCHANGED <<count, producer_taken, prod, pc, history>>
        /\ cons' = (IF consumer_taken.taken THEN cons ELSE cons \cup {th})
        /\ consumer_taken' = [taken |-> TRUE, view |-> MaxOf(consumer_taken.view, view[th])]
        /\ view' = [view EXCEPT ![th] = MaxOf(view[th], consumer_taken.view)]
        /\ th \in Consumers /\ pc[th] = "idle"
    BY <1>2 DEF TryConsumer, Swapped
  <2>2. /\ MaxOf(consumer_taken.view, view[th]) \in 1 .. L
        /\ MaxOf(view[th], consumer_taken.view) \in 1 .. L
        /\ MaxOf(view[th], consumer_taken.view) >= view[th]
    BY <1>a, <1>b DEF ViewsValid, MaxOf
  <2>3. TypeOK'
    BY <1>a, <1>b, <2>1, <2>2 DEF TypeOK, Flag, history
  <2>4. ViewsValid'
    BY <1>a, <1>d, <2>1, <2>2 DEF ViewsValid
  <2>5. SoleProducer'
    BY <1>a, <2>1 DEF SoleProducer
  <2>6. RoomToAdd'
    <3>1. Latest' = Latest
      BY <2>1 DEF Latest
    <3>2. \A u \in Threads : \A i \in view'[u] .. L : i \in view[u] .. L
      BY <1>a, <1>b, <1>d, <2>1, <2>2
    <3> QED BY <1>a, <2>1, <3>1, <3>2 DEF RoomToAdd, Falling
  <2>7. CountExact'
    BY <1>a, <2>1 DEF CountExact, Latest, Saturate, history
  <2> QED BY <2>3, <2>4, <2>5, <2>6, <2>7 DEF Inv
<1>3. ASSUME NEW th \in Threads, DropProducer(th) \/ DropConsumer(th) PROVE Inv'
  <2>1. UNCHANGED <<count, view, pc, history>>
    BY <1>3 DEF DropProducer, DropConsumer
  <2>2. TypeOK'
    <3>1. [taken |-> FALSE, view |-> view[th]] \in Flag
      BY <1>d DEF Flag
    <3>2. CASE DropProducer(th)
      BY <1>a, <2>1, <3>1, <3>2 DEF TypeOK, history, DropProducer, Released
    <3>3. CASE DropConsumer(th)
      BY <1>a, <2>1, <3>1, <3>3 DEF TypeOK, history, DropConsumer, Released
    <3> QED BY <1>3, <3>2, <3>3
  <2>3. ViewsValid'
    BY <1>3, <1>a, <2>1 DEF ViewsValid, DropProducer, DropConsumer, Released
  <2>4. SoleProducer'
    BY <1>3, <1>a, <1>d, <2>1 DEF SoleProducer, DropProducer, DropConsumer
  <2>5. RoomToAdd'
    BY <1>3, <1>a, <2>1 DEF RoomToAdd, Falling, Latest, DropProducer, DropConsumer, Released
  <2>6. CountExact'
    BY <1>a, <2>1 DEF CountExact, Latest, Saturate, history
  <2> QED BY <2>2, <2>3, <2>4, <2>5, <2>6 DEF Inv
<1>4. ASSUME NEW th \in Threads, IncrementLoad(th) PROVE Inv'
  <2>1. PICK i \in view[th] .. L :
            /\ view' = [view EXCEPT ![th] = i]
            /\ pc' = [pc EXCEPT ![th] = IF count[i] = MAX THEN "confirm" ELSE "add"]
    BY <1>4 DEF IncrementLoad, Goto
  <2>2. th \in prod /\ UNCHANGED <<count, flags, history>>
    BY <1>4 DEF IncrementLoad
  <2>3. i \in 1 .. L /\ count[i] \in 0 .. MAX
    BY <1>a, <1>b, SMTT(30) DEF ViewsValid
  <2>4. TypeOK'
    BY <1>a, <1>b, <2>1, <2>2, <2>3 DEF TypeOK, flags, history
  <2>5. ViewsValid'
    BY <1>a, <1>d, <2>1, <2>2, <2>3 DEF ViewsValid, flags
  <2>6. SoleProducer'
    BY <1>a, <1>d, <2>1, <2>2 DEF SoleProducer, flags
  <2>7. RoomToAdd'
    <3>1. Latest' = Latest
      BY <2>2 DEF Latest
    <3>2. Latest <= count[i]
      BY <1>a, <2>1, <2>2 DEF RoomToAdd, Falling
    <3>3. count[i] # MAX => Latest < MAX
      BY <1>b, <1>c, <2>3, <3>2
    <3>4. \A u \in Threads : \A j \in view'[u] .. L : j \in view[u] .. L
      BY <1>b, <1>d, <2>1
    <3>5. \A u \in Threads : pc'[u] = "add" => Latest < MAX
      BY <1>a, <1>d, <2>1, <3>3 DEF RoomToAdd
    <3> QED BY <1>a, <2>2, <3>1, <3>4, <3>5 DEF RoomToAdd, Falling, flags
  <2>8. CountExact'
    BY <1>a, <2>2 DEF CountExact, Latest, Saturate, history
  <2> QED BY <2>4, <2>5, <2>6, <2>7, <2>8 DEF Inv
<1>e. ASSUME NEW th \in Threads, NEW v \in 0 .. MAX, Rmw(th, v)
      PROVE  /\ count' \in Seq(0 .. MAX) /\ Len(count') = L + 1 /\ Latest' = v
             /\ \A i \in 1 .. L : count'[i] = count[i]
             /\ \A i \in 1 .. L + 1 : i = L + 1 \/ i \in 1 .. L
             /\ view' \in [Threads -> Nat] /\ view'[th] = L + 1
             /\ \A u \in Threads \ {th} : view'[u] = view[u]
             /\ UNCHANGED <<producer_taken, consumer_taken>> => ViewsValid'
  <2>1. count' = Append(count, v) /\ view' = [view EXCEPT ![th] = L + 1]
    BY <1>e DEF Rmw
  <2>2. count' \in Seq(0 .. MAX) /\ Len(count') = L + 1 /\ count'[L + 1] = v
        /\ \A i \in 1 .. L : count'[i] = count[i]
    BY <1>b, <2>1
  <2>3. view' \in [Threads -> Nat] /\ view'[th] = L + 1
        /\ \A u \in Threads \ {th} : view'[u] = view[u]
    BY <1>b, <1>d, <2>1
  <2>4. count' # <<>> /\ 1 .. L \subseteq 1 .. L + 1 /\ L + 1 \in 1 .. L + 1
        /\ \A i \in 1 .. L + 1 : i = L + 1 \/ i \in 1 .. L
    BY <1>b, <2>2
  <2>5. UNCHANGED <<producer_taken, consumer_taken>> => ViewsValid'
    BY <1>a, <2>2, <2>3, <2>4 DEF ViewsValid
  <2> QED BY <2>2, <2>3, <2>4, <2>5 DEF Latest
<1>f. ASSUME NEW th \in Threads, NEW v \in 0 .. MAX, Rmw(th, v), th \in prod,
             UNCHANGED flags, \A u \in Threads \ {th} : pc'[u] = pc[u],
             pc'[th] = "add" => v < MAX
      PROVE  RoomToAdd'
  <2>1. \A u \in Threads : u \in prod => u = th
    BY <1>a, <1>f DEF SoleProducer
  <2>2. producer_taken.taken
    BY <1>a, <1>f DEF SoleProducer
  <2>3. \A i \in L + 1 .. L + 1 : Latest' <= count'[i]
    <3>1. Latest' = count'[L + 1] /\ Latest' \in Int
      BY <1>e, <1>f DEF Latest
    <3> QED BY <1>b, <3>1
  <2>4. \A u \in Threads : pc'[u] = "add" => u = th
    BY <1>a, <1>f, <2>1 DEF SoleProducer
  <2> QED BY <1>e, <1>f, <2>1, <2>2, <2>3, <2>4 DEF RoomToAdd, Falling, flags
<1>5. ASSUME NEW th \in Threads, IncrementConfirm(th) PROVE Inv'
  <2>1. /\ pc[th] = "confirm" /\ Rmw(th, Latest) /\ UNCHANGED <<flags, snapshot>>
        /\ pc' = [pc EXCEPT ![th] = IF Saturated THEN "idle" ELSE "add"]
        /\ occurred' = (IF Saturated THEN occurred + 1 ELSE occurred)
    BY <1>5 DEF IncrementConfirm, Goto
  <2>2. th \in prod
    BY <1>a, <2>1 DEF SoleProducer
  <2>3. TypeOK'
    BY <1>a, <1>c, <1>d, <1>e, <2>1 DEF TypeOK, flags
  <2>4. ViewsValid'
    BY <1>c, <1>e, <2>1 DEF flags
  <2>5. SoleProducer'
    BY <1>a, <1>d, <2>1, <2>2 DEF SoleProducer, flags
  <2>6. RoomToAdd'
    <3>1. pc'[th] = "add" => Latest < MAX
      BY <1>b, <1>c, <1>d, <2>1 DEF Saturated
    <3>2. \A u \in Threads \ {th} : pc'[u] = pc[u]
      BY <1>d, <2>1
    <3> QED BY <1>c, <1>f, <2>1, <2>2, <3>1, <3>2
  <2>7. CountExact'
    <3>1. Latest' = Latest
      BY <1>c, <1>e, <2>1
    <3>2. CASE Saturated
      <4>1. occurred >= MAX
        BY <1>a, <1>b, <1>d, <3>2 DEF CountExact, Saturate, Saturated
      <4> QED BY <1>a, <1>b, <1>d, <2>1, <3>1, <3>2, <4>1 DEF CountExact, Saturate, Saturated
    <3>3. CASE ~Saturated
      BY <1>a, <2>1, <3>1, <3>3 DEF CountExact, Saturate
    <3> QED BY <3>2, <3>3
  <2> QED BY <2>3, <2>4, <2>5, <2>6, <2>7 DEF Inv
<1>6. ASSUME NEW th \in Threads, IncrementAdd(th) PROVE Inv'
  <2>0. Latest < MAX /\ (Latest + 1) % (MAX + 1) = Latest + 1
    <3>1. Latest < MAX
      BY <1>6, <1>a DEF RoomToAdd, IncrementAdd
    <3>2. PICK m \in Nat \ {0} : m = MAX + 1
      BY <1>b
    <3>3. PICK x \in 0 .. m - 1 : x = Latest + 1
      BY <1>b, <1>c, <3>1, <3>2
    <3>4. x = m * 0 + x
      OBVIOUS
    <3>5. x % m = x
      BY <3>4, ModUnique
    <3> QED BY <3>1, <3>2, <3>3, <3>5
  <2>1. /\ pc[th] = "add" /\ Rmw(th, Latest + 1) /\ UNCHANGED <<flags, snapshot>>
        /\ pc' = [pc EXCEPT ![th] = "idle"] /\ occurred' = occurred + 1
    BY <1>6, <2>0 DEF IncrementAdd, Goto
  <2>2. th \in prod /\ Latest + 1 \in 0 .. MAX
    <3>1. th \in prod
      BY <1>a, <2>1 DEF SoleProducer
    <3>2. Latest + 1 \in 0 .. MAX
      BY <1>b, <1>c, <2>0
    <3> QED BY <3>1, <3>2
  <2>3. TypeOK'
    BY <1>a, <1>d, <1>e, <2>1, <2>2 DEF TypeOK, flags
  <2>4. ViewsValid'
    BY <1>e, <2>1, <2>2 DEF flags
  <2>5. SoleProducer'
    BY <1>a, <1>d, <2>1, <2>2 DEF SoleProducer, flags
  <2>6. RoomToAdd'
    <3>1. pc'[th] = "idle" /\ \A u \in Threads \ {th} : pc'[u] = pc[u]
      BY <1>d, <2>1
    <3> QED BY <1>f, <2>1, <2>2, <3>1
  <2>7. CountExact'
    <3>1. Latest' = Latest + 1
      BY <1>e, <2>1, <2>2
    <3>2. Latest = occurred
      BY <1>a, <1>b, <1>d, <2>0 DEF CountExact, Saturate
    <3> QED BY <1>a, <1>b, <1>d, <2>0, <2>1, <3>1, <3>2 DEF CountExact, Saturate
  <2> QED BY <2>3, <2>4, <2>5, <2>6, <2>7 DEF Inv
<1>7. ASSUME NEW th \in Threads, TakeCount(th) PROVE Inv'
  <2>1. /\ Rmw(th, 0) /\ UNCHANGED <<flags, pc>> /\ occurred' = 0
        /\ snapshot' = [count |-> Latest, occurred |-> occurred]
    BY <1>7 DEF TakeCount
  <2>2. 0 \in 0 .. MAX /\ 0 < MAX
    BY <1>b
  <2>3. TypeOK'
    BY <1>a, <1>c, <1>d, <1>e, <2>1, <2>2 DEF TypeOK, flags
  <2>4. ViewsValid'
    BY <1>e, <2>1, <2>2 DEF flags
  <2>5. SoleProducer'
    BY <1>a, <2>1 DEF SoleProducer, flags
  <2>6. RoomToAdd'
    <3>1. Latest' = 0 /\ Len(count') = L + 1
      BY <1>e, <2>1, <2>2
    <3>2. \A i \in 1 .. L + 1 : 0 <= count'[i]
      <4>1. count' \in Seq(0 .. MAX)
        BY <2>3 DEF TypeOK
      <4>2. \A i \in 1 .. L + 1 : count'[i] \in 0 .. MAX
        BY <1>b, <3>1, <4>1
      <4> QED BY <1>b, <4>2
    <3>3. \A u \in Threads : view'[u] \in 1 .. L + 1
      BY <2>4, <3>1 DEF ViewsValid
    <3>4. producer_taken'.view \in 1 .. L + 1
      BY <2>4, <3>1 DEF ViewsValid
    <3>5. \A p \in 1 .. L + 1 : \A i \in p .. L + 1 : i \in 1 .. L + 1
      BY <1>b
    <3> QED BY <2>2, <3>1, <3>2, <3>3, <3>4, <3>5 DEF RoomToAdd, Falling
  <2>7. CountExact'
    <3>1. Latest' = 0
      BY <1>e, <2>1, <2>2
    <3> QED BY <1>a, <2>1, <2>2, <3>1 DEF CountExact, Saturate
  <2> QED BY <2>3, <2>4, <2>5, <2>6, <2>7 DEF Inv
<1>8. CASE UNCHANGED vars
  BY <1>8, <1>a DEF vars, flags, history, Inv, TypeOK, ViewsValid, SoleProducer, RoomToAdd,
                    Falling, CountExact, Saturate, Latest
<1> QED BY <1>1, <1>2, <1>3, <1>4, <1>5, <1>6, <1>7, <1>8 DEF Next

\* A take returns the number of increments since the preceding take, saturated
\* at MAX, and no increment ever wraps the count: increment relies on a load
\* that may be stale, the single producer and the hand-over of its view.
THEOREM SignalExact == Spec => [](TypeOK /\ CountExact)
<1>1. Inv => TypeOK /\ CountExact
  BY DEF Inv
<1> QED BY InitInv, NextInv, <1>1, PTL DEF Spec
=============================================================================
