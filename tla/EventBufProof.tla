---------------------------- MODULE EventBufProof ----------------------------
(***************************************************************************)
(* Proofs about EventBuf, for every capacity, cursor width, set of threads *)
(* and number of events: the type invariant; why its answers are justified *)
(* for every capacity; why it loses nothing and never races on a slot, for *)
(* every capacity that divides the number of cursor values; and that it    *)
(* then implements the bounded FIFO queue of EventQueue; and what len      *)
(* returns, in behaviours of fewer pushes than cursor values.              *)
(***************************************************************************)
EXTENDS EventBuf, WrapArithmetic, SequenceTheorems

-----------------------------------------------------------------------------
(* Views never point outside the modification orders.                      *)

\* v is a view that points at one of h stores of head and of t stores of tail.
Within(v, h, t) == v \in View /\ v.head \in 1 .. h /\ v.tail \in 1 .. t

ViewsWithin ==
    /\ head # <<>> /\ tail # <<>>
    /\ \A th \in Threads : Within(view[th], Len(head), Len(tail))
    /\ \A i \in 1 .. Len(head) : Within(head[i].view, Len(head), Len(tail))
    /\ \A i \in 1 .. Len(tail) : Within(tail[i].view, Len(head), Len(tail))
    /\ Within(producer_taken.view, Len(head), Len(tail))
    /\ Within(consumer_taken.view, Len(head), Len(tail))

\* The counters of drain and len, where the code relies on them.
CountersInRange ==
    \A th \in Threads :
        /\ pc[th] \in {"pop_tail", "pop_head", "pop_read", "pop_store"} => left[th] >= 1
        /\ pc[th] = "len_fence" => attempt[th] < RETRY_LIMIT

\* The type invariant, strengthened until it is inductive.
Typed == TypeOK /\ ViewsWithin /\ CountersInRange

\* Joining two views that stay within the orders gives such a view.
LEMMA JoinWithin ==
    ASSUME NEW h \in Nat, NEW t \in Nat, NEW v, NEW w,
           Within(v, h, t), Within(w, h, t)
    PROVE  Within(Join(v, w), h, t)
BY DEF Within, Join, MaxOf, View

\* So does a load that returned a store of the order.
LEMMA SawHeadWithin ==
    ASSUME NEW h \in Nat, NEW t \in Nat, NEW v, NEW i \in 1 .. h, Within(v, h, t)
    PROVE  Within(SawHead(v, i), h, t)
BY DEF Within, SawHead, View

LEMMA SawTailWithin ==
    ASSUME NEW h \in Nat, NEW t \in Nat, NEW v, NEW i \in 1 .. t, Within(v, h, t)
    PROVE  Within(SawTail(v, i), h, t)
BY DEF Within, SawTail, View

\* Orders only grow, so a view stays within them.
LEMMA GrowWithin ==
    ASSUME NEW h \in Nat, NEW t \in Nat, NEW v, Within(v, h, t)
    PROVE  Within(v, h + 1, t) /\ Within(v, h, t + 1)
BY DEF Within

\* EventBuf::new establishes the strengthened type invariant.
LEMMA InitTyped == Init => Typed
<1> SUFFICES ASSUME Init PROVE Typed
  OBVIOUS
<1>1. Within(Fresh, 1, 1)
  BY DEF Within, Fresh, View
<1>2. Len(head) = 1 /\ Len(tail) = 1 /\ head # <<>> /\ tail # <<>>
      /\ head[1].view = Fresh /\ tail[1].view = Fresh
  BY DEF Init
<1>3. ViewsWithin
  BY <1>1, <1>2 DEF ViewsWithin, Init
<1>4. CountersInRange
  BY DEF CountersInRange, Init
<1>5. TypeOK
  <2>1. Fresh \in View
    BY DEF Fresh, View
  <2>2. [val |-> Start, view |-> Fresh] \in Stores
    BY <2>1, StartAssumption DEF Stores
  <2>3. head \in Seq(Stores) /\ tail \in Seq(Stores)
    BY <2>2 DEF Init
  <2> QED BY <2>1, <2>3, CapacityAssumption, ModulusAssumption, BoundAssumption
          DEF Init, TypeOK, PCs, RETRY_LIMIT
<1> QED BY <1>3, <1>4, <1>5 DEF Typed

\* Every step keeps it.
LEMMA NextTyped == Typed /\ [Next]_vars => Typed'
<1> SUFFICES ASSUME Typed, [Next]_vars PROVE Typed'
  OBVIOUS
<1>a. TypeOK /\ ViewsWithin /\ CountersInRange
  BY DEF Typed
<1> DEFINE H == Len(head)
           T == Len(tail)
<1>b. H \in Nat \ {0} /\ T \in Nat \ {0}
  BY <1>a DEF TypeOK, ViewsWithin
<1>c. \A th \in Threads : Within(view[th], H, T)
  BY <1>a DEF ViewsWithin
<1>d. \A v : Within(v, H, T) => v \in View
  BY DEF Within
<1>e. (\A i \in 1 .. H : head[i] \in Stores) /\ (\A i \in 1 .. T : tail[i] \in Stores)
  BY <1>a, <1>b DEF TypeOK
<1>f. /\ 0 \in 0 .. Modulus - 1
      /\ \A c \in 0 .. Modulus - 1 : wrapping_add(c, 1) \in 0 .. Modulus - 1
  BY ModulusAssumption, CapacityAssumption, ModRange DEF wrapping_add
<1>g. /\ \A th \in Threads : slot_index(lhead[th]) \in 0 .. N - 1
      /\ \A th \in Threads : slot_index(ltail[th]) \in 0 .. N - 1
  <2>1. \A th \in Threads : lhead[th] \in Int /\ ltail[th] \in Int
    BY <1>a DEF TypeOK
  <2> QED BY <2>1, CapacityAssumption, ModRange DEF slot_index
<1>1. ASSUME NEW th \in Threads, TryProducer(th) PROVE Typed'
  <2>1. Within(Join(view[th], producer_taken.view), H, T)
        /\ Within(Join(producer_taken.view, view[th]), H, T)
    BY <1>a, <1>b, JoinWithin DEF ViewsWithin
  <2>2. TypeOK'
    BY <1>1, <1>a, <1>d, <2>1 DEF TypeOK, TryProducer, Swapped, cells, observe, history
  <2>3. ViewsWithin'
    BY <1>1, <1>a, <2>1 DEF TypeOK, ViewsWithin, TryProducer, Swapped, cells, observe, history
  <2>4. CountersInRange'
    BY <1>1, <1>a DEF CountersInRange, TryProducer, cells, observe, history
  <2> QED BY <2>2, <2>3, <2>4 DEF Typed
<1>2. ASSUME NEW th \in Threads, TryConsumer(th) PROVE Typed'
  <2>1. Within(Join(view[th], consumer_taken.view), H, T)
        /\ Within(Join(consumer_taken.view, view[th]), H, T)
    BY <1>a, <1>b, JoinWithin DEF ViewsWithin
  <2>2. TypeOK'
    BY <1>2, <1>a, <1>d, <2>1 DEF TypeOK, TryConsumer, Swapped, cells, observe, history
  <2>3. ViewsWithin'
    BY <1>2, <1>a, <2>1 DEF TypeOK, ViewsWithin, TryConsumer, Swapped, cells, observe, history
  <2>4. CountersInRange'
    BY <1>2, <1>a DEF CountersInRange, TryConsumer, cells, observe, history
  <2> QED BY <2>2, <2>3, <2>4 DEF Typed
<1>3. ASSUME NEW th \in Threads, DropProducer(th) PROVE Typed'
  <2>1. TypeOK'
    BY <1>3, <1>a DEF TypeOK, DropProducer, Released, cells, observe, history
  <2>2. ViewsWithin'
    BY <1>3, <1>a DEF TypeOK, ViewsWithin, DropProducer, Released, cells, observe, history
  <2>3. CountersInRange'
    BY <1>3, <1>a DEF CountersInRange, DropProducer, cells, observe, history
  <2> QED BY <2>1, <2>2, <2>3 DEF Typed
<1>4. ASSUME NEW th \in Threads, DropConsumer(th) PROVE Typed'
  <2>1. TypeOK'
    BY <1>4, <1>a DEF TypeOK, DropConsumer, Released, cells, observe, history
  <2>2. ViewsWithin'
    BY <1>4, <1>a DEF TypeOK, ViewsWithin, DropConsumer, Released, cells, observe, history
  <2>3. CountersInRange'
    BY <1>4, <1>a DEF CountersInRange, DropConsumer, cells, observe, history
  <2> QED BY <2>1, <2>2, <2>3 DEF Typed
<1>5. ASSUME NEW th \in Threads, PushLoadHead(th) PROVE Typed'
  <2>1. PICK v \in Val, i \in view[th].head .. H :
            /\ lval' = [lval EXCEPT ![th] = v]
            /\ lhead' = [lhead EXCEPT ![th] = head[i].val]
            /\ view' = [view EXCEPT ![th] = SawHead(@, i)]
    BY <1>5 DEF PushLoadHead
  <2>2. i \in 1 .. H
    BY <1>b, <1>c DEF Within, View
  <2>3. Within(SawHead(view[th], i), H, T)
    BY <1>b, <1>c, <2>2, SawHeadWithin
  <2>4. head[i].val \in 0 .. Modulus - 1
    BY <1>e, <2>2 DEF Stores
  <2>5. TypeOK'
    BY <1>5, <1>a, <1>d, <2>1, <2>3, <2>4
       DEF TypeOK, PushLoadHead, Goto, PCs, cells, flags, observe, history
  <2>6. ViewsWithin'
    BY <1>5, <1>a, <2>1, <2>3
       DEF TypeOK, ViewsWithin, PushLoadHead, Goto, cells, flags, observe, history
  <2>7. CountersInRange'
    BY <1>5, <1>a DEF TypeOK, CountersInRange, PushLoadHead, Goto, cells, flags,
                      observe, history
  <2> QED BY <2>5, <2>6, <2>7 DEF Typed
<1>6. ASSUME NEW th \in Threads, PushLoadTail(th) PROVE Typed'
  <2>1. PICK i \in view[th].tail .. T :
            /\ view' = [view EXCEPT ![th] = AcquireTail(@, i, tail[i].view)]
            /\ \/ /\ lval' = [lval EXCEPT ![th] = Uninit]
                  /\ lhead' = [lhead EXCEPT ![th] = 0]
                  /\ pc' = [pc EXCEPT ![th] = "idle"]
               \/ /\ pc' = [pc EXCEPT ![th] = "push_write"]
                  /\ UNCHANGED <<lval, lhead>>
    BY <1>6 DEF PushLoadTail, Goto
  <2>2. i \in 1 .. T
    BY <1>b, <1>c DEF Within, View
  <2>3. Within(AcquireTail(view[th], i, tail[i].view), H, T)
    BY <1>a, <1>b, <1>c, <2>2, SawTailWithin, JoinWithin DEF AcquireTail, ViewsWithin
  <2>4. /\ lval' \in [Threads -> Val \cup {Uninit}]
        /\ lhead' \in [Threads -> 0 .. Modulus - 1]
        /\ pc' \in [Threads -> PCs]
    <3>1. /\ lval \in [Threads -> Val \cup {Uninit}]
          /\ lhead \in [Threads -> 0 .. Modulus - 1]
          /\ pc \in [Threads -> PCs]
      BY <1>a DEF TypeOK
    <3> QED BY <1>f, <2>1, <3>1 DEF PCs
  <2>5. TypeOK'
    BY <1>6, <1>a, <1>d, <2>1, <2>3, <2>4
       DEF TypeOK, PushLoadTail, cells, flags, observe, history
  <2>6. ViewsWithin'
    BY <1>6, <1>a, <2>1, <2>3
       DEF TypeOK, ViewsWithin, PushLoadTail, cells, flags, observe, history
  <2>7. CountersInRange'
    BY <1>6, <1>a, <2>1, SMTT(30) DEF TypeOK, CountersInRange, PushLoadTail, cells, flags,
                      observe, history
  <2> QED BY <2>5, <2>6, <2>7 DEF Typed
<1>7. ASSUME NEW th \in Threads, PushWrite(th) PROVE Typed'
  <2>1. slot_index(lhead[th]) \in 0 .. N - 1
    BY <1>g
  <2>2. Within([view[th] EXCEPT !.wr = view[th].head], H, T) /\ view[th].head \in Nat
    BY <1>c, <1>b DEF Within, View
  <2>3. TypeOK'
    BY <1>7, <1>a, <1>d, <2>1, <2>2
       DEF TypeOK, PushWrite, Goto, PCs, flags, observe, history
  <2>4. ViewsWithin'
    BY <1>7, <1>a, <2>2
       DEF TypeOK, ViewsWithin, PushWrite, Goto, flags, observe, history
  <2>5. CountersInRange'
    BY <1>7, <1>a DEF TypeOK, CountersInRange, PushWrite, Goto, flags, observe, history
  <2> QED BY <2>3, <2>4, <2>5 DEF Typed
<1>8. ASSUME NEW th \in Threads, PushStore(th) PROVE Typed'
  <2> DEFINE new == SawHead(view[th], H + 1)
             store == [val |-> wrapping_add(lhead[th], 1), view |-> new]
  <2>1. Within(new, H + 1, T)
    <3>1. Within(view[th], H + 1, T)
      BY <1>b, <1>c, GrowWithin
    <3> QED BY <3>1, <1>b, SawHeadWithin
  <2>2. store \in Stores
    BY <1>a, <1>f, <2>1 DEF TypeOK, Within, Stores
  <2>3. head' = Append(head, store) /\ tail' = tail
    BY <1>8 DEF PushStore
  <2>4. Len(head') = H + 1 /\ head'[H + 1] = store /\ \A i \in 1 .. H : head'[i] = head[i]
    BY <1>a, <2>3, <2>2 DEF TypeOK
  <2>5. head' \in Seq(Stores)
    BY <1>a, <2>2, <2>3 DEF TypeOK
  <2> HIDE DEF new, store
  <2>6. TypeOK'
    <3>1. accepted' \in Seq(Val \cup {Uninit})
      <4>1. lval[th] \in Val \cup {Uninit} /\ accepted \in Seq(Val \cup {Uninit})
        BY <1>a DEF TypeOK
      <4> QED BY <1>8, <4>1 DEF PushStore
    <3>2. view' \in [Threads -> View]
      BY <1>8, <1>a, <2>1 DEF TypeOK, PushStore, new, Within
    <3> QED BY <1>8, <1>a, <1>f, <2>5, <3>1, <3>2
            DEF TypeOK, PushStore, Goto, PCs, cells, flags, observe
  <2>7. ViewsWithin'
    <3>1. \A v : Within(v, H, T) => Within(v, H + 1, T)
      BY <1>b, GrowWithin
    <3>2. view' = [view EXCEPT ![th] = new] /\ UNCHANGED flags
      BY <1>8 DEF PushStore, new
    <3>3. store.view = new
      BY DEF store
    <3>4. \A i \in 1 .. H + 1 : i = H + 1 \/ i \in 1 .. H
      BY <1>b
    <3>5. \A i \in 1 .. H + 1 : Within(head'[i].view, H + 1, T)
      BY <1>a, <2>1, <2>4, <3>1, <3>3, <3>4 DEF ViewsWithin
    <3>6. \A u \in Threads : Within(view'[u], H + 1, T)
      BY <1>a, <2>1, <3>1, <3>2 DEF ViewsWithin, TypeOK
    <3>7. head' # <<>>
      BY <1>b, <2>4
    <3> QED BY <1>a, <2>3, <2>4, <3>1, <3>2, <3>5, <3>6, <3>7 DEF ViewsWithin, flags
  <2>8. CountersInRange'
    BY <1>8, <1>a DEF TypeOK, CountersInRange, PushStore, Goto, cells, flags, observe
  <2> QED BY <2>6, <2>7, <2>8 DEF Typed
<1>9. ASSUME NEW th \in Threads, StartPops(th) PROVE Typed'
  <2>1. PICK max \in 1 .. DrainMax : left' = [left EXCEPT ![th] = max]
    BY <1>9 DEF StartPops
  <2>2. TypeOK'
    BY <1>9, <1>a, <2>1, BoundAssumption, SMTT(30)
       DEF TypeOK, StartPops, Goto, PCs, cells, flags, observe, history
  <2>3. ViewsWithin'
    BY <1>9, <1>a DEF TypeOK, ViewsWithin, StartPops, cells, flags, observe, history
  <2>4. CountersInRange'
    BY <1>9, <1>a, <2>1 DEF TypeOK, CountersInRange, StartPops, Goto, cells, flags,
                            observe, history
  <2> QED BY <2>2, <2>3, <2>4 DEF Typed
<1>10. ASSUME NEW th \in Threads, StartPeek(th) PROVE Typed'
  <2>1. TypeOK'
    BY <1>10, <1>a DEF TypeOK, StartPeek, Goto, PCs, cells, flags, observe, history
  <2>2. ViewsWithin'
    BY <1>10, <1>a DEF TypeOK, ViewsWithin, StartPeek, cells, flags, observe, history
  <2>3. CountersInRange'
    BY <1>10, <1>a DEF TypeOK, CountersInRange, StartPeek, Goto, cells, flags,
                      observe, history
  <2> QED BY <2>1, <2>2, <2>3 DEF Typed
<1>11. ASSUME NEW th \in Threads, PopLoadTail(th) \/ PeekLoadTail(th) PROVE Typed'
  <2>0. PICK from \in {"pop_tail", "peek_tail"}, to \in {"pop_head", "peek_head"} :
            /\ LoadOwnTail(th, from, to)
            /\ to = "pop_head" => from = "pop_tail"
    BY <1>11 DEF PopLoadTail, PeekLoadTail
  <2>1. PICK i \in view[th].tail .. T :
            /\ ltail' = [ltail EXCEPT ![th] = tail[i].val]
            /\ view' = [view EXCEPT ![th] = SawTail(@, i)]
    BY <2>0 DEF LoadOwnTail
  <2>2. i \in 1 .. T
    BY <1>b, <1>c DEF Within, View
  <2>3. Within(SawTail(view[th], i), H, T)
    BY <1>b, <1>c, <2>2, SawTailWithin
  <2>4. tail[i].val \in 0 .. Modulus - 1
    BY <1>e, <2>2 DEF Stores
  <2>5. TypeOK'
    BY <2>0, <1>a, <1>d, <2>1, <2>3, <2>4
       DEF TypeOK, LoadOwnTail, Goto, PCs, cells, flags, observe, history
  <2>6. ViewsWithin'
    BY <2>0, <1>a, <2>1, <2>3
       DEF TypeOK, ViewsWithin, LoadOwnTail, Goto, cells, flags, observe, history
  <2>7. CountersInRange'
    BY <2>0, <1>a DEF TypeOK, CountersInRange, LoadOwnTail, Goto, cells, flags,
                      observe, history
  <2> QED BY <2>5, <2>6, <2>7 DEF Typed
<1>12. ASSUME NEW th \in Threads, PopLoadHead(th) \/ PeekLoadHead(th) PROVE Typed'
  <2>0. PICK from \in {"pop_head", "peek_head"}, to \in {"pop_read", "peek_read"},
             i \in view[th].head .. H :
            /\ LoadHeadAt(th, from, to, i)
            /\ to = "pop_read" => from = "pop_head"
    BY <1>12 DEF PopLoadHead, PeekLoadHead, LoadHead
  <2>1. /\ view' = [view EXCEPT ![th] = AcquireHead(@, i, head[i].view)]
        /\ \/ /\ ltail' = [ltail EXCEPT ![th] = 0]
              /\ left' = [left EXCEPT ![th] = 0]
              /\ pc' = [pc EXCEPT ![th] = "idle"]
           \/ /\ pc' = [pc EXCEPT ![th] = to]
              /\ UNCHANGED <<ltail, left>>
    BY <2>0 DEF LoadHeadAt, Goto
  <2>2. i \in 1 .. H
    BY <1>b, <1>c DEF Within, View
  <2>3. Within(AcquireHead(view[th], i, head[i].view), H, T)
    BY <1>a, <1>b, <1>c, <2>2, SawHeadWithin, JoinWithin DEF AcquireHead, ViewsWithin
  <2>4. /\ ltail' \in [Threads -> 0 .. Modulus - 1]
        /\ left' \in [Threads -> 0 .. DrainMax]
        /\ pc' \in [Threads -> PCs]
    <3>1. /\ ltail \in [Threads -> 0 .. Modulus - 1]
          /\ left \in [Threads -> 0 .. DrainMax]
          /\ pc \in [Threads -> PCs]
      BY <1>a DEF TypeOK
    <3>2. 0 \in 0 .. DrainMax
      BY BoundAssumption
    <3> QED BY <1>f, <2>1, <3>1, <3>2 DEF PCs
  <2>5. TypeOK'
    BY <2>0, <1>a, <1>d, <2>1, <2>3, <2>4, SMTT(30)
       DEF TypeOK, LoadHeadAt, cells, flags, observe, history
  <2>6. ViewsWithin'
    BY <2>0, <1>a, <2>1, <2>3
       DEF TypeOK, ViewsWithin, LoadHeadAt, cells, flags, observe, history
  <2>7. CountersInRange'
    BY <2>0, <1>a, <2>1 DEF TypeOK, CountersInRange, LoadHeadAt, observe
  <2> QED BY <2>5, <2>6, <2>7 DEF Typed
<1>13. ASSUME NEW th \in Threads, PopRead(th) \/ PeekRead(th) PROVE Typed'
  <2>1. slot_index(ltail[th]) \in 0 .. N - 1
    BY <1>g
  <2>2. Within([view[th] EXCEPT !.rd = view[th].tail], H, T) /\ view[th].tail \in Nat
    BY <1>c, <1>b DEF Within, View
  <2>3. CASE PopRead(th)
    <3>1. TypeOK'
      BY <2>3, <1>a, <1>d, <2>1, <2>2
         DEF TypeOK, PopRead, StampRead, Goto, PCs, flags, observe, history
    <3>2. ViewsWithin'
      BY <2>3, <1>a, <2>2
         DEF TypeOK, ViewsWithin, PopRead, StampRead, flags, observe, history
    <3>3. CountersInRange'
      BY <2>3, <1>a DEF TypeOK, CountersInRange, PopRead, Goto, observe
    <3> QED BY <3>1, <3>2, <3>3 DEF Typed
  <2>4. CASE PeekRead(th)
    <3>1. TypeOK'
      BY <2>4, <1>a, <1>d, <1>f, <2>1, <2>2
         DEF TypeOK, PeekRead, StampRead, Goto, PCs, flags, observe, history
    <3>2. ViewsWithin'
      BY <2>4, <1>a, <2>2
         DEF TypeOK, ViewsWithin, PeekRead, StampRead, flags, observe, history
    <3>3. CountersInRange'
      BY <2>4, <1>a DEF TypeOK, CountersInRange, PeekRead, Goto, observe
    <3> QED BY <3>1, <3>2, <3>3 DEF Typed
  <2> QED BY <1>13, <2>3, <2>4
<1>14. ASSUME NEW th \in Threads, PopStore(th) PROVE Typed'
  <2> DEFINE new == SawTail(view[th], T + 1)
             store == [val |-> wrapping_add(ltail[th], 1), view |-> new]
  <2>1. Within(new, H, T + 1)
    <3>1. Within(view[th], H, T + 1)
      BY <1>b, <1>c, GrowWithin
    <3> QED BY <3>1, <1>b, SawTailWithin
  <2>2. store \in Stores
    BY <1>a, <1>f, <2>1 DEF TypeOK, Within, Stores
  <2>3. tail' = Append(tail, store) /\ head' = head
    BY <1>14 DEF PopStore
  <2>4. Len(tail') = T + 1 /\ tail'[T + 1] = store /\ \A i \in 1 .. T : tail'[i] = tail[i]
    BY <1>a, <2>3, <2>2 DEF TypeOK
  <2>5. tail' \in Seq(Stores)
    BY <1>a, <2>2, <2>3 DEF TypeOK
  <2> HIDE DEF new, store
  <2>6. TypeOK'
    <3>1. popped' \in Seq(Val \cup {Uninit})
      <4>1. lval[th] \in Val \cup {Uninit} /\ popped \in Seq(Val \cup {Uninit})
        BY <1>a DEF TypeOK
      <4> QED BY <1>14, <4>1 DEF PopStore
    <3>2. view' \in [Threads -> View]
      BY <1>14, <1>a, <2>1 DEF TypeOK, PopStore, new, Within
    <3>3. left' \in [Threads -> 0 .. DrainMax]
      BY <1>14, <1>a, BoundAssumption DEF TypeOK, CountersInRange, PopStore
    <3>4. pc' \in [Threads -> PCs]
      BY <1>14, <1>a DEF TypeOK, PopStore, Goto, PCs
    <3> QED BY <1>14, <1>a, <1>f, <2>5, <3>1, <3>2, <3>3, <3>4
            DEF TypeOK, PopStore, cells, flags, observe
  <2>7. ViewsWithin'
    <3>1. \A v : Within(v, H, T) => Within(v, H, T + 1)
      BY <1>b, GrowWithin
    <3>2. view' = [view EXCEPT ![th] = new] /\ UNCHANGED flags
      BY <1>14 DEF PopStore, new
    <3>3. store.view = new
      BY DEF store
    <3>4. \A i \in 1 .. T + 1 : i = T + 1 \/ i \in 1 .. T
      BY <1>b
    <3>5. \A i \in 1 .. T + 1 : Within(tail'[i].view, H, T + 1)
      BY <1>a, <2>1, <2>4, <3>1, <3>3, <3>4 DEF ViewsWithin
    <3>6. \A u \in Threads : Within(view'[u], H, T + 1)
      BY <1>a, <2>1, <3>1, <3>2 DEF ViewsWithin, TypeOK
    <3>7. tail' # <<>>
      BY <1>b, <2>4
    <3> QED BY <1>a, <2>3, <2>4, <3>1, <3>2, <3>5, <3>6, <3>7 DEF ViewsWithin, flags
  <2>8. CountersInRange'
    BY <1>14, <1>a DEF TypeOK, CountersInRange, PopStore, Goto, observe
  <2> QED BY <2>6, <2>7, <2>8 DEF Typed
<1>15. ASSUME NEW th \in Threads, LenTail1(th) PROVE Typed'
  <2>1. PICK i \in view[th].tail .. T :
            /\ ltail' = [ltail EXCEPT ![th] = tail[i].val]
            /\ view' = [view EXCEPT ![th] = AcquireTail(@, i, tail[i].view)]
    BY <1>15 DEF LenTail1
  <2>2. i \in 1 .. T
    BY <1>b, <1>c DEF Within, View
  <2>3. Within(AcquireTail(view[th], i, tail[i].view), H, T)
    BY <1>a, <1>b, <1>c, <2>2, SawTailWithin, JoinWithin DEF AcquireTail, ViewsWithin
  <2>4. tail[i].val \in 0 .. Modulus - 1
    BY <1>e, <2>2 DEF Stores
  <2>5. since' \in [Threads -> View]
    BY <1>15, <1>a DEF TypeOK, LenTail1
  <2>6. TypeOK'
    BY <1>15, <1>a, <1>d, <2>1, <2>3, <2>4, <2>5
       DEF TypeOK, LenTail1, Goto, PCs, cells, flags, history
  <2>7. ViewsWithin'
    BY <1>15, <1>a, <2>1, <2>3
       DEF TypeOK, ViewsWithin, LenTail1, flags
  <2>8. CountersInRange'
    BY <1>15, <1>a DEF TypeOK, CountersInRange, LenTail1, Goto
  <2> QED BY <2>6, <2>7, <2>8 DEF Typed
<1>16. ASSUME NEW th \in Threads, LenHead(th) PROVE Typed'
  <2>1. PICK i \in view[th].head .. H :
            /\ lhead' = [lhead EXCEPT ![th] = head[i].val]
            /\ view' = [view EXCEPT ![th] = SawHead(@, i)]
    BY <1>16 DEF LenHead
  <2>2. i \in 1 .. H
    BY <1>b, <1>c DEF Within, View
  <2>3. Within(SawHead(view[th], i), H, T)
    BY <1>b, <1>c, <2>2, SawHeadWithin
  <2>4. head[i].val \in 0 .. Modulus - 1
    BY <1>e, <2>2 DEF Stores
  <2>5. TypeOK'
    BY <1>16, <1>a, <1>d, <2>1, <2>3, <2>4
       DEF TypeOK, LenHead, Goto, PCs, cells, flags, observe, history
  <2>6. ViewsWithin'
    BY <1>16, <1>a, <2>1, <2>3 DEF TypeOK, ViewsWithin, LenHead, flags
  <2>7. CountersInRange'
    BY <1>16, <1>a DEF TypeOK, CountersInRange, LenHead, Goto, observe
  <2> QED BY <2>5, <2>6, <2>7 DEF Typed
<1>17. ASSUME NEW th \in Threads, LenTail2(th) PROVE Typed'
  <2>1. Within(Fence(view[th]), H, T)
    <3>1. view[th].head \in 1 .. H
      BY <1>c DEF Within
    <3>2. Within(head[view[th].head].view, H, T)
      BY <1>a, <3>1 DEF ViewsWithin
    <3> QED BY <1>b, <1>c, <3>2, JoinWithin DEF Fence
  <2>2. PICK i \in Fence(view[th]).tail .. T :
            /\ view' = [view EXCEPT ![th] = SawTail(Fence(@), i)]
            /\ \/ pc' = [pc EXCEPT ![th] = "len_ret"] /\ UNCHANGED attempt
               \/ /\ attempt' = [attempt EXCEPT ![th] = @ + 1]
                  /\ pc' = [pc EXCEPT ![th] = "len_tail"]
    BY <1>17 DEF LenTail2, Goto
  <2>3. Within(SawTail(Fence(view[th]), i), H, T)
    <3>1. i \in 1 .. T
      BY <1>b, <2>1 DEF Within, View
    <3> QED BY <1>b, <2>1, <3>1, SawTailWithin
  <2>4. attempt' \in [Threads -> 0 .. RETRY_LIMIT] /\ pc' \in [Threads -> PCs]
    <3>1. pc[th] = "len_fence"
      BY <1>17 DEF LenTail2
    <3>2. attempt[th] + 1 \in 0 .. RETRY_LIMIT
      <4>1. attempt[th] \in 0 .. RETRY_LIMIT
        BY <1>a DEF TypeOK
      <4>2. attempt[th] < RETRY_LIMIT
        BY <1>a, <3>1 DEF CountersInRange
      <4> QED BY <4>1, <4>2 DEF RETRY_LIMIT
    <3>3. attempt \in [Threads -> 0 .. RETRY_LIMIT] /\ pc \in [Threads -> PCs]
      BY <1>a DEF TypeOK
    <3> QED BY <2>2, <3>2, <3>3 DEF PCs
  <2>5. TypeOK'
    BY <1>17, <1>a, <1>d, <2>2, <2>3, <2>4
       DEF TypeOK, LenTail2, cells, flags, history
  <2>6. ViewsWithin'
    BY <1>17, <1>a, <2>2, <2>3 DEF TypeOK, ViewsWithin, LenTail2, flags
  <2>7. CountersInRange'
    BY <1>17, <1>a, <2>2, SMTT(30) DEF TypeOK, CountersInRange, LenTail2
  <2> QED BY <2>5, <2>6, <2>7 DEF Typed
<1>18. ASSUME NEW th \in Threads, LenReturn(th) PROVE Typed'
  <2>1. Fresh \in View /\ 0 \in 0 .. RETRY_LIMIT
    BY DEF Fresh, View, RETRY_LIMIT
  <2>2. TypeOK'
    BY <1>18, <1>a, <1>f, <2>1
       DEF TypeOK, LenReturn, Goto, PCs, cells, flags, history
  <2>3. ViewsWithin'
    BY <1>18, <1>a DEF TypeOK, ViewsWithin, LenReturn, flags
  <2>4. CountersInRange'
    BY <1>18, <1>a DEF TypeOK, CountersInRange, LenReturn, Goto
  <2> QED BY <2>2, <2>3, <2>4 DEF Typed
<1>19. CASE UNCHANGED vars
  BY <1>19, <1>a DEF Typed, TypeOK, ViewsWithin, CountersInRange, vars, cells, flags,
                     observe, history
<1> QED
  BY <1>1, <1>2, <1>3, <1>4, <1>5, <1>6, <1>7, <1>8, <1>9, <1>10, <1>11, <1>12,
     <1>13, <1>14, <1>15, <1>16, <1>17, <1>18, <1>19
     DEF Next, Handles, Push, Pops, Peek, LenCall

\* The type invariant holds in every reachable state: whatever the threads do,
\* cursors stay u32 values, views stay inside the modification orders and the
\* retry and drain counters stay in range.
THEOREM TypeCorrect == Spec => []TypeOK
<1>1. Typed => TypeOK
  BY DEF Typed
<1> QED BY InitTyped, NextTyped, <1>1, PTL DEF Spec

-----------------------------------------------------------------------------
(* Safety.                                                                 *)

PushPCs == {"push_tail", "push_write", "push_store"}
PopPCs  == {"pop_tail", "pop_head", "pop_read", "pop_store",
            "peek_tail", "peek_head", "peek_read"}

\* Position k of a modification order holds this cursor value, and the event
\* pushed k-th goes to this slot.
Cursor(k) == (Start + k - 1) % Modulus
Slot(k)   == (Start + k - 1) % N

-----------------------------------------------------------------------------
(* Part 1: cursors, handles and views.                                     *)

\* The cursors count the events accepted and popped, at most N apart, and a
\* store's view points at the store itself and covers the access it publishes.
Cursors ==
    /\ Len(accepted) = Len(head) - 1 /\ Len(popped) = Len(tail) - 1
    /\ Len(tail) <= Len(head) /\ Len(head) - Len(tail) <= N
    /\ \A i \in 1 .. Len(head) : /\ head[i].val = Cursor(i)
                                 /\ head[i].view.head = i
                                 /\ head[i].view.wr >= i - 1
    /\ \A i \in 1 .. Len(tail) : /\ tail[i].val = Cursor(i)
                                 /\ tail[i].view.tail = i
                                 /\ tail[i].view.rd >= i - 1

\* Each flag admits one handle at a time, and only its holder is inside a call.
Handled ==
    /\ \A th \in Threads, u \in Threads :
          /\ th \in prod /\ u \in prod => th = u
          /\ th \in cons /\ u \in cons => th = u
    /\ prod # {} => producer_taken.taken
    /\ cons # {} => consumer_taken.taken
    /\ \A th \in Threads : /\ pc[th] \in PushPCs => th \in prod
                           /\ pc[th] \in PopPCs => th \in cons

\* What holding a handle lets a thread know: its own cursor exactly, and enough
\* of the other one.  A flag that is not taken carries that knowledge on.
ProducerKnows(v) ==
    /\ v.head = Len(head) /\ v.tail >= Len(head) - N
    /\ \A s \in 0 .. N - 1 : written[s] <= v.wr
ConsumerKnows(v) == v.tail = Len(tail) /\ v.head >= Len(tail)

Knowing ==
    /\ \A th \in Threads : /\ th \in prod => ProducerKnows(view[th])
                           /\ th \in cons => ConsumerKnows(view[th])
    /\ ~producer_taken.taken => ProducerKnows(producer_taken.view)
    /\ ~consumer_taken.taken => ConsumerKnows(consumer_taken.view)

\* What the locals of a call say about the shared state while it runs.
Locals ==
    /\ \A s \in 0 .. N - 1 : written[s] <= Len(head)
    /\ \A th \in Threads :
        /\ pc[th] \in PushPCs => lhead[th] = Cursor(Len(head)) /\ lval[th] \in Val
        /\ pc[th] \in {"push_write", "push_store"} =>
              /\ Len(head) - view[th].tail < N
              /\ view[th].rd >= view[th].tail - 1
        /\ pc[th] = "push_store" => view[th].wr >= Len(head)
        /\ pc[th] \in PopPCs \ {"pop_tail", "peek_tail"} =>
              ltail[th] = Cursor(Len(tail))
        /\ pc[th] \in {"pop_read", "pop_store", "peek_read"} =>
              view[th].head > Len(tail) /\ view[th].wr >= Len(tail)
        /\ pc[th] = "pop_store" => view[th].rd >= Len(tail)

Ordered == Cursors /\ Handled /\ Knowing /\ Locals

-----------------------------------------------------------------------------
(* Part 2: the slots.                                                      *)

\* The slots hold the events between the cursors, stamped with their number; a
\* slot was last read for an event that is no longer ahead of it.
Contents ==
    /\ \A k \in Len(tail) .. Len(head) - 1 :
          slots[Slot(k)] = accepted[k] /\ written[Slot(k)] = k
    /\ \A k \in 1 .. Len(popped) : popped[k] = accepted[k]
    /\ \A s \in 0 .. N - 1 :
          \/ read[s] = 0
          \/ /\ read[s] <= Len(tail) /\ read[s] < Len(head)
             /\ Slot(read[s]) = s
    /\ \A th \in Threads :
          /\ pc[th] = "push_store" =>
                slots[Slot(Len(head))] = lval[th] /\ written[Slot(Len(head))] = Len(head)
          /\ pc[th] = "pop_store" => lval[th] = accepted[Len(tail)]

-----------------------------------------------------------------------------
(* Lemmas about views.                                                     *)

\* w points at least as far as v.
Covers(w, v) == w.head >= v.head /\ w.tail >= v.tail /\ w.wr >= v.wr

\* A join points as far as the further of its two views, in each component.
LEMMA JoinFacts ==
    ASSUME NEW v \in View, NEW w \in View
    PROVE  /\ Join(v, w) \in View
           /\ Covers(Join(v, w), v) /\ Covers(Join(v, w), w)
           /\ Join(v, w).rd >= v.rd /\ Join(v, w).rd >= w.rd
           /\ Join(v, w).head = v.head \/ Join(v, w).head = w.head
           /\ Join(v, w).tail = v.tail \/ Join(v, w).tail = w.tail
BY DEF Join, MaxOf, View, Covers

\* A load that does not go back in the order leaves a view that covers the old.
LEMMA SawFacts ==
    ASSUME NEW v \in View, NEW i \in Nat
    PROVE  /\ SawHead(v, i) \in View /\ SawTail(v, i) \in View
           /\ SawHead(v, i) = [v EXCEPT !.head = i]
           /\ SawHead(v, i).head = i /\ SawHead(v, i).tail = v.tail
           /\ SawHead(v, i).wr = v.wr /\ SawHead(v, i).rd = v.rd
           /\ SawTail(v, i).tail = i /\ SawTail(v, i).head = v.head
           /\ SawTail(v, i).wr = v.wr /\ SawTail(v, i).rd = v.rd
           /\ i >= v.head => Covers(SawHead(v, i), v)
           /\ i >= v.tail => Covers(SawTail(v, i), v)
BY DEF SawHead, SawTail, View, Covers

\* An Acquire load of tail that returned store i, which carries m; of head.
LEMMA AcquireFacts ==
    ASSUME NEW v \in View, NEW m \in View, NEW i \in Nat
    PROVE  /\ i >= v.tail => Covers(AcquireTail(v, i, m), v)
           /\ m.tail = i => AcquireTail(v, i, m).tail = i
           /\ AcquireTail(v, i, m).rd >= m.rd
           /\ i >= v.head => Covers(AcquireHead(v, i, m), v)
           /\ m.head = i => AcquireHead(v, i, m).head = i
           /\ AcquireHead(v, i, m).wr >= m.wr
BY DEF AcquireTail, AcquireHead, SawTail, SawHead, Join, MaxOf, View, Covers

\* What a handle's holder knows it still knows with a view that covers its own.
LEMMA KnowMore ==
    ASSUME Typed, NEW v, NEW w, Within(v, Len(head), Len(tail)),
           Within(w, Len(head), Len(tail)), Covers(w, v)
    PROVE  /\ ProducerKnows(v) => ProducerKnows(w)
           /\ ConsumerKnows(v) => ConsumerKnows(w)
<1>1. Len(head) \in Nat /\ Len(tail) \in Nat /\ N \in Nat /\ v \in View /\ w \in View
  BY CapacityAssumption DEF Typed, TypeOK, Within
<1>2. \A s \in 0 .. N - 1 : written[s] \in Nat
  BY DEF Typed, TypeOK
<1> QED BY <1>1, <1>2 DEF ProducerKnows, ConsumerKnows, Within, Covers, View

\* Steps that move no cursor, write no slot and hand no handle over keep it.
LEMMA KnowingKept ==
    ASSUME Typed, Typed', Knowing,
           UNCHANGED <<head, tail, written, flags>>,
           \A th \in Threads : Covers(view'[th], view[th])
    PROVE  Knowing'
<1>1. \A th \in Threads : Within(view[th], Len(head), Len(tail))
  BY DEF Typed, ViewsWithin
<1>2. \A th \in Threads : Within(view'[th], Len(head), Len(tail))
  BY DEF Typed, ViewsWithin
<1>3. \A th \in Threads : /\ ProducerKnows(view[th]) => ProducerKnows(view'[th])
                          /\ ConsumerKnows(view[th]) => ConsumerKnows(view'[th])
  BY <1>1, <1>2, KnowMore
<1> QED BY <1>3 DEF Knowing, ProducerKnows, ConsumerKnows, flags

-----------------------------------------------------------------------------
(* Part 1 is inductive.                                                    *)

\* EventBuf::new establishes it.
LEMMA InitOrdered == Init => Ordered
<1> SUFFICES ASSUME Init PROVE Ordered
  OBVIOUS
<1>1. Len(head) = 1 /\ Len(tail) = 1 /\ head[1] = [val |-> Start, view |-> Fresh]
      /\ tail[1] = [val |-> Start, view |-> Fresh]
      /\ Len(accepted) = 0 /\ Len(popped) = 0
  BY DEF Init
<1>2. Cursor(1) = Start
  BY StartAssumption, ModulusAssumption DEF Cursor
<1>3. Cursors
  BY <1>1, <1>2, CapacityAssumption DEF Cursors, Fresh
<1>4. Handled
  BY DEF Init, Handled, PushPCs, PopPCs
<1>5. Knowing
  BY <1>1, CapacityAssumption DEF Init, Knowing, ProducerKnows, ConsumerKnows, Fresh
<1>6. Locals
  BY <1>1 DEF Init, Locals, PushPCs, PopPCs
<1> QED BY <1>3, <1>4, <1>5, <1>6 DEF Ordered

\* Every step keeps it, by the thread that takes the step.
LEMMA HandlesOrdered ==
    ASSUME Typed, Typed', Ordered, NEW th \in Threads, Handles(th)
    PROVE  Ordered'
<1>a. Cursors /\ Handled /\ Knowing /\ Locals
  BY DEF Ordered
<1>b. /\ pc \in [Threads -> PCs] /\ view \in [Threads -> View]
      /\ prod \subseteq Threads /\ cons \subseteq Threads
  BY DEF Typed, TypeOK, Threads
<1>c. /\ \A u \in Threads : Within(view[u], Len(head), Len(tail))
      /\ Within(producer_taken.view, Len(head), Len(tail))
      /\ Within(consumer_taken.view, Len(head), Len(tail))
  BY DEF Typed, ViewsWithin
<1>d. Len(head) \in Nat /\ Len(tail) \in Nat
  <2>1. TypeOK
    BY DEF Typed
  <2> QED BY <2>1 DEF TypeOK
<1>e. \A v, w : Within(v, Len(head), Len(tail)) /\ Within(w, Len(head), Len(tail)) =>
          /\ Within(Join(v, w), Len(head), Len(tail))
          /\ Covers(Join(v, w), v) /\ Covers(Join(v, w), w)
  BY <1>d, JoinWithin, JoinFacts DEF Within
<1>f. UNCHANGED <<head, tail, cells, pc, lhead, ltail, lval, left, observe, history>>
      /\ pc[th] = "idle"
  BY DEF Handles, TryProducer, TryConsumer, DropProducer, DropConsumer
<1>1. Cursors'
  BY <1>a, <1>f DEF Cursors, history
<1>2. CASE TryProducer(th)
  <2>1. UNCHANGED <<cons, consumer_taken>>
        /\ view' = [view EXCEPT ![th] = Join(view[th], producer_taken.view)]
        /\ producer_taken' = [taken |-> TRUE, view |-> Join(producer_taken.view, view[th])]
        /\ prod' = IF producer_taken.taken THEN prod ELSE prod \cup {th}
    BY <1>2 DEF TryProducer, Swapped
  <2>2. Handled'
    BY <1>a, <1>b, <1>f, <2>1 DEF Handled, PushPCs, PopPCs
  <2>3. \A u \in Threads : Covers(view'[u], view[u]) /\ Within(view'[u], Len(head), Len(tail))
    <3>1. \A u \in Threads : Covers(view[u], view[u])
      BY <1>b DEF Covers, View
    <3> QED BY <1>b, <1>c, <1>e, <2>1, <3>1
  <2>4. /\ \A u \in Threads : /\ u \in prod => ProducerKnows(view'[u])
                              /\ u \in cons => ConsumerKnows(view'[u])
        /\ ~producer_taken.taken => ProducerKnows(view'[th])
    <3>1. Covers(view'[th], producer_taken.view)
      BY <1>b, <1>c, <1>e, <2>1
    <3> QED BY <1>a, <1>c, <2>3, <3>1, KnowMore DEF Knowing
  <2>5. Knowing'
    BY <1>a, <1>f, <2>1, <2>4 DEF Knowing, ProducerKnows, ConsumerKnows, cells
  <2>6. Locals'
    BY <1>a, <1>b, <1>f, <2>1 DEF Locals, PushPCs, PopPCs, cells
  <2> QED BY <1>1, <2>2, <2>5, <2>6 DEF Ordered
<1>3. CASE TryConsumer(th)
  <2>1. UNCHANGED <<prod, producer_taken>>
        /\ view' = [view EXCEPT ![th] = Join(view[th], consumer_taken.view)]
        /\ consumer_taken' = [taken |-> TRUE, view |-> Join(consumer_taken.view, view[th])]
        /\ cons' = IF consumer_taken.taken THEN cons ELSE cons \cup {th}
    BY <1>3 DEF TryConsumer, Swapped
  <2>2. Handled'
    BY <1>a, <1>b, <1>f, <2>1 DEF Handled, PushPCs, PopPCs
  <2>3. \A u \in Threads : Covers(view'[u], view[u]) /\ Within(view'[u], Len(head), Len(tail))
    <3>1. \A u \in Threads : Covers(view[u], view[u])
      BY <1>b DEF Covers, View
    <3> QED BY <1>b, <1>c, <1>e, <2>1, <3>1
  <2>4. /\ \A u \in Threads : /\ u \in prod => ProducerKnows(view'[u])
                              /\ u \in cons => ConsumerKnows(view'[u])
        /\ ~consumer_taken.taken => ConsumerKnows(view'[th])
    <3>1. Covers(view'[th], consumer_taken.view)
      BY <1>b, <1>c, <1>e, <2>1
    <3> QED BY <1>a, <1>c, <2>3, <3>1, KnowMore DEF Knowing
  <2>5. Knowing'
    BY <1>a, <1>f, <2>1, <2>4 DEF Knowing, ProducerKnows, ConsumerKnows, cells
  <2>6. Locals'
    BY <1>a, <1>b, <1>f, <2>1 DEF Locals, PushPCs, PopPCs, cells
  <2> QED BY <1>1, <2>2, <2>5, <2>6 DEF Ordered
<1>4. CASE DropProducer(th)
  <2>1. UNCHANGED <<cons, consumer_taken, view>> /\ prod' = prod \ {th} /\ th \in prod
        /\ producer_taken' = [taken |-> FALSE, view |-> view[th]]
    BY <1>4 DEF DropProducer, Released
  <2>2. Handled'
    BY <1>a, <1>b, <1>f, <2>1 DEF Handled, PushPCs, PopPCs
  <2>3. Knowing'
    BY <1>a, <1>f, <2>1 DEF Knowing, ProducerKnows, ConsumerKnows, cells
  <2>4. Locals'
    BY <1>a, <1>f, <2>1 DEF Locals, cells
  <2> QED BY <1>1, <2>2, <2>3, <2>4 DEF Ordered
<1>5. CASE DropConsumer(th)
  <2>1. UNCHANGED <<prod, producer_taken, view>> /\ cons' = cons \ {th} /\ th \in cons
        /\ consumer_taken' = [taken |-> FALSE, view |-> view[th]]
    BY <1>5 DEF DropConsumer, Released
  <2>2. Handled'
    BY <1>a, <1>b, <1>f, <2>1 DEF Handled, PushPCs, PopPCs
  <2>3. Knowing'
    BY <1>a, <1>f, <2>1 DEF Knowing, ProducerKnows, ConsumerKnows, cells
  <2>4. Locals'
    BY <1>a, <1>f, <2>1 DEF Locals, cells
  <2> QED BY <1>1, <2>2, <2>3, <2>4 DEF Ordered
<1> QED BY <1>2, <1>3, <1>4, <1>5 DEF Handles

\* The steps of a call that has not moved a cursor: only the caller's own
\* knowledge and locals are at stake.
LEMMA QuietOrdered ==
    ASSUME Typed, Typed', Ordered, NEW th \in Threads,
           UNCHANGED <<head, tail, written, flags, history>>,
           Covers(view'[th], view[th]),
           \A u \in Threads \ {th} :
              /\ view'[u] = view[u] /\ pc'[u] = pc[u] /\ lhead'[u] = lhead[u]
              /\ ltail'[u] = ltail[u] /\ lval'[u] = lval[u],
           pc'[th] \in PushPCs => th \in prod,
           pc'[th] \in PopPCs => th \in cons,
           pc'[th] \in PushPCs => lhead'[th] = Cursor(Len(head)) /\ lval'[th] \in Val,
           pc'[th] \in {"push_write", "push_store"} =>
              /\ Len(head) - view'[th].tail < N
              /\ view'[th].rd >= view'[th].tail - 1,
           pc'[th] # "push_store",
           pc'[th] \in PopPCs \ {"pop_tail", "peek_tail"} =>
              ltail'[th] = Cursor(Len(tail)),
           pc'[th] \in {"pop_read", "pop_store", "peek_read"} =>
              view'[th].head > Len(tail) /\ view'[th].wr >= Len(tail),
           pc'[th] = "pop_store" => view'[th].rd >= Len(tail)
    PROVE  Ordered'
<1>1. Cursors'
  BY DEF Ordered, Cursors, history
<1>2. Handled'
  BY DEF Ordered, Handled, flags
<1>3. Knowing'
  <2>1. \A u \in Threads : view[u] \in View
    BY DEF Typed, TypeOK
  <2>2. \A u \in Threads : Covers(view'[u], view[u])
    BY <2>1 DEF Covers, View
  <2> QED BY <2>2, KnowingKept DEF Ordered
<1>4. Locals'
  BY DEF Ordered, Locals
<1> QED BY <1>1, <1>2, <1>3, <1>4 DEF Ordered

\* The loads of len, by whichever thread, keep it.
LEMMA LenOrdered ==
    ASSUME Typed, Typed', Ordered, NEW th \in Threads, LenCall(th)
    PROVE  Ordered'
<1>a. /\ pc \in [Threads -> PCs] /\ view \in [Threads -> View]
      /\ lhead \in [Threads -> 0 .. Modulus - 1] /\ ltail \in [Threads -> 0 .. Modulus - 1]
      /\ Len(head) \in Nat /\ Len(tail) \in Nat
  <2>1. TypeOK
    BY DEF Typed
  <2> QED BY <2>1 DEF TypeOK
<1>b. /\ Within(view[th], Len(head), Len(tail))
      /\ \A i \in 1 .. Len(head) : Within(head[i].view, Len(head), Len(tail))
      /\ \A i \in 1 .. Len(tail) : Within(tail[i].view, Len(head), Len(tail))
  BY DEF Typed, ViewsWithin
<1>c. view[th] \in View /\ view[th].head \in 1 .. Len(head) /\ view[th].tail \in 1 .. Len(tail)
  BY <1>b DEF Within
<1>1. /\ UNCHANGED <<head, tail, written, flags, history, lval>>
      /\ pc'[th] \in {"len_head", "len_fence", "len_ret", "len_tail", "idle"}
      /\ \A u \in Threads \ {th} : pc'[u] = pc[u] /\ lhead'[u] = lhead[u] /\ ltail'[u] = ltail[u]
  BY <1>a DEF LenCall, LenTail1, LenHead, LenTail2, LenReturn, Goto, cells
<1>2. /\ Covers(view'[th], view[th])
      /\ \A u \in Threads \ {th} : view'[u] = view[u]
  <2>1. CASE LenTail1(th)
    <3>1. PICK i \in view[th].tail .. Len(tail) :
              view' = [view EXCEPT ![th] = AcquireTail(view[th], i, tail[i].view)]
      BY <2>1 DEF LenTail1
    <3>2. i \in 1 .. Len(tail) /\ i \in Nat /\ i >= view[th].tail
      BY <1>a, <1>c
    <3>3. tail[i].view \in View
      BY <1>b, <3>2 DEF Within
    <3>4. Covers(AcquireTail(view[th], i, tail[i].view), view[th])
      BY <1>c, <3>2, <3>3, AcquireFacts
    <3> QED BY <1>a, <3>1, <3>4
  <2>2. CASE LenHead(th)
    <3>1. PICK i \in view[th].head .. Len(head) : view' = [view EXCEPT ![th] = SawHead(view[th], i)]
      BY <2>2 DEF LenHead
    <3>2. i \in Nat /\ i >= view[th].head
      BY <1>a, <1>c
    <3>3. Covers(SawHead(view[th], i), view[th])
      BY <1>c, <3>2, SawFacts
    <3> QED BY <1>a, <3>1, <3>3
  <2>3. CASE LenTail2(th)
    <3> DEFINE f == Fence(view[th])
    <3>1. PICK i \in f.tail .. Len(tail) : view' = [view EXCEPT ![th] = SawTail(f, i)]
      BY <2>3 DEF LenTail2
    <3>2. f \in View /\ Covers(f, view[th])
      BY <1>b, <1>c, JoinFacts DEF Fence, Within
    <3> HIDE DEF f
    <3>3. i \in Nat /\ i >= f.tail
      BY <1>a, <3>2 DEF View
    <3>4. Covers(SawTail(f, i), f) /\ SawTail(f, i) \in View
      BY <3>2, <3>3, SawFacts
    <3> QED BY <1>a, <1>c, <3>1, <3>2, <3>4, SMTT(30) DEF Covers, View
  <2>4. CASE LenReturn(th)
    BY <2>4, <1>c DEF LenReturn, Covers, View
  <2> QED BY <2>1, <2>2, <2>3, <2>4 DEF LenCall
<1> QED BY <1>1, <1>2, QuietOrdered DEF PushPCs, PopPCs

\* The difference of two cursor values less than a wrap apart is the distance of
\* the stores they come from.
LEMMA CursorSpan ==
    ASSUME NEW h \in Nat, NEW t \in Nat, t <= h, h - t < Modulus
    PROVE  wrapping_sub(Cursor(h), Cursor(t)) = h - t
<1>1. Start + h - 1 \in Int /\ Start + t - 1 \in Int
      /\ (Start + h - 1) - (Start + t - 1) = h - t /\ Modulus \in Nat \ {0}
  BY StartAssumption, ModulusAssumption, CapacityAssumption
<1>2. PICK a \in Int : a = Start + h - 1
  BY <1>1
<1>3. PICK b \in Int : b = Start + t - 1
  BY <1>1
<1>4. ((a % Modulus) - (b % Modulus)) % Modulus = a - b
  BY <1>1, <1>2, <1>3, ModDiff
<1> QED BY <1>1, <1>2, <1>3, <1>4 DEF wrapping_sub, Cursor

\* The distance push computes is the number of events it may not overwrite.
LEMMA CursorDistance ==
    ASSUME NEW h \in Nat, NEW t \in Nat, t <= h, h - t <= N
    PROVE  wrapping_sub(Cursor(h), Cursor(t)) = h - t
BY CursorSpan, ModulusAssumption, CapacityAssumption

\* The steps of push keep it.
LEMMA PushOrdered ==
    ASSUME Typed, Typed', Ordered, NEW th \in Threads, Push(th)
    PROVE  Ordered'
<1> DEFINE H == Len(head)
           T == Len(tail)
<1>a. Cursors /\ Handled /\ Knowing /\ Locals
  BY DEF Ordered
<1>b. /\ pc \in [Threads -> PCs] /\ view \in [Threads -> View]
      /\ lhead \in [Threads -> 0 .. Modulus - 1] /\ ltail \in [Threads -> 0 .. Modulus - 1]
      /\ lval \in [Threads -> Val \cup {Uninit}]
      /\ H \in Nat /\ T \in Nat
  <2>1. TypeOK
    BY DEF Typed
  <2> QED BY <2>1 DEF TypeOK
<1>n. N \in Nat \ {0}
  BY CapacityAssumption
<1>c. /\ \A i \in 1 .. H : head[i].view \in View
      /\ \A i \in 1 .. T : tail[i].view \in View
  BY DEF Typed, ViewsWithin, Within
<1>d. view[th] \in View /\ view[th].head \in 1 .. H /\ view[th].tail \in 1 .. T
  BY DEF Typed, ViewsWithin, Within
<1>e. th \in prod /\ ProducerKnows(view[th])
  <2>1. th \in prod
    BY <1>a DEF Push, PushLoadHead, PushLoadTail, PushWrite, PushStore, Handled, PushPCs
  <2> QED BY <2>1, <1>a DEF Knowing
<1>1. CASE PushLoadHead(th)
  <2>1. PICK v \in Val, i \in view[th].head .. H :
            /\ lval' = [lval EXCEPT ![th] = v]
            /\ lhead' = [lhead EXCEPT ![th] = head[i].val]
            /\ view' = [view EXCEPT ![th] = SawHead(view[th], i)]
            /\ pc' = [pc EXCEPT ![th] = "push_tail"]
    BY <1>1 DEF PushLoadHead, Goto
  <2>2. i = H /\ i \in 1 .. H
    BY <1>b, <1>d, <1>e DEF ProducerKnows
  <2>3. Covers(SawHead(view[th], i), view[th])
    BY <1>d, <2>2, SawFacts
  <2>4. head[H].val = Cursor(H)
    BY <1>a, <2>2 DEF Cursors
  <2>5. UNCHANGED <<head, tail, written, flags, history, ltail>>
    BY <1>1 DEF PushLoadHead, cells
  <2> QED BY <1>b, <1>e, <2>1, <2>2, <2>3, <2>4, <2>5, QuietOrdered DEF PushPCs, PopPCs
<1>2. CASE PushLoadTail(th)
  <2>1. PICK i \in view[th].tail .. T :
            /\ view' = [view EXCEPT ![th] = AcquireTail(view[th], i, tail[i].view)]
            /\ \/ /\ lval' = [lval EXCEPT ![th] = Uninit]
                  /\ lhead' = [lhead EXCEPT ![th] = 0]
                  /\ pc' = [pc EXCEPT ![th] = "idle"]
               \/ /\ ~Full(lhead[th], tail[i].val)
                  /\ pc' = [pc EXCEPT ![th] = "push_write"]
                  /\ UNCHANGED <<lval, lhead>>
    BY <1>2 DEF PushLoadTail, Goto
  <2>2. i \in 1 .. T /\ i \in Nat /\ i >= view[th].tail
    BY <1>b, <1>d
  <2>3. tail[i].view \in View /\ tail[i].view.tail = i /\ tail[i].view.rd >= i - 1
        /\ tail[i].val = Cursor(i)
    BY <1>a, <1>c, <2>2 DEF Cursors
  <2> DEFINE v == AcquireTail(view[th], i, tail[i].view)
  <2>4. Covers(v, view[th]) /\ v.tail = i /\ v.rd >= i - 1
    <3>1. v.rd \in Int
      BY <1>b, <2>1, <1>d DEF Typed, TypeOK, View
    <3>2. Covers(v, view[th]) /\ v.tail = i /\ v.rd >= tail[i].view.rd
      BY <1>d, <2>2, <2>3, AcquireFacts
    <3>3. tail[i].view.rd \in Int
      BY <2>3 DEF View
    <3> HIDE DEF v
    <3> QED BY <2>2, <2>3, <3>1, <3>2, <3>3
  <2>5. lhead[th] = Cursor(H) /\ lval[th] \in Val
    <3>1. pc[th] = "push_tail"
      BY <1>2 DEF PushLoadTail
    <3> QED BY <1>a, <3>1 DEF Locals, PushPCs
  <2>6. Full(lhead[th], tail[i].val) <=> H - i >= N
    <3>1. i <= H /\ H - i <= N
      BY <1>a, <1>b, <1>d, <1>e, <1>n, <2>2 DEF Cursors, ProducerKnows
    <3> QED BY <1>b, <1>n, <2>2, <2>3, <2>5, <3>1, CursorDistance, SMTT(30) DEF Full
  <2>7. UNCHANGED <<head, tail, written, flags, history, ltail>>
    BY <1>2 DEF PushLoadTail, cells
  <2>8. view'[th] = v /\ \A u \in Threads \ {th} : view'[u] = view[u]
    BY <1>b, <2>1
  <2> HIDE DEF v
  <2>9. CASE pc' = [pc EXCEPT ![th] = "idle"] /\ lval' = [lval EXCEPT ![th] = Uninit]
             /\ lhead' = [lhead EXCEPT ![th] = 0]
    BY <1>b, <2>4, <2>7, <2>8, <2>9, QuietOrdered DEF PushPCs, PopPCs
  <2>10. CASE ~Full(lhead[th], tail[i].val) /\ pc' = [pc EXCEPT ![th] = "push_write"]
              /\ UNCHANGED <<lval, lhead>>
    <3>1. H - v.tail < N /\ v.rd >= v.tail - 1
      BY <1>b, <1>n, <2>2, <2>4, <2>6, <2>10
    <3> QED BY <1>b, <1>e, <2>4, <2>5, <2>7, <2>8, <2>10, <3>1, QuietOrdered
            DEF PushPCs, PopPCs
  <2> QED BY <2>1, <2>9, <2>10
<1>3. CASE PushWrite(th)
  <2>1. /\ pc[th] = "push_write" /\ pc' = [pc EXCEPT ![th] = "push_store"]
        /\ written' = [written EXCEPT ![slot_index(lhead[th])] = view[th].head]
        /\ view' = [view EXCEPT ![th].wr = view[th].head]
        /\ UNCHANGED <<head, tail, flags, lhead, ltail, lval, history>>
    BY <1>3 DEF PushWrite, Goto
  <2>2. view'[th] = [view[th] EXCEPT !.wr = H] /\ \A u \in Threads \ {th} : view'[u] = view[u]
    BY <1>b, <1>e, <2>1 DEF ProducerKnows
  <2>3. view'[th].head = view[th].head /\ view'[th].tail = view[th].tail
        /\ view'[th].rd = view[th].rd /\ view'[th].wr = H
    BY <1>d, <2>2 DEF View
  <2>4. \A s \in 0 .. N - 1 : written'[s] <= H
    BY <1>a, <1>b, <1>e, <2>1 DEF Locals, ProducerKnows, Typed, TypeOK
  <2>5. Cursors'
    BY <1>a, <2>1 DEF Cursors, history
  <2>6. Handled'
    BY <1>a, <1>b, <1>e, <2>1 DEF Handled, flags, PushPCs, PopPCs
  <2>7. Knowing'
    <3>1. \A u \in Threads : u \in prod => u = th
      BY <1>a, <1>e DEF Handled
    <3>2. producer_taken.taken
      BY <1>a, <1>e DEF Handled
    <3> QED BY <1>a, <1>e, <2>1, <2>2, <2>3, <2>4, <3>1, <3>2
            DEF Knowing, ProducerKnows, ConsumerKnows, flags
  <2>8. Locals'
    BY <1>a, <1>b, <2>1, <2>2, <2>3, <2>4 DEF Locals, PushPCs, PopPCs
  <2> QED BY <2>5, <2>6, <2>7, <2>8 DEF Ordered
<1>4. CASE PushStore(th)
  <2> DEFINE new == SawHead(view[th], H + 1)
             store == [val |-> wrapping_add(lhead[th], 1), view |-> new]
  <2>1. /\ pc[th] = "push_store" /\ pc' = [pc EXCEPT ![th] = "idle"]
        /\ head' = Append(head, store)
        /\ view' = [view EXCEPT ![th] = new]
        /\ accepted' = Append(accepted, lval[th])
        /\ lval' = [lval EXCEPT ![th] = Uninit]
        /\ lhead' = [lhead EXCEPT ![th] = 0]
        /\ UNCHANGED <<tail, written, flags, ltail, popped>>
    BY <1>4 DEF PushStore, Goto, cells
  <2>2. Len(head') = H + 1 /\ head'[H + 1] = store /\ \A i \in 1 .. H : head'[i] = head[i]
    <3>1. head \in Seq(Stores)
      BY DEF Typed, TypeOK
    <3> QED BY <2>1, <3>1
  <2>3. Len(accepted') = Len(accepted) + 1
    <3>1. accepted \in Seq(Val \cup {Uninit})
      BY DEF Typed, TypeOK
    <3> QED BY <2>1, <3>1
  <2>4. new.head = H + 1 /\ new.tail = view[th].tail /\ new.wr = view[th].wr /\ new.wr >= H
    <3>1. view[th].wr >= H
      BY <1>a, <2>1 DEF Locals
    <3>2. H + 1 \in Nat
      BY <1>b
    <3> QED BY <1>d, <3>1, <3>2, SawFacts
  <2>5. store.val = Cursor(H + 1) /\ store.view = new
    <3>1. lhead[th] = Cursor(H)
      BY <1>a, <2>1 DEF Locals, PushPCs
    <3>2. PICK a \in Int : a = Start + H - 1
      <4>1. Start \in Int /\ H \in Int
        BY <1>b, StartAssumption
      <4>2. Start + H - 1 \in Int
        BY <4>1
      <4> QED BY <4>2
    <3>3. ((a % Modulus) + 1) % Modulus = (a + 1) % Modulus
      BY ModSucc, ModulusAssumption, CapacityAssumption
    <3>4. a + 1 = Start + (H + 1) - 1
      BY <1>b, <3>2, StartAssumption
    <3> QED BY <3>1, <3>2, <3>3, <3>4 DEF wrapping_add, Cursor
  <2>6. H - view[th].tail < N
    BY <1>a, <2>1 DEF Locals
  <2> HIDE DEF new, store
  <2>7. Cursors'
    <3>1. \A i \in 1 .. H + 1 : i = H + 1 \/ i \in 1 .. H
      BY <1>b
    <3>2. \A i \in 1 .. H + 1 : /\ head'[i].val = Cursor(i)
                                /\ head'[i].view.head = i
                                /\ head'[i].view.wr >= i - 1
      <4>1. \A i \in 1 .. H : /\ head'[i].val = Cursor(i)
                              /\ head'[i].view.head = i
                              /\ head'[i].view.wr >= i - 1
        BY <1>a, <2>2 DEF Cursors
      <4>2. (H + 1) - 1 = H
        BY <1>b
      <4> QED BY <2>2, <2>4, <2>5, <3>1, <4>1, <4>2
    <3>3. T <= H + 1 /\ H + 1 - T <= N
      BY <1>a, <1>b, <1>d, <1>n, <2>6, SMTT(30) DEF Cursors
    <3> QED BY <1>a, <1>b, <2>1, <2>2, <2>3, <3>2, <3>3 DEF Cursors
  <2>8. Handled'
    BY <1>a, <1>b, <1>e, <2>1 DEF Handled, flags, PushPCs, PopPCs
  <2>9. view'[th] = new /\ \A u \in Threads \ {th} : view'[u] = view[u]
    BY <1>b, <2>1
  <2>10. \A u \in Threads : u \in prod => u = th
    BY <1>a, <1>e DEF Handled
  <2>11. Knowing'
    <3>1. producer_taken.taken
      BY <1>a, <1>e DEF Handled
    <3>2. new.tail >= (H + 1) - N
      BY <1>b, <1>d, <1>n, <2>4, <2>6
    <3>3. \A s \in 0 .. N - 1 : written[s] <= new.wr
      BY <1>e, <2>4 DEF ProducerKnows
    <3>4. th \in cons => new.head >= T /\ new.tail = T
      BY <1>a, <1>b, <2>4 DEF Knowing, ConsumerKnows, Cursors
    <3> QED BY <1>a, <1>e, <2>1, <2>2, <2>4, <2>9, <2>10, <3>1, <3>2, <3>3, <3>4
            DEF Knowing, ProducerKnows, ConsumerKnows, flags
  <2>12. Locals'
    <3>1. \A s \in 0 .. N - 1 : written[s] <= H + 1
      <4>1. \A s \in 0 .. N - 1 : written[s] \in Nat
        BY DEF Typed, TypeOK
      <4>2. \A s \in 0 .. N - 1 : written[s] <= H
        BY <1>a DEF Locals
      <4> QED BY <1>b, <4>1, <4>2
    <3>2. \A u \in Threads \ {th} : pc'[u] = pc[u] /\ pc[u] \notin PushPCs
              /\ ltail'[u] = ltail[u] /\ lval'[u] = lval[u]
      BY <1>a, <1>b, <2>1, <2>10 DEF Handled
    <3>3. pc'[th] = "idle"
      BY <1>b, <2>1
    <3> QED BY <1>a, <2>1, <2>2, <2>9, <3>1, <3>2, <3>3 DEF Locals, PushPCs, PopPCs
  <2> QED BY <2>7, <2>8, <2>11, <2>12 DEF Ordered
<1> QED BY <1>1, <1>2, <1>3, <1>4 DEF Push

\* The steps of pop, drain and peek keep it.
LEMMA PopOrdered ==
    ASSUME Typed, Typed', Ordered, NEW th \in Threads, Pops(th) \/ Peek(th)
    PROVE  Ordered'
<1> DEFINE H == Len(head)
           T == Len(tail)
<1>a. Cursors /\ Handled /\ Knowing /\ Locals
  BY DEF Ordered
<1>b. /\ pc \in [Threads -> PCs] /\ view \in [Threads -> View]
      /\ lhead \in [Threads -> 0 .. Modulus - 1] /\ ltail \in [Threads -> 0 .. Modulus - 1]
      /\ lval \in [Threads -> Val \cup {Uninit}]
      /\ H \in Nat /\ T \in Nat
  <2>1. TypeOK
    BY DEF Typed
  <2> QED BY <2>1 DEF TypeOK
<1>n. N \in Nat \ {0}
  BY CapacityAssumption
<1>c. \A i \in 1 .. H : head[i].view \in View
  BY DEF Typed, ViewsWithin, Within
<1>d. view[th] \in View /\ view[th].head \in 1 .. H /\ view[th].tail \in 1 .. T
  BY DEF Typed, ViewsWithin, Within
<1>e. th \in cons /\ ConsumerKnows(view[th])
  <2>1. th \in cons
    BY <1>a DEF Pops, Peek, StartPops, StartPeek, PopLoadTail, PeekLoadTail, LoadOwnTail,
                PopLoadHead, PeekLoadHead, LoadHead, LoadHeadAt, PopRead, PeekRead,
                PopStore, Handled, PopPCs
  <2> QED BY <2>1, <1>a DEF Knowing
<1>1. CASE StartPops(th) \/ StartPeek(th)
  <2>1. /\ UNCHANGED <<head, tail, written, flags, history, view, lhead, ltail, lval>>
        /\ \E l \in {"pop_tail", "peek_tail"} : pc' = [pc EXCEPT ![th] = l]
    BY <1>1 DEF StartPops, StartPeek, Goto, cells
  <2>2. Covers(view[th], view[th])
    BY <1>d DEF Covers, View
  <2> QED BY <1>b, <1>e, <2>1, <2>2, QuietOrdered DEF PushPCs, PopPCs
<1>2. CASE PopLoadTail(th) \/ PeekLoadTail(th)
  <2>1. PICK i \in view[th].tail .. T, l \in {"pop_head", "peek_head"} :
            /\ ltail' = [ltail EXCEPT ![th] = tail[i].val]
            /\ view' = [view EXCEPT ![th] = SawTail(view[th], i)]
            /\ pc' = [pc EXCEPT ![th] = l]
            /\ UNCHANGED <<head, tail, written, flags, history, lhead, lval>>
    BY <1>2 DEF PopLoadTail, PeekLoadTail, LoadOwnTail, Goto, cells
  <2>2. i = T /\ i \in 1 .. T
    BY <1>b, <1>d, <1>e DEF ConsumerKnows
  <2>3. Covers(SawTail(view[th], i), view[th])
    BY <1>d, <2>2, SawFacts
  <2>4. tail[T].val = Cursor(T)
    BY <1>a, <2>2 DEF Cursors
  <2> QED BY <1>b, <1>e, <2>1, <2>2, <2>3, <2>4, QuietOrdered DEF PushPCs, PopPCs
<1>3. CASE PopLoadHead(th) \/ PeekLoadHead(th)
  <2>1. PICK i \in view[th].head .. H, l \in {"pop_read", "peek_read"} :
            /\ pc[th] \in {"pop_head", "peek_head"}
            /\ view' = [view EXCEPT ![th] = AcquireHead(view[th], i, head[i].view)]
            /\ \/ /\ ltail' = [ltail EXCEPT ![th] = 0]
                  /\ pc' = [pc EXCEPT ![th] = "idle"]
               \/ /\ head[i].val # ltail[th]
                  /\ pc' = [pc EXCEPT ![th] = l]
                  /\ UNCHANGED ltail
            /\ UNCHANGED <<head, tail, written, flags, history, lhead, lval>>
    BY <1>3 DEF PopLoadHead, PeekLoadHead, LoadHead, LoadHeadAt, Goto, cells
  <2>2. i \in 1 .. H /\ i \in Nat /\ i >= view[th].head /\ i >= T
    BY <1>b, <1>d, <1>e DEF ConsumerKnows
  <2>3. head[i].view \in View /\ head[i].view.head = i /\ head[i].view.wr >= i - 1
        /\ head[i].val = Cursor(i)
    BY <1>a, <1>c, <2>2 DEF Cursors
  <2> DEFINE v == AcquireHead(view[th], i, head[i].view)
  <2>4. Covers(v, view[th]) /\ v.head = i /\ v.wr >= i - 1
    <3>1. v.wr \in Int
      BY <1>b, <2>1, <1>d DEF Typed, TypeOK, View
    <3>2. Covers(v, view[th]) /\ v.head = i /\ v.wr >= head[i].view.wr
      BY <1>d, <2>2, <2>3, AcquireFacts
    <3>3. head[i].view.wr \in Int
      BY <2>3 DEF View
    <3> HIDE DEF v
    <3> QED BY <2>2, <2>3, <3>1, <3>2, <3>3
  <2>5. ltail[th] = Cursor(T)
    BY <1>a, <2>1 DEF Locals, PopPCs
  <2>6. view'[th] = v /\ \A u \in Threads \ {th} : view'[u] = view[u]
    BY <1>b, <2>1
  <2>w. v.wr \in Int
    BY <1>b, <2>6 DEF Typed, TypeOK, View
  <2> HIDE DEF v
  <2>7. CASE pc' = [pc EXCEPT ![th] = "idle"] /\ ltail' = [ltail EXCEPT ![th] = 0]
    BY <1>b, <2>1, <2>4, <2>6, <2>7, QuietOrdered DEF PushPCs, PopPCs
  <2>8. CASE head[i].val # ltail[th] /\ pc' = [pc EXCEPT ![th] = l] /\ UNCHANGED ltail
    <3>1. i # T
      BY <2>3, <2>5, <2>8
    <3>2. v.head > T /\ v.wr >= T
      BY <1>b, <2>2, <2>4, <2>w, <3>1
    <3> QED BY <1>b, <1>e, <2>1, <2>4, <2>5, <2>6, <2>8, <3>2, QuietOrdered
            DEF PushPCs, PopPCs
  <2> QED BY <2>1, <2>7, <2>8
<1>4. CASE PopRead(th) \/ PeekRead(th)
  <2>1. /\ pc[th] \in {"pop_read", "peek_read"}
        /\ view' = [view EXCEPT ![th].rd = view[th].tail]
        /\ \/ /\ pc' = [pc EXCEPT ![th] = "pop_store"] /\ UNCHANGED ltail
              /\ \E x : lval' = [lval EXCEPT ![th] = x]
           \/ /\ pc' = [pc EXCEPT ![th] = "idle"]
              /\ ltail' = [ltail EXCEPT ![th] = 0] /\ UNCHANGED lval
        /\ UNCHANGED <<head, tail, written, flags, history, lhead>>
    BY <1>4 DEF PopRead, PeekRead, StampRead, Goto
  <2>2. view'[th] = [view[th] EXCEPT !.rd = T] /\ \A u \in Threads \ {th} : view'[u] = view[u]
    BY <1>b, <1>e, <2>1 DEF ConsumerKnows
  <2>3. view'[th].head = view[th].head /\ view'[th].tail = view[th].tail
        /\ view'[th].wr = view[th].wr /\ view'[th].rd = T
    BY <1>d, <2>2 DEF View
  <2>4. Covers(view'[th], view[th])
    BY <1>d, <2>3 DEF Covers, View
  <2>5. ltail[th] = Cursor(T) /\ view[th].head > T /\ view[th].wr >= T
    BY <1>a, <2>1 DEF Locals, PopPCs
  <2>6. T >= T
    BY <1>b
  <2>7. /\ pc'[th] \in {"pop_store", "idle"}
        /\ pc'[th] = "pop_store" => ltail'[th] = ltail[th]
        /\ \A u \in Threads \ {th} : pc'[u] = pc[u] /\ lval'[u] = lval[u] /\ ltail'[u] = ltail[u]
    BY <1>b, <2>1
  <2>8. UNCHANGED <<head, tail, written, flags, history, lhead>>
    BY <2>1
  <2>9. CASE pc'[th] = "idle"
    BY <2>2, <2>4, <2>7, <2>8, <2>9, QuietOrdered DEF PushPCs, PopPCs
  <2>10. CASE pc'[th] = "pop_store"
    <3>1. ltail'[th] = Cursor(T) /\ view'[th].head > T /\ view'[th].wr >= T /\ view'[th].rd >= T
      BY <2>3, <2>5, <2>6, <2>7, <2>10
    <3> QED BY <1>e, <2>2, <2>4, <2>7, <2>8, <2>10, <3>1, QuietOrdered DEF PushPCs, PopPCs
  <2> QED BY <2>7, <2>9, <2>10
<1>5. CASE PopStore(th)
  <2> DEFINE new == SawTail(view[th], T + 1)
             store == [val |-> wrapping_add(ltail[th], 1), view |-> new]
  <2>1. /\ pc[th] = "pop_store"
        /\ \E l \in {"pop_tail", "idle"} : pc' = [pc EXCEPT ![th] = l]
        /\ tail' = Append(tail, store)
        /\ view' = [view EXCEPT ![th] = new]
        /\ popped' = Append(popped, lval[th])
        /\ lval' = [lval EXCEPT ![th] = Uninit]
        /\ ltail' = [ltail EXCEPT ![th] = 0]
        /\ UNCHANGED <<head, written, flags, lhead, accepted>>
    BY <1>5 DEF PopStore, Goto, cells
  <2>2. Len(tail') = T + 1 /\ tail'[T + 1] = store /\ \A i \in 1 .. T : tail'[i] = tail[i]
    <3>1. tail \in Seq(Stores)
      BY DEF Typed, TypeOK
    <3> QED BY <2>1, <3>1
  <2>3. Len(popped') = Len(popped) + 1
    <3>1. popped \in Seq(Val \cup {Uninit})
      BY DEF Typed, TypeOK
    <3> QED BY <2>1, <3>1
  <2>4. new.tail = T + 1 /\ new.head = view[th].head /\ new.wr = view[th].wr
        /\ new.rd >= T /\ new.head > T
    <3>1. view[th].rd >= T /\ view[th].head > T
      BY <1>a, <2>1 DEF Locals
    <3>2. T + 1 \in Nat
      BY <1>b
    <3> QED BY <1>d, <3>1, <3>2, SawFacts
  <2>5. store.val = Cursor(T + 1) /\ store.view = new
    <3>1. ltail[th] = Cursor(T)
      BY <1>a, <2>1 DEF Locals, PopPCs
    <3>2. PICK a \in Int : a = Start + T - 1
      <4>1. Start \in Int /\ T \in Int
        BY <1>b, StartAssumption
      <4>2. Start + T - 1 \in Int
        BY <4>1
      <4> QED BY <4>2
    <3>3. ((a % Modulus) + 1) % Modulus = (a + 1) % Modulus
      BY ModSucc, ModulusAssumption, CapacityAssumption
    <3>4. a + 1 = Start + (T + 1) - 1
      BY <1>b, <3>2, StartAssumption
    <3> QED BY <3>1, <3>2, <3>3, <3>4 DEF wrapping_add, Cursor
  <2>6. T + 1 <= H /\ H - T <= N
    BY <1>a, <1>b, <1>d, <2>4 DEF Cursors
  <2> HIDE DEF new, store
  <2>7. Cursors'
    <3>1. \A i \in 1 .. T + 1 : i = T + 1 \/ i \in 1 .. T
      BY <1>b
    <3>2. \A i \in 1 .. T + 1 : /\ tail'[i].val = Cursor(i)
                                /\ tail'[i].view.tail = i
                                /\ tail'[i].view.rd >= i - 1
      <4>1. \A i \in 1 .. T : /\ tail'[i].val = Cursor(i)
                              /\ tail'[i].view.tail = i
                              /\ tail'[i].view.rd >= i - 1
        BY <1>a, <2>2 DEF Cursors
      <4>2. (T + 1) - 1 = T
        BY <1>b
      <4> QED BY <2>2, <2>4, <2>5, <3>1, <4>1, <4>2
    <3>3. H - (T + 1) <= N
      BY <1>b, <1>n, <2>6
    <3> QED BY <1>a, <1>b, <2>1, <2>2, <2>3, <2>6, <3>2, <3>3 DEF Cursors
  <2>8. Handled'
    BY <1>a, <1>b, <1>e, <2>1 DEF Handled, flags, PushPCs, PopPCs
  <2>9. view'[th] = new /\ \A u \in Threads \ {th} : view'[u] = view[u]
    BY <1>b, <2>1
  <2>10. \A u \in Threads : u \in cons => u = th
    BY <1>a, <1>e DEF Handled
  <2>11. Knowing'
    <3>1. consumer_taken.taken
      BY <1>a, <1>e DEF Handled
    <3>2. new.head >= T + 1
      BY <1>b, <1>d, <2>4
    <3>3. th \in prod => new.head = H /\ new.tail >= H - N /\ \A s \in 0 .. N - 1 : written[s] <= new.wr
      BY <1>a, <1>b, <1>n, <2>4, <2>6 DEF Knowing, ProducerKnows
    <3> QED BY <1>a, <1>e, <2>1, <2>2, <2>4, <2>9, <2>10, <3>1, <3>2, <3>3
            DEF Knowing, ProducerKnows, ConsumerKnows, flags
  <2>12. Locals'
    <3>1. \A u \in Threads \ {th} : pc'[u] = pc[u] /\ pc[u] \notin PopPCs
              /\ lhead'[u] = lhead[u] /\ lval'[u] = lval[u]
      BY <1>a, <1>b, <2>1, <2>10 DEF Handled
    <3>2. pc'[th] \in {"idle", "pop_tail"}
      BY <1>b, <2>1
    <3> QED BY <1>a, <2>1, <2>2, <2>9, <3>1, <3>2 DEF Locals, PushPCs, PopPCs
  <2> QED BY <2>7, <2>8, <2>11, <2>12 DEF Ordered
<1> QED BY <1>1, <1>2, <1>3, <1>4, <1>5 DEF Pops, Peek

\* So part 1 holds in every reachable state, whatever the capacity.
LEMMA AlwaysOrdered == Spec => [](Typed /\ Ordered)
<1>1. Typed /\ Ordered /\ [Next]_vars => (Typed /\ Ordered)'
  <2> SUFFICES ASSUME Typed, Ordered, [Next]_vars PROVE Typed' /\ Ordered'
    OBVIOUS
  <2>1. Typed'
    BY NextTyped
  <2>2. CASE UNCHANGED vars
    BY <2>1, <2>2 DEF vars, Ordered, Cursors, Handled, Knowing, Locals, ProducerKnows,
                ConsumerKnows, cells, flags, observe, history
  <2>3. ASSUME NEW th \in Threads,
               Handles(th) \/ Push(th) \/ Pops(th) \/ Peek(th) \/ LenCall(th)
        PROVE  Ordered'
    BY <2>1, <2>3, HandlesOrdered, PushOrdered, PopOrdered, LenOrdered
  <2> QED BY <2>1, <2>2, <2>3 DEF Next
<1> QED BY InitTyped, InitOrdered, <1>1, PTL DEF Spec

-----------------------------------------------------------------------------
(* What the answers of push, pop and peek mean.                            *)

\* A step is one thread's, and changes no other thread's pc.
LEMMA OwnSteps ==
    ASSUME Typed, NEW th \in Threads, NEW u \in Threads, pc'[u] # pc[u],
           Handles(th) \/ Push(th) \/ Pops(th) \/ Peek(th) \/ LenCall(th)
    PROVE  u = th
<1>1. pc \in [Threads -> PCs]
  BY DEF Typed, TypeOK
<1>2. pc' = pc \/ \E l : pc' = [pc EXCEPT ![th] = l]
  BY DEF Handles, TryProducer, DropProducer, TryConsumer, DropConsumer, Push,
         PushLoadHead, PushLoadTail, PushWrite, PushStore, Pops, StartPops, PopLoadTail,
         PopLoadHead, PopRead, PopStore, Peek, StartPeek, PeekLoadTail, PeekLoadHead,
         PeekRead, LoadOwnTail, LoadHead, LoadHeadAt, LenCall, LenTail1, LenHead,
         LenTail2, LenReturn, Goto
<1> QED BY <1>1, <1>2

\* The steps that can answer Err, and those that can answer None.
LEMMA AnsweringSteps ==
    ASSUME Typed, NEW th \in Threads, pc'[th] = "idle",
           Handles(th) \/ Push(th) \/ Pops(th) \/ Peek(th) \/ LenCall(th)
    PROVE  /\ pc[th] = "push_tail" => PushLoadTail(th)
           /\ pc[th] \in {"pop_head", "peek_head"} => PopLoadHead(th) \/ PeekLoadHead(th)
<1> USE DEF Handles, TryProducer, DropProducer, TryConsumer, DropConsumer, Push,
            PushLoadHead, PushWrite, PushStore, Pops, StartPops, PopLoadTail, PopRead,
            PopStore, Peek, StartPeek, PeekLoadTail, PeekRead, LoadOwnTail, LenCall,
            LenTail1, LenHead, LenTail2, LenReturn
<1>1. pc[th] = "push_tail" => PushLoadTail(th)
  BY DEF PopLoadHead, PeekLoadHead, LoadHead, LoadHeadAt
<1>2. pc[th] \in {"pop_head", "peek_head"} => PopLoadHead(th) \/ PeekLoadHead(th)
  BY DEF PushLoadTail
<1> QED BY <1>1, <1>2

\* Err and None are justified by what the caller could see, for every capacity:
\* a rejected push saw a tail that left no room, an empty pop saw every event
\* popped, and a thread that holds both handles is told the exact truth.
THEOREM Answers == Spec => AnswersJustified
<1>1. Typed /\ Ordered /\ [Next]_vars => [AnswerStep]_vars
  <2> SUFFICES ASSUME Typed, Ordered, NEW th \in Threads,
                      Handles(th) \/ Push(th) \/ Pops(th) \/ Peek(th) \/ LenCall(th)
               PROVE  AnswerStep
    BY DEF Next
  <2> SUFFICES ASSUME pc'[th] = "idle",
                      pc[th] \in {"push_tail", "pop_head", "peek_head"}
               PROVE  AnswerStep
    BY OwnSteps DEF AnswerStep
  <2> DEFINE H == Len(head)
             T == Len(tail)
  <2>a. Cursors /\ Handled /\ Knowing /\ Locals
    BY DEF Ordered
  <2>b. /\ pc \in [Threads -> PCs] /\ view \in [Threads -> View]
        /\ H \in Nat /\ T \in Nat
    BY DEF Typed, TypeOK
  <2>n. N \in Nat \ {0}
    BY CapacityAssumption
  <2>c. /\ \A i \in 1 .. H : head[i].view \in View
        /\ \A i \in 1 .. T : tail[i].view \in View
    BY DEF Typed, ViewsWithin, Within
  <2>d. view[th] \in View /\ view[th].head \in 1 .. H /\ view[th].tail \in 1 .. T
    BY DEF Typed, ViewsWithin, Within
  <2>e. Len(accepted) = H - 1 /\ Len(popped) = T - 1 /\ T <= H /\ H - T <= N
    BY <2>a DEF Cursors
  <2>f. \A u \in Threads : pc'[u] # pc[u] => u = th
    BY OwnSteps
  <2>1. CASE pc[th] = "push_tail"
    <3>1. PushLoadTail(th)
      BY <2>1, AnsweringSteps
    <3>2. PICK i \in view[th].tail .. T :
              /\ view' = [view EXCEPT ![th] = AcquireTail(view[th], i, tail[i].view)]
              /\ Full(lhead[th], tail[i].val) \/ pc' = [pc EXCEPT ![th] = "push_write"]
      BY <3>1 DEF PushLoadTail, Goto
    <3>3. Full(lhead[th], tail[i].val)
      BY <2>b, <3>2
    <3>4. i \in 1 .. T /\ i \in Nat
      BY <2>b, <2>d
    <3>5. view'[th].tail = i
      <4>1. tail[i].view \in View /\ tail[i].view.tail = i
        BY <2>a, <2>c, <3>4 DEF Cursors
      <4> QED BY <2>b, <2>d, <3>2, <3>4, <4>1, AcquireFacts
    <3>6. th \in prod /\ lhead[th] = Cursor(H) /\ tail[i].val = Cursor(i)
      BY <2>a, <2>1, <3>4 DEF Handled, Locals, Cursors, PushPCs
    <3>7. i <= H /\ H - i <= N
      BY <2>a, <2>b, <2>d, <2>e, <2>n, <3>4, <3>6 DEF Knowing, ProducerKnows
    <3>8. H - i >= N
      BY <2>b, <2>n, <3>3, <3>4, <3>6, <3>7, CursorDistance DEF Full
    <3>9. th \in cons => i = T
      BY <2>a, <2>b, <2>d DEF Knowing, ConsumerKnows
    <3>10. th \in cons => Len(accepted) - Len(popped) = N
      BY <2>b, <2>e, <2>n, <3>7, <3>8, <3>9
    <3> QED BY <2>1, <2>f, <3>5, <3>8, <3>10 DEF AnswerStep
  <2>2. CASE pc[th] \in {"pop_head", "peek_head"}
    <3>1. PopLoadHead(th) \/ PeekLoadHead(th)
      BY <2>2, AnsweringSteps
    <3>2. PICK i \in view[th].head .. H, l \in {"pop_read", "peek_read"} :
              /\ view' = [view EXCEPT ![th] = AcquireHead(view[th], i, head[i].view)]
              /\ head[i].val = ltail[th] \/ pc' = [pc EXCEPT ![th] = l]
      BY <3>1 DEF PopLoadHead, PeekLoadHead, LoadHead, LoadHeadAt, Goto
    <3>3. head[i].val = ltail[th]
      BY <2>b, <3>2
    <3>4. i \in 1 .. H /\ i \in Nat
      BY <2>b, <2>d
    <3>5. view'[th].head = i
      <4>1. head[i].view \in View /\ head[i].view.head = i
        BY <2>a, <2>c, <3>4 DEF Cursors
      <4> QED BY <2>b, <2>d, <3>2, <3>4, <4>1, AcquireFacts
    <3>6. th \in cons /\ ltail[th] = Cursor(T) /\ head[i].val = Cursor(i)
      BY <2>a, <2>2, <3>4 DEF Handled, Locals, Cursors, PopPCs
    <3>7. T <= i /\ i - T <= N
      BY <2>a, <2>b, <2>d, <2>e, <2>n, <3>4, <3>6 DEF Knowing, ConsumerKnows
    <3>8. i = T
      <4>1. wrapping_sub(Cursor(i), Cursor(T)) = i - T
        BY <2>b, <3>4, <3>7, CursorDistance
      <4>2. wrapping_sub(Cursor(T), Cursor(T)) = T - T
        BY <2>b, <2>n, CursorDistance
      <4> QED BY <2>b, <3>3, <3>4, <3>6, <4>1, <4>2
    <3>9. th \in prod => H = T
      BY <2>a, <2>b, <2>d, <3>4, <3>8, <3>2 DEF Knowing, ProducerKnows
    <3> QED BY <2>2, <2>b, <2>e, <2>f, <3>5, <3>8, <3>9 DEF AnswerStep
  <2> QED BY <2>1, <2>2
<1> QED BY AlwaysOrdered, <1>1, PTL DEF Spec, AnswersJustified

-----------------------------------------------------------------------------
(* Part 2 is inductive, if the capacity divides the number of cursor       *)
(* values.                                                                 *)

\* The slot the code computes from a wrapped cursor is the event's slot.
LEMMA SlotOfCursor ==
    ASSUME Modulus % N = 0, NEW k \in Nat
    PROVE  slot_index(Cursor(k)) = Slot(k) /\ Slot(k) \in 0 .. N - 1
<1>1. Start + k - 1 \in Int /\ N \in Nat \ {0} /\ Modulus \in Nat \ {0}
  BY StartAssumption, CapacityAssumption, ModulusAssumption
<1>2. PICK a \in Int : a = Start + k - 1
  BY <1>1
<1>3. (a % Modulus) % N = a % N /\ a % N \in 0 .. N - 1
  BY <1>1, ModMod, ModRange
<1> QED BY <1>2, <1>3 DEF slot_index, Cursor, Slot

\* Events less than a capacity apart are in different slots.
LEMMA SlotsApart ==
    ASSUME NEW j \in Nat, NEW k \in Nat, j < k, Slot(j) = Slot(k)
    PROVE  k - j >= N
<1>1. Start \in Int /\ N \in Nat \ {0}
  BY StartAssumption, CapacityAssumption
<1>2. PICK a \in Int : a = Start + j - 1
  <2>1. Start + j - 1 \in Int
    BY <1>1
  <2> QED BY <2>1
<1>3. PICK b \in Int : b = Start + k - 1
  <2>1. Start + k - 1 \in Int
    BY <1>1
  <2> QED BY <2>1
<1>4. a < b /\ b - a = k - j
  BY <1>1, <1>2, <1>3
<1>5. a % N = b % N
  BY <1>2, <1>3 DEF Slot
<1>6. b - a >= N
  BY <1>1, <1>4, <1>5, ModApart
<1> QED BY <1>4, <1>6

\* EventBuf::new establishes it.
LEMMA InitContents == Init => Contents
<1> SUFFICES ASSUME Init PROVE Contents
  OBVIOUS
<1>1. Len(head) = 1 /\ Len(tail) = 1 /\ Len(popped) = 0
  BY DEF Init
<1> QED BY <1>1 DEF Init, Contents

\* Steps that touch no slot and no cursor keep it.
LEMMA QuietContents ==
    ASSUME Contents, NEW th \in Threads,
           UNCHANGED <<head, tail, cells, history>>,
           \A u \in Threads \ {th} : pc'[u] = pc[u] /\ lval'[u] = lval[u],
           \/ pc'[th] = pc[th] /\ lval'[th] = lval[th]
           \/ pc'[th] \notin {"push_store", "pop_store"}
    PROVE  Contents'
BY DEF Contents, cells, history

\* Every step keeps it.
LEMMA NextContents ==
    ASSUME Modulus % N = 0, Typed, Ordered, Contents, [Next]_vars
    PROVE  Contents'
<1> DEFINE H == Len(head)
           T == Len(tail)
<1>a. Cursors /\ Handled /\ Knowing /\ Locals
  BY DEF Ordered
<1>b. /\ pc \in [Threads -> PCs] /\ lval \in [Threads -> Val \cup {Uninit}]
      /\ H \in Nat /\ T \in Nat
  BY DEF Typed, TypeOK
<1>t. /\ slots \in [0 .. N - 1 -> Val \cup {Uninit}]
      /\ written \in [0 .. N - 1 -> Nat] /\ read \in [0 .. N - 1 -> Nat]
      /\ accepted \in Seq(Val \cup {Uninit}) /\ popped \in Seq(Val \cup {Uninit})
  BY DEF Typed, TypeOK
<1>n. N \in Nat \ {0}
  BY CapacityAssumption
<1>c. /\ H >= 1 /\ T >= 1 /\ T <= H /\ H - T <= N
      /\ Len(accepted) = H - 1 /\ Len(popped) = T - 1
  <2>1. H >= 1 /\ T >= 1
    BY DEF Typed, TypeOK, ViewsWithin
  <2> QED BY <1>a, <2>1 DEF Cursors
<1>d. \A k \in Nat : slot_index(Cursor(k)) = Slot(k) /\ Slot(k) \in 0 .. N - 1
  BY SlotOfCursor
<1>e. \A u \in Threads : view[u].head \in 1 .. H /\ view[u].tail \in 1 .. T
  BY DEF Typed, ViewsWithin, Within
<1>1. ASSUME NEW th \in Threads, PushWrite(th) PROVE Contents'
  <2>1. /\ pc[th] = "push_write" /\ pc' = [pc EXCEPT ![th] = "push_store"]
        /\ slots' = [slots EXCEPT ![slot_index(lhead[th])] = lval[th]]
        /\ written' = [written EXCEPT ![slot_index(lhead[th])] = view[th].head]
        /\ UNCHANGED <<head, tail, read, lval, history>>
    BY <1>1 DEF PushWrite, Goto
  <2>2. th \in prod /\ lhead[th] = Cursor(H) /\ view[th].head = H /\ H - view[th].tail < N
    BY <1>a, <2>1 DEF Handled, Knowing, Locals, ProducerKnows, PushPCs
  <2>3. slot_index(lhead[th]) = Slot(H) /\ Slot(H) \in 0 .. N - 1
    BY <1>b, <1>d, <2>2
  <2>4. \A k \in T .. H - 1 : Slot(k) # Slot(H)
    <3> SUFFICES ASSUME NEW k \in T .. H - 1, Slot(k) = Slot(H) PROVE FALSE
      OBVIOUS
    <3>1. H - k >= N
      BY <1>b, <1>c, SlotsApart
    <3> QED BY <1>b, <1>c, <1>e, <1>n, <2>2, <3>1
  <2>5. \A k \in T .. H - 1 : slots'[Slot(k)] = accepted[k] /\ written'[Slot(k)] = k
    <3>1. \A k \in T .. H - 1 : Slot(k) \in 0 .. N - 1
      BY <1>b, <1>d
    <3> QED BY <1>t, <2>1, <2>3, <2>4, <3>1 DEF Contents
  <2>6. slots'[Slot(H)] = lval[th] /\ written'[Slot(H)] = H
    BY <1>t, <2>1, <2>2, <2>3
  <2>7. \A u \in Threads \ {th} : pc[u] # "push_store" /\ pc'[u] = pc[u]
    BY <1>a, <1>b, <2>1, <2>2 DEF Handled, PushPCs
  <2>8. pc'[th] = "push_store"
    BY <1>b, <2>1
  <2> QED BY <2>1, <2>5, <2>6, <2>7, <2>8 DEF Contents, history
<1>2. ASSUME NEW th \in Threads, PushStore(th) PROVE Contents'
  <2>1. /\ pc[th] = "push_store" /\ pc' = [pc EXCEPT ![th] = "idle"]
        /\ accepted' = Append(accepted, lval[th])
        /\ \E st : head' = Append(head, st)
        /\ lval' = [lval EXCEPT ![th] = Uninit]
        /\ UNCHANGED <<tail, cells, popped>>
    BY <1>2 DEF PushStore, Goto
  <2>2. Len(head') = H + 1
    BY <2>1 DEF Typed, TypeOK
  <2>3. accepted'[H] = lval[th] /\ \A k \in 1 .. H - 1 : accepted'[k] = accepted[k]
    BY <1>b, <1>c, <1>t, <2>1
  <2>4. \A k \in T .. (H + 1) - 1 : slots[Slot(k)] = accepted'[k] /\ written[Slot(k)] = k
    <3>1. \A k \in T .. (H + 1) - 1 : k = H \/ (k \in T .. H - 1 /\ k \in 1 .. H - 1)
      BY <1>b, <1>c
    <3> QED BY <2>1, <2>3, <3>1 DEF Contents
  <2>5. \A k \in 1 .. Len(popped) : popped[k] = accepted'[k]
    <3>1. \A k \in 1 .. Len(popped) : k \in 1 .. H - 1
      BY <1>b, <1>c
    <3> QED BY <2>3, <3>1 DEF Contents
  <2>6. \A s \in 0 .. N - 1 : read[s] = 0 \/ (read[s] <= T /\ read[s] < H + 1 /\ Slot(read[s]) = s)
    <3>1. \A s \in 0 .. N - 1 : read[s] \in Nat
      BY <1>t
    <3> QED BY <1>b, <3>1 DEF Contents
  <2>7. \A u \in Threads : pc'[u] # "push_store"
    BY <1>a, <1>b, <2>1 DEF Handled, PushPCs
  <2>8. \A u \in Threads : pc'[u] = "pop_store" => lval'[u] = accepted'[T]
    <3> SUFFICES ASSUME NEW u \in Threads, pc'[u] = "pop_store" PROVE lval'[u] = accepted'[T]
      OBVIOUS
    <3>1. u # th /\ pc[u] = "pop_store" /\ lval'[u] = lval[u]
      BY <1>b, <2>1
    <3>2. T \in 1 .. H - 1
      BY <1>a, <1>b, <1>c, <1>e, <3>1 DEF Locals
    <3> QED BY <2>3, <3>1, <3>2 DEF Contents
  <2>9. /\ slots' = slots /\ written' = written /\ read' = read
        /\ tail' = tail /\ popped' = popped
    BY <2>1 DEF cells
  <2> QED BY <2>2, <2>4, <2>5, <2>6, <2>7, <2>8, <2>9 DEF Contents
<1>3. ASSUME NEW th \in Threads, PopRead(th) \/ PeekRead(th) PROVE Contents'
  <2>1. /\ pc[th] \in {"pop_read", "peek_read"}
        /\ read' = [read EXCEPT ![slot_index(ltail[th])] = view[th].tail]
        /\ \/ /\ pc' = [pc EXCEPT ![th] = "pop_store"]
              /\ lval' = [lval EXCEPT ![th] = slots[slot_index(ltail[th])]]
           \/ pc' = [pc EXCEPT ![th] = "idle"] /\ UNCHANGED lval
        /\ UNCHANGED <<head, tail, slots, written, history>>
    BY <1>3 DEF PopRead, PeekRead, StampRead, Goto
  <2>2. th \in cons /\ ltail[th] = Cursor(T) /\ view[th].tail = T /\ view[th].head > T
    BY <1>a, <2>1 DEF Handled, Knowing, Locals, ConsumerKnows, PopPCs
  <2>3. slot_index(ltail[th]) = Slot(T) /\ Slot(T) \in 0 .. N - 1
    BY <1>b, <1>d, <2>2
  <2>4. T < H /\ T \in T .. H - 1
    BY <1>b, <1>e, <2>2
  <2>5. slots[Slot(T)] = accepted[T]
    BY <2>4 DEF Contents
  <2>6. \A s \in 0 .. N - 1 : \/ read'[s] = 0
                              \/ read'[s] <= T /\ read'[s] < H /\ Slot(read'[s]) = s
    <3>1. read'[Slot(T)] = T /\ \A s \in (0 .. N - 1) \ {Slot(T)} : read'[s] = read[s]
      BY <1>t, <2>1, <2>2, <2>3
    <3>2. T <= T
      BY <1>b
    <3> QED BY <2>4, <3>1, <3>2 DEF Contents
  <2>7. \A u \in Threads : /\ pc'[u] = "push_store" => pc[u] = "push_store" /\ lval'[u] = lval[u]
                           /\ pc'[u] = "pop_store" => lval'[u] = accepted[T]
    BY <1>b, <2>1, <2>3, <2>5 DEF Contents
  <2> QED BY <2>1, <2>6, <2>7 DEF Contents, history
<1>4. ASSUME NEW th \in Threads, PopStore(th) PROVE Contents'
  <2>1. /\ pc[th] = "pop_store"
        /\ \E l \in {"pop_tail", "idle"} : pc' = [pc EXCEPT ![th] = l]
        /\ popped' = Append(popped, lval[th])
        /\ \E st : tail' = Append(tail, st)
        /\ lval' = [lval EXCEPT ![th] = Uninit]
        /\ UNCHANGED <<head, cells, accepted>>
    BY <1>4 DEF PopStore, Goto
  <2>2. Len(tail') = T + 1
    BY <2>1 DEF Typed, TypeOK
  <2>3. th \in cons /\ T < H /\ lval[th] = accepted[T]
    <3>1. th \in cons /\ view[th].head > T
      BY <1>a, <2>1 DEF Handled, Locals, PopPCs
    <3> QED BY <1>b, <1>e, <2>1, <3>1 DEF Contents
  <2>4. Len(popped') = T /\ popped'[T] = lval[th] /\ \A k \in 1 .. T - 1 : popped'[k] = popped[k]
    BY <1>b, <1>c, <1>t, <2>1
  <2>5. \A k \in 1 .. T : popped'[k] = accepted[k]
    <3>1. \A k \in 1 .. T : k = T \/ k \in 1 .. T - 1
      BY <1>b, <1>c
    <3>2. \A k \in 1 .. T - 1 : popped[k] = accepted[k]
      BY <1>c DEF Contents
    <3> QED BY <2>3, <2>4, <3>1, <3>2
  <2>6. \A s \in 0 .. N - 1 : read[s] = 0 \/ (read[s] <= T + 1 /\ read[s] < H /\ Slot(read[s]) = s)
    <3>1. \A s \in 0 .. N - 1 : read[s] \in Nat
      BY <1>t
    <3> QED BY <1>b, <3>1 DEF Contents
  <2>7. \A k \in T + 1 .. H - 1 : k \in T .. H - 1
    BY <1>b
  <2>8. \A u \in Threads : pc'[u] # "pop_store"
    BY <1>a, <1>b, <2>1, <2>3 DEF Handled, PopPCs
  <2>9. \A u \in Threads : pc'[u] = "push_store" => pc[u] = "push_store" /\ lval'[u] = lval[u]
    BY <1>b, <2>1
  <2> QED BY <2>1, <2>2, <2>4, <2>5, <2>6, <2>7, <2>8, <2>9 DEF Contents, cells
<1>5. ASSUME NEW th \in Threads, Handles(th) \/ LenCall(th) PROVE Contents'
  <2>1. UNCHANGED <<head, tail, cells, history, lval>>
    BY <1>5 DEF Handles, TryProducer, TryConsumer, DropProducer, DropConsumer, LenCall,
                LenTail1, LenHead, LenTail2, LenReturn
  <2>2. pc' = pc \/ \E l \in {"len_head", "len_fence", "len_ret", "len_tail", "idle"} :
                        pc' = [pc EXCEPT ![th] = l]
    BY <1>5 DEF Handles, TryProducer, TryConsumer, DropProducer, DropConsumer, LenCall,
                LenTail1, LenHead, LenTail2, LenReturn, Goto
  <2> QED BY <1>b, <2>1, <2>2, QuietContents
<1>6. ASSUME NEW th \in Threads,
             \/ PushLoadHead(th) \/ PushLoadTail(th) \/ StartPops(th) \/ StartPeek(th)
             \/ PopLoadTail(th) \/ PeekLoadTail(th) \/ PopLoadHead(th) \/ PeekLoadHead(th)
      PROVE  Contents'
  <2>1. UNCHANGED <<head, tail, cells, history>>
        /\ \E l \in {"push_tail", "push_write", "idle", "pop_tail", "peek_tail", "pop_head",
                     "peek_head", "pop_read", "peek_read"} : pc' = [pc EXCEPT ![th] = l]
    BY <1>6 DEF PushLoadHead, PushLoadTail, StartPops, StartPeek, PopLoadTail, PeekLoadTail,
                LoadOwnTail, PopLoadHead, PeekLoadHead, LoadHead, LoadHeadAt, Goto
  <2>2. lval' = lval \/ \E x : lval' = [lval EXCEPT ![th] = x]
    BY <1>6 DEF PushLoadHead, PushLoadTail, StartPops, StartPeek, PopLoadTail, PeekLoadTail,
                LoadOwnTail, PopLoadHead, PeekLoadHead, LoadHead, LoadHeadAt
  <2> QED BY <1>b, <2>1, <2>2, QuietContents
<1>7. CASE UNCHANGED vars
  BY <1>7 DEF Contents, vars, cells, history
<1> QED BY <1>1, <1>2, <1>3, <1>4, <1>5, <1>6, <1>7 DEF Next, Push, Pops, Peek

\* Both parts hold in every reachable state.
LEMMA AlwaysSafe ==
    ASSUME Modulus % N = 0 PROVE Spec => [](Typed /\ Ordered /\ Contents)
<1>1. Typed /\ Ordered /\ Contents /\ [Next]_vars => Contents'
  BY NextContents
<1> QED BY AlwaysOrdered, InitContents, <1>1, PTL DEF Spec

-----------------------------------------------------------------------------
(* What follows.                                                           *)

\* Two stores of the same slot, and a store and a load of it, never race: each
\* slot access of push, pop, peek and drain happens after every conflicting
\* one before it, across hand-overs of the handles and cursor wraps.
THEOREM RaceFree == ASSUME Modulus % N = 0 PROVE Spec => []NoSlotRace
<1>1. Typed /\ Ordered /\ Contents => NoSlotRace
  <2> SUFFICES ASSUME Typed, Ordered, Contents, NEW th \in Threads
               PROVE  /\ pc[th] = "push_write" =>
                            /\ written[slot_index(lhead[th])] <= view[th].wr
                            /\ read[slot_index(lhead[th])] <= view[th].rd
                      /\ pc[th] \in {"pop_read", "peek_read"} =>
                            written[slot_index(ltail[th])] <= view[th].wr
    BY DEF NoSlotRace
  <2> DEFINE H == Len(head)
             T == Len(tail)
  <2>a. H \in Nat /\ T \in Nat /\ T >= 1 /\ H >= 1
    BY DEF Typed, TypeOK, ViewsWithin
  <2>b. N \in Nat \ {0}
    BY CapacityAssumption
  <2>c. slot_index(Cursor(H)) = Slot(H) /\ Slot(H) \in 0 .. N - 1
        /\ slot_index(Cursor(T)) = Slot(T)
    BY <2>a, SlotOfCursor
  <2>d. view[th].rd \in Nat /\ view[th].head \in 1 .. H /\ view[th].tail \in 1 .. T
    BY DEF Typed, ViewsWithin, Within, View
  <2>e. \A s \in 0 .. N - 1 : read[s] \in Nat
    BY DEF Typed, TypeOK
  <2>1. CASE pc[th] = "push_write"
    <3>1. th \in prod /\ lhead[th] = Cursor(H) /\ H - view[th].tail < N
          /\ view[th].rd >= view[th].tail - 1
      BY <2>1 DEF Ordered, Handled, Locals, PushPCs
    <3>2. written[Slot(H)] <= view[th].wr
      BY <2>c, <3>1 DEF Ordered, Knowing, ProducerKnows
    <3>3. CASE read[Slot(H)] = 0
      BY <2>1, <2>c, <2>d, <3>1, <3>2, <3>3
    <3>4. CASE read[Slot(H)] # 0
      <4>1. PICK r \in Nat : r = read[Slot(H)]
        BY <2>c, <2>e
      <4>2. r < H /\ Slot(r) = Slot(H)
        BY <2>c, <3>4, <4>1 DEF Contents
      <4>3. H - r >= N
        BY <2>a, <4>2, SlotsApart
      <4>4. r <= view[th].rd
        BY <2>a, <2>b, <2>d, <3>1, <4>3, SMTT(30)
      <4> QED BY <2>1, <2>c, <3>1, <3>2, <4>1, <4>4
    <3> QED BY <3>3, <3>4
  <2>2. CASE pc[th] \in {"pop_read", "peek_read"}
    <3>1. ltail[th] = Cursor(T) /\ view[th].head > T /\ view[th].wr >= T
      BY <2>2 DEF Ordered, Locals, PopPCs
    <3>2. written[Slot(T)] = T
      BY <2>a, <2>d, <3>1 DEF Contents
    <3>3. T <= view[th].wr
      <4>1. view[th].wr \in Nat
        BY DEF Typed, TypeOK, View
      <4> QED BY <2>a, <3>1, <4>1
    <3> QED BY <2>2, <2>c, <3>1, <3>2, <3>3
  <2> QED BY <2>1, <2>2
<1> QED BY AlwaysSafe, <1>1, PTL

\* pop and peek read the oldest event that was accepted and not popped.
THEOREM OldestFirst == ASSUME Modulus % N = 0 PROVE Spec => []OldestInPlace
<1>1. Typed /\ Ordered /\ Contents => OldestInPlace
  <2> SUFFICES ASSUME Typed, Ordered, Contents, NEW th \in Threads,
                      pc[th] \in {"pop_read", "peek_read"}
               PROVE  /\ Len(popped) < Len(accepted)
                      /\ slots[slot_index(ltail[th])] = accepted[Len(popped) + 1]
    BY DEF OldestInPlace
  <2>1. Len(head) \in Nat /\ Len(tail) \in Nat
    BY DEF Typed, TypeOK
  <2>2. ltail[th] = Cursor(Len(tail)) /\ view[th].head > Len(tail)
    BY DEF Ordered, Locals, PopPCs
  <2>3. view[th].head \in 1 .. Len(head)
    BY DEF Typed, ViewsWithin, Within
  <2>4. Len(accepted) = Len(head) - 1 /\ Len(popped) = Len(tail) - 1
    BY DEF Ordered, Cursors
  <2>5. slots[Slot(Len(tail))] = accepted[Len(tail)]
    BY <2>1, <2>2, <2>3 DEF Contents
  <2>6. slot_index(ltail[th]) = Slot(Len(tail))
    BY <2>1, <2>2, SlotOfCursor
  <2> QED BY <2>1, <2>2, <2>3, <2>4, <2>5, <2>6
<1> QED BY AlwaysSafe, <1>1, PTL

\* Nothing that push accepted is lost, reordered or duplicated, and no more than
\* N events are ever waiting.
THEOREM NoLoss == ASSUME Modulus % N = 0 PROVE Spec => []NothingLost
<1>1. Typed /\ Ordered /\ Contents => NothingLost
  <2> SUFFICES ASSUME Typed, Ordered, Contents PROVE NothingLost
    OBVIOUS
  <2> DEFINE S == Val \cup {Uninit}
             n == Len(popped)
  <2>1. accepted \in Seq(S) /\ popped \in Seq(S) /\ n \in Nat
    BY DEF Typed, TypeOK
  <2>2. Len(head) \in Nat /\ Len(tail) \in Nat /\ N \in Nat
    BY CapacityAssumption DEF Typed, TypeOK
  <2>3. n <= Len(accepted) /\ Len(accepted) - n <= N
    BY <2>2 DEF Ordered, Cursors
  <2>4. \A i \in 1 .. n : accepted[i] \in S
    BY <2>1, <2>3
  <2>5. SubSeq(accepted, 1, n) \in Seq(S) /\ Len(SubSeq(accepted, 1, n)) = n
        /\ \A i \in 1 .. n : SubSeq(accepted, 1, n)[i] = accepted[i]
    BY <2>1, <2>3, <2>4
  <2>6. \A i \in 1 .. n : popped[i] = SubSeq(accepted, 1, n)[i]
    BY <2>5 DEF Contents
  <2>7. popped = SubSeq(accepted, 1, n)
    BY <2>1, <2>5, <2>6, SeqEqual
  <2> QED BY <2>3, <2>7 DEF NothingLost
<1> QED BY AlwaysSafe, <1>1, PTL

-----------------------------------------------------------------------------
(* The refinement.  A push takes effect at its store of head, a pop at its *)
(* store of tail; every other step stutters.                               *)

\* The events waiting, as the mapping of Queue computes them.
Waiting == SubSeq(accepted, Len(popped) + 1, Len(accepted))

\* Appending to a sequence appends to each of its suffixes.
LEMMA SuffixAppend ==
    ASSUME NEW S, NEW s \in Seq(S), NEW e \in S, NEW n \in 0 .. Len(s)
    PROVE  /\ SubSeq(Append(s, e), n + 1, Len(s) + 1)
                = Append(SubSeq(s, n + 1, Len(s)), e)
           /\ Len(SubSeq(s, n + 1, Len(s))) = Len(s) - n
<1> DEFINE l == Len(s)
           a == SubSeq(Append(s, e), n + 1, l + 1)
           b == SubSeq(s, n + 1, l)
<1>1. l \in Nat /\ n \in Nat /\ n <= l /\ Append(s, e) \in Seq(S) /\ Len(Append(s, e)) = l + 1
      /\ Append(s, e)[l + 1] = e /\ \A i \in 1 .. l : Append(s, e)[i] = s[i]
  OBVIOUS
<1>2. a \in Seq(S) /\ Len(a) = l + 1 - n /\ \A i \in 1 .. l + 1 - n : a[i] = Append(s, e)[n + i]
  <2>1. \A i \in n + 1 .. l + 1 : Append(s, e)[i] \in S
    BY <1>1
  <2> QED BY <1>1, <2>1, SubSeqProperties
<1>3. b \in Seq(S) /\ Len(b) = l - n /\ \A i \in 1 .. l - n : b[i] = s[n + i]
  <2>1. \A i \in n + 1 .. l : s[i] \in S
    BY <1>1
  <2> QED BY <1>1, <2>1, SubSeqProperties
<1> HIDE DEF a, b
<1>4. Append(b, e) \in Seq(S) /\ Len(Append(b, e)) = l + 1 - n
      /\ Append(b, e)[l + 1 - n] = e /\ \A i \in 1 .. l - n : Append(b, e)[i] = b[i]
  BY <1>1, <1>3
<1>5. \A i \in 1 .. l + 1 - n : a[i] = Append(b, e)[i]
  <2> SUFFICES ASSUME NEW i \in 1 .. l + 1 - n PROVE a[i] = Append(b, e)[i]
    OBVIOUS
  <2>1. CASE i = l + 1 - n
    BY <1>1, <1>2, <1>4, <2>1
  <2>2. CASE i \in 1 .. l - n
    <3>1. n + i \in 1 .. l
      BY <1>1, <2>2
    <3>2. a[i] = s[n + i]
      BY <1>1, <1>2, <3>1
    <3>3. Append(b, e)[i] = s[n + i]
      BY <1>3, <1>4, <2>2
    <3> QED BY <3>2, <3>3
  <2>3. i = l + 1 - n \/ i \in 1 .. l - n
    BY <1>1
  <2> QED BY <2>1, <2>2, <2>3
<1>6. a = Append(b, e)
  BY <1>2, <1>4, <1>5, SeqEqual
<1> QED BY <1>3, <1>6 DEF a, b

\* EventBuf is the queue it promises to be: events are delivered once each, in
\* order, and accepted only while fewer than N are waiting.
THEOREM Refinement == ASSUME Modulus % N = 0 PROVE Spec => ImplementsQueue
<1>1. Init => Queue!Init
  BY DEF Init, Queue!Init
<1>2. Typed /\ Ordered /\ Contents /\ [Next]_vars => [Queue!Next]_(Queue!vars)
  <2> SUFFICES ASSUME Typed, Ordered, Contents, [Next]_vars
               PROVE  [Queue!Next]_(Queue!vars)
    OBVIOUS
  <2> DEFINE S == Val \cup {Uninit}
             H == Len(head)
             T == Len(tail)
  <2>a. accepted \in Seq(S) /\ popped \in Seq(S) /\ H \in Nat /\ T \in Nat
    BY DEF Typed, TypeOK
  <2>b. /\ H >= 1 /\ T >= 1 /\ T <= H
        /\ Len(accepted) = H - 1 /\ Len(popped) = T - 1
    <3>1. H >= 1 /\ T >= 1
      BY DEF Typed, TypeOK, ViewsWithin
    <3> QED BY <3>1 DEF Ordered, Cursors
  <2>n. N \in Nat \ {0}
    BY CapacityAssumption
  <2>1. ASSUME NEW th \in Threads, PushStore(th) PROVE Queue!Next
    <3>1. pc[th] = "push_store" /\ accepted' = Append(accepted, lval[th]) /\ popped' = popped
      BY <2>1 DEF PushStore
    <3>2. lval[th] \in Val /\ H - view[th].tail < N
      BY <3>1 DEF Ordered, Locals, PushPCs
    <3>3. view[th].tail \in 1 .. T
      BY DEF Typed, ViewsWithin, Within
    <3>4. H - T < N
      BY <2>a, <2>n, <3>2, <3>3
    <3>5. Len(popped) \in 0 .. Len(accepted)
      BY <2>a, <2>b
    <3>6. /\ SubSeq(accepted', Len(popped) + 1, Len(accepted) + 1) = Append(Waiting, lval[th])
          /\ Len(Waiting) = Len(accepted) - Len(popped)
      <4>1. lval[th] \in S
        BY <3>2
      <4> HIDE DEF S
      <4> QED BY <2>a, <3>1, <3>5, <4>1, SuffixAppend, ZenonT(30) DEF Waiting
    <3>7. Len(accepted') = Len(accepted) + 1
      BY <2>a, <3>1
    <3>8. Len(Waiting) < N
      BY <2>a, <2>b, <2>n, <3>4, <3>6
    <3>9. Queue!Accept(lval[th])
      BY <3>1, <3>6, <3>7, <3>8 DEF Queue!Accept, Waiting
    <3> QED BY <3>2, <3>9 DEF Queue!Next
  <2>2. ASSUME NEW th \in Threads, PopStore(th) PROVE Queue!Next
    <3>1. pc[th] = "pop_store" /\ accepted' = accepted /\ popped' = Append(popped, lval[th])
      BY <2>2 DEF PopStore
    <3>2. lval[th] = accepted[T] /\ view[th].head > T
      BY <3>1 DEF Ordered, Locals, Contents
    <3>3. view[th].head \in 1 .. H
      BY DEF Typed, ViewsWithin, Within
    <3>4. T \in 1 .. Len(accepted) /\ Len(accepted) \in T .. Len(accepted)
          /\ Len(popped) + 1 = T
      BY <2>a, <2>b, <3>2, <3>3
    <3>5. Len(popped') + 1 = T + 1
      BY <2>a, <2>b, <3>1
    <3>6. Head(Waiting) = lval[th] /\ Tail(Waiting) = SubSeq(accepted, T + 1, Len(accepted))
      BY <2>a, <3>2, <3>4, HeadTailOfSubSeq, ZenonT(30) DEF Waiting
    <3>7. Waiting # <<>>
      <4>1. \A i \in T .. Len(accepted) : accepted[i] \in S
        BY <2>a, <2>b
      <4>2. Len(Waiting) = Len(accepted) - T + 1
        BY <2>a, <3>4, <4>1, SubSeqProperties DEF Waiting
      <4> QED BY <2>a, <3>4, <4>2
    <3>8. Queue!Deliver
      BY <3>1, <3>5, <3>6, <3>7 DEF Queue!Deliver, Waiting
    <3> QED BY <3>8 DEF Queue!Next
  <2>3. ASSUME UNCHANGED history PROVE UNCHANGED Queue!vars
    BY <2>3 DEF history, Queue!vars
  <2>4. ASSUME NEW th \in Threads,
               Handles(th) \/ Push(th) \/ Pops(th) \/ Peek(th) \/ LenCall(th)
        PROVE  PushStore(th) \/ PopStore(th) \/ UNCHANGED history
    BY <2>4
       DEF Handles, TryProducer, DropProducer, TryConsumer, DropConsumer, Push,
           PushLoadHead, PushLoadTail, PushWrite, Pops, StartPops, PopLoadTail,
           PopLoadHead, PopRead, Peek, StartPeek, PeekLoadTail, PeekLoadHead, PeekRead,
           LoadOwnTail, LoadHead, LoadHeadAt, LenCall, LenTail1, LenHead, LenTail2,
           LenReturn
  <2>5. CASE UNCHANGED vars
    BY <2>5, <2>3 DEF vars, history
  <2> QED BY <2>1, <2>2, <2>3, <2>4, <2>5 DEF Next
<1> QED BY AlwaysSafe, <1>1, <1>2, PTL DEF Spec, ImplementsQueue, Queue!Spec

-----------------------------------------------------------------------------
(* What len returns.                                                       *)

LenPCs == {"len_tail", "len_head", "len_fence", "len_ret"}

\* Whoever acquires a store of one cursor knows the other cursor well enough for
\* a difference of the two that is neither negative nor above N.
Carried ==
    /\ \A i \in 1 .. Len(head) : i - head[i].view.tail <= N
    /\ \A i \in 1 .. Len(tail) : tail[i].view.head >= i

\* How many pushes there can have been.
Room ==
    /\ Len(head) <= MaxPush + 1
    /\ \A th \in Threads : pc[th] \in PushPCs => Len(head) <= MaxPush

\* The locals of len are the stores its view stands at, and it stands no earlier
\* than when the call began.
Sampling ==
    \A th \in Threads :
        /\ pc[th] \in LenPCs =>
              since[th].head <= view[th].head /\ since[th].tail <= view[th].tail
        /\ pc[th] \in LenPCs \ {"len_tail"} =>
              ltail[th] = Cursor(view[th].tail) /\ view[th].tail <= view[th].head
        /\ pc[th] \in {"len_fence", "len_ret"} => lhead[th] = Cursor(view[th].head)
        /\ pc[th] = "len_ret" /\ attempt[th] < RETRY_LIMIT =>
              view[th].head - view[th].tail <= N

Measured == Carried /\ Room /\ Sampling

\* EventBuf::new establishes it.
LEMMA InitMeasured == Init => Measured
<1> SUFFICES ASSUME Init PROVE Measured
  OBVIOUS
<1>1. Len(head) = 1 /\ Len(tail) = 1 /\ head[1].view = Fresh /\ tail[1].view = Fresh
      /\ N \in Nat \ {0} /\ MaxPush \in Nat
  BY CapacityAssumption, BoundAssumption DEF Init
<1>2. Carried
  BY <1>1 DEF Carried, Fresh
<1>3. Room /\ Sampling
  BY <1>1 DEF Init, Room, Sampling, PushPCs, LenPCs
<1> QED BY <1>2, <1>3 DEF Measured

\* Steps that store to no cursor and are not of len keep it.
LEMMA QuietMeasured ==
    ASSUME Measured, NEW th \in Threads, UNCHANGED <<head, tail>>,
           \A u \in Threads \ {th} :
              /\ view'[u] = view[u] /\ pc'[u] = pc[u] /\ lhead'[u] = lhead[u]
              /\ ltail'[u] = ltail[u] /\ attempt'[u] = attempt[u] /\ since'[u] = since[u],
           pc'[th] \notin LenPCs, pc'[th] \in PushPCs => Len(head) <= MaxPush
    PROVE  Measured'
<1>1. Carried' /\ Room'
  BY DEF Measured, Carried, Room
<1>2. Sampling'
  BY DEF Measured, Sampling, LenPCs
<1> QED BY <1>1, <1>2 DEF Measured

\* A store to head follows a test that left room, a store to tail a load of head
\* that found an event.
LEMMA StoresMeasured ==
    ASSUME Typed, Typed', Ordered, Measured, NEW th \in Threads,
           PushStore(th) \/ PopStore(th)
    PROVE  Measured'
<1> DEFINE H == Len(head)
           T == Len(tail)
<1>a. /\ pc \in [Threads -> PCs] /\ view \in [Threads -> View]
      /\ lhead \in [Threads -> 0 .. Modulus - 1] /\ ltail \in [Threads -> 0 .. Modulus - 1]
      /\ H \in Nat /\ T \in Nat /\ head \in Seq(Stores) /\ tail \in Seq(Stores)
  <2>1. TypeOK
    BY DEF Typed
  <2> QED BY <2>1 DEF TypeOK
<1>b. view[th] \in View /\ N \in Nat /\ MaxPush \in Nat
  BY <1>a, CapacityAssumption, BoundAssumption
<1>c. Carried /\ Room /\ Sampling
  BY DEF Measured
<1>1. CASE PushStore(th)
  <2>1. /\ pc[th] = "push_store" /\ H <= MaxPush /\ H - view[th].tail < N
    BY <1>1, <1>c DEF PushStore, Room, PushPCs, Ordered, Locals
  <2> DEFINE new == SawHead(view[th], H + 1)
             e == [val |-> wrapping_add(lhead[th], 1), view |-> new]
  <2>2. /\ head' = Append(head, e) /\ e.view.tail = view[th].tail
        /\ view' = [view EXCEPT ![th] = new]
    <3>1. new.tail = view[th].tail
      BY <1>b DEF SawHead, View
    <3> QED BY <1>1, <3>1 DEF PushStore
  <2> HIDE DEF new, e
  <2>3. Len(head') = H + 1 /\ head'[H + 1] = e /\ \A i \in 1 .. H : head'[i] = head[i]
    BY <1>a, <2>2
  <2>4. Carried'
    <3>1. ASSUME NEW i \in 1 .. H + 1 PROVE i - head'[i].view.tail <= N
      <4>1. CASE i = H + 1
        <5>1. view[th].tail \in Nat
          BY <1>b DEF View
        <5> QED BY <1>a, <1>b, <2>1, <2>2, <2>3, <4>1, <5>1
      <4>2. CASE i # H + 1
        <5>1. i \in 1 .. H
          BY <1>a, <4>2
        <5> QED BY <1>c, <2>3, <5>1 DEF Carried
      <4> QED BY <4>1, <4>2
    <3> QED BY <1>1, <1>c, <2>3, <3>1 DEF Carried, PushStore
  <2>5. /\ pc'[th] = "idle"
        /\ \A u \in Threads \ {th} :
              /\ view'[u] = view[u] /\ pc'[u] = pc[u] /\ lhead'[u] = lhead[u]
              /\ ltail'[u] = ltail[u] /\ attempt'[u] = attempt[u] /\ since'[u] = since[u]
        /\ tail' = tail
    BY <1>1, <1>a, <2>2 DEF PushStore, Goto, observe
  <2>6. Room'
    <3>1. \A u \in Threads \ {th} : pc[u] \notin PushPCs
      BY <1>1, <2>1 DEF Ordered, Handled, PushPCs
    <3>2. Len(head') <= MaxPush + 1
      BY <1>a, <1>b, <2>1, <2>3
    <3> QED BY <2>5, <3>1, <3>2 DEF Room, PushPCs
  <2>7. Sampling'
    BY <1>c, <2>5 DEF Sampling, LenPCs
  <2> QED BY <2>4, <2>6, <2>7 DEF Measured
<1>2. CASE PopStore(th)
  <2>1. pc[th] = "pop_store" /\ view[th].head > T
    BY <1>2 DEF PopStore, Ordered, Locals
  <2> DEFINE new == SawTail(view[th], T + 1)
             e == [val |-> wrapping_add(ltail[th], 1), view |-> new]
  <2>2. /\ tail' = Append(tail, e) /\ e.view.head = view[th].head
        /\ view' = [view EXCEPT ![th] = new]
    <3>1. new.head = view[th].head
      BY <1>b DEF SawTail, View
    <3> QED BY <1>2, <3>1 DEF PopStore
  <2> HIDE DEF new, e
  <2>3. Len(tail') = T + 1 /\ tail'[T + 1] = e /\ \A i \in 1 .. T : tail'[i] = tail[i]
    BY <1>a, <2>2
  <2>4. Carried'
    <3>1. ASSUME NEW i \in 1 .. T + 1 PROVE tail'[i].view.head >= i
      <4>1. CASE i = T + 1
        <5>1. view[th].head \in Nat
          BY <1>b DEF View
        <5> QED BY <1>a, <2>1, <2>2, <2>3, <4>1, <5>1
      <4>2. CASE i # T + 1
        <5>1. i \in 1 .. T
          BY <1>a, <4>2
        <5> QED BY <1>c, <2>3, <5>1 DEF Carried
      <4> QED BY <4>1, <4>2
    <3> QED BY <1>2, <1>c, <2>3, <3>1 DEF Carried, PopStore
  <2>5. /\ pc'[th] \in {"idle", "pop_tail"}
        /\ \A u \in Threads \ {th} :
              /\ view'[u] = view[u] /\ pc'[u] = pc[u] /\ lhead'[u] = lhead[u]
              /\ ltail'[u] = ltail[u] /\ attempt'[u] = attempt[u] /\ since'[u] = since[u]
        /\ head' = head
    BY <1>2, <1>a, <2>2 DEF PopStore, Goto, observe
  <2>6. Room'
    BY <1>c, <2>5 DEF Room, PushPCs
  <2>7. Sampling'
    BY <1>c, <2>5 DEF Sampling, LenPCs
  <2> QED BY <2>4, <2>6, <2>7 DEF Measured
<1> QED BY <1>1, <1>2

\* The loads of len keep it, if there are fewer pushes than cursor values: then
\* equal values of tail are the same store, and the load of head lies between.
LEMMA LenMeasured ==
    ASSUME MaxPush < Modulus, Typed, Typed', Ordered, Measured, NEW th \in Threads,
           LenCall(th)
    PROVE  Measured'
<1> DEFINE H == Len(head)
           T == Len(tail)
<1>a. /\ pc \in [Threads -> PCs] /\ view \in [Threads -> View] /\ since \in [Threads -> View]
      /\ lhead \in [Threads -> 0 .. Modulus - 1] /\ ltail \in [Threads -> 0 .. Modulus - 1]
      /\ attempt \in [Threads -> 0 .. RETRY_LIMIT] /\ H \in Nat /\ T \in Nat
  <2>1. TypeOK
    BY DEF Typed
  <2> QED BY <2>1 DEF TypeOK
<1>b. /\ N \in Nat /\ MaxPush \in Nat /\ Modulus \in Nat
      /\ view[th] \in View /\ view[th].head \in 1 .. H /\ view[th].tail \in 1 .. T
      /\ since[th].head \in Nat /\ since[th].tail \in Nat
  BY <1>a, CapacityAssumption, BoundAssumption, ModulusAssumption
     DEF Typed, ViewsWithin, Within, View
<1>c. Carried /\ Room /\ Sampling
  BY DEF Measured
<1>d. /\ \A i \in 1 .. H : /\ head[i].view \in View /\ head[i].val = Cursor(i)
                           /\ head[i].view.head = i /\ i - head[i].view.tail <= N
      /\ \A i \in 1 .. T : /\ tail[i].view \in View /\ tail[i].val = Cursor(i)
                           /\ tail[i].view.tail = i /\ tail[i].view.head >= i
      /\ T <= H /\ H <= MaxPush + 1
  BY <1>c DEF Typed, ViewsWithin, Within, Ordered, Cursors, Carried, Room
<1>1. /\ UNCHANGED <<head, tail>>
      /\ pc'[th] \notin PushPCs
      /\ \A u \in Threads \ {th} :
            /\ view'[u] = view[u] /\ pc'[u] = pc[u] /\ lhead'[u] = lhead[u]
            /\ ltail'[u] = ltail[u] /\ attempt'[u] = attempt[u] /\ since'[u] = since[u]
  <2>1. CASE LenTail1(th)
    BY <1>a, <2>1 DEF LenTail1, Goto, PushPCs
  <2>2. CASE LenHead(th)
    BY <1>a, <2>2 DEF LenHead, Goto, PushPCs, observe
  <2>3. CASE LenTail2(th)
    BY <1>a, <2>3 DEF LenTail2, Goto, PushPCs
  <2>4. CASE LenReturn(th)
    BY <1>a, <2>4 DEF LenReturn, Goto, PushPCs
  <2> QED BY <2>1, <2>2, <2>3, <2>4 DEF LenCall
<1>2. Carried' /\ Room'
  BY <1>1, <1>c DEF Carried, Room
<1> DEFINE Sampled(u) ==
             /\ pc[u] \in LenPCs =>
                   since[u].head <= view[u].head /\ since[u].tail <= view[u].tail
             /\ pc[u] \in LenPCs \ {"len_tail"} =>
                   ltail[u] = Cursor(view[u].tail) /\ view[u].tail <= view[u].head
             /\ pc[u] \in {"len_fence", "len_ret"} => lhead[u] = Cursor(view[u].head)
             /\ pc[u] = "len_ret" /\ attempt[u] < RETRY_LIMIT =>
                   view[u].head - view[u].tail <= N
<1>3. Sampled(th)'
  <2>1. CASE LenTail1(th)
    <3>1. PICK i \in view[th].tail .. T :
              /\ ltail' = [ltail EXCEPT ![th] = tail[i].val]
              /\ view' = [view EXCEPT ![th] = AcquireTail(view[th], i, tail[i].view)]
      BY <2>1 DEF LenTail1
    <3>2. i \in 1 .. T /\ i \in Nat /\ i >= view[th].tail
      BY <1>a, <1>b
    <3>3. PICK m \in View : m = tail[i].view /\ m.tail = i /\ m.head >= i
      BY <1>d, <3>2
    <3>9. PICK s \in View : s = SawTail(view[th], i)
      BY <1>b, <3>2, SawFacts
    <3>10. PICK v \in View : v = AcquireTail(view[th], i, m) /\ v = Join(s, m)
      BY <3>3, <3>9, JoinFacts DEF AcquireTail
    <3>4. v.tail = i /\ v.head >= view[th].head /\ v.head >= i
      <4>1. v.head >= m.head
        BY <3>3, <3>9, <3>10, JoinFacts DEF Covers
      <4>2. v.head \in Nat /\ m.head \in Nat
        BY <3>3, <3>10 DEF View
      <4>3. v.tail = i /\ Covers(v, view[th])
        <5>1. /\ AcquireTail(view[th], i, m).tail = i
              /\ Covers(AcquireTail(view[th], i, m), view[th])
          BY <1>b, <3>2, <3>3, AcquireFacts, SMTT(30)
        <5> QED BY <3>10, <5>1
      <4> QED BY <3>2, <3>3, <4>1, <4>2, <4>3 DEF Covers
    <3>5. since'[th].head <= view[th].head /\ since'[th].tail <= view[th].tail
      <4>1. \/ since'[th] = view[th]
            \/ since'[th] = since[th] /\ pc[th] = "len_tail"
        BY <2>1, <1>a DEF LenTail1
      <4>2. view[th].head <= view[th].head /\ view[th].tail <= view[th].tail
        BY <1>b
      <4> QED BY <1>c, <4>1, <4>2 DEF Sampling, LenPCs
    <3>6. pc'[th] = "len_head" /\ view'[th] = v /\ ltail'[th] = Cursor(i)
      BY <2>1, <1>a, <1>d, <3>1, <3>2, <3>3, <3>10 DEF LenTail1, Goto
    <3>7. since'[th].head \in Nat /\ since'[th].tail \in Nat /\ v.head \in Nat
      BY DEF Typed, TypeOK, View
    <3>8. since'[th].head <= v.head /\ since'[th].tail <= v.tail
      BY <1>b, <3>2, <3>4, <3>5, <3>7
    <3> QED BY <3>4, <3>6, <3>8
  <2>2. CASE LenHead(th)
    <3>1. PICK i \in view[th].head .. H :
              /\ lhead' = [lhead EXCEPT ![th] = head[i].val]
              /\ view' = [view EXCEPT ![th] = SawHead(view[th], i)]
      BY <2>2 DEF LenHead
    <3>2. i \in 1 .. H /\ i \in Nat /\ i >= view[th].head
      BY <1>a, <1>b
    <3>3. PICK v \in View : v = SawHead(view[th], i) /\ v.head = i /\ v.tail = view[th].tail
      <4>1. SawHead(view[th], i) \in View /\ SawHead(view[th], i).head = i
            /\ SawHead(view[th], i).tail = view[th].tail
        BY <1>b, <3>2, SawFacts
      <4> QED BY <4>1
    <3>4. /\ view'[th] = v /\ lhead'[th] = Cursor(i)
          /\ ltail'[th] = ltail[th] /\ since'[th] = since[th]
          /\ pc[th] = "len_head" /\ pc'[th] \in {"len_fence", "len_ret"}
          /\ pc'[th] = "len_ret" => ~(attempt'[th] < RETRY_LIMIT)
      BY <2>2, <1>a, <1>d, <3>1, <3>2, <3>3 DEF LenHead, Goto, observe
    <3>5. /\ since[th].head <= view[th].head /\ since[th].tail <= view[th].tail
          /\ ltail[th] = Cursor(view[th].tail) /\ view[th].tail <= view[th].head
      BY <1>c, <3>4 DEF Sampling, LenPCs
    <3>6. since[th].head <= i /\ view[th].tail <= i
      BY <1>b, <3>2, <3>5
    <3> QED BY <3>3, <3>4, <3>5, <3>6
  <2>3. CASE LenTail2(th)
    <3> DEFINE h == view[th].head
               t == view[th].tail
               f == Fence(view[th])
    <3>1. PICK i \in f.tail .. T :
              /\ view' = [view EXCEPT ![th] = SawTail(f, i)]
              /\ \/ /\ tail[i].val = ltail[th]
                    /\ pc' = [pc EXCEPT ![th] = "len_ret"]
                 \/ pc' = [pc EXCEPT ![th] = "len_tail"]
      BY <2>3 DEF LenTail2, Goto
    <3>2. /\ f \in View /\ f.head = h /\ f.tail >= t
          /\ f.tail >= head[h].view.tail /\ f.tail \in Nat /\ head[h].view.tail \in Nat
      <4>1. head[h].view \in View /\ head[h].view.head = h
        BY <1>b, <1>d
      <4>2. f = Join(view[th], head[h].view)
        BY DEF Fence
      <4>3. f \in View /\ Covers(f, view[th]) /\ Covers(f, head[h].view) /\ f.head = h
        BY <1>b, <4>1, <4>2, JoinFacts
      <4> QED BY <4>1, <4>3 DEF Covers, View
    <3>3. h - head[h].view.tail <= N /\ h \in 1 .. H /\ t \in 1 .. T
      BY <1>b, <1>d
    <3> HIDE DEF f
    <3>4. i \in 1 .. T /\ i \in Nat /\ i >= t /\ h - i <= N
      <4>1. PICK g \in Nat, k \in Nat, c \in Nat, d \in Nat :
                g = f.tail /\ k = head[h].view.tail /\ c = h /\ d = t
        <5>1. f.tail \in Nat /\ head[h].view.tail \in Nat /\ h \in Nat /\ t \in Nat
          BY <1>b, <3>2
        <5> QED BY <5>1
      <4>2. g >= d /\ g >= k /\ i \in g .. T /\ c - k <= N /\ d \in 1 .. T
        BY <3>1, <3>2, <3>3, <4>1
      <4>3. i \in 1 .. T /\ i \in Nat /\ i >= d /\ c - i <= N
        BY ONLY <4>2, <1>b, <1>a, g \in Nat, k \in Nat, c \in Nat, d \in Nat
      <4> QED BY <4>1, <4>3
    <3>5. PICK v \in View : v = SawTail(f, i) /\ v.head = h /\ v.tail = i
      <4>1. SawTail(f, i) \in View /\ SawTail(f, i).head = f.head /\ SawTail(f, i).tail = i
        BY <3>2, <3>4, SawFacts
      <4> QED BY <3>2, <4>1
    <3>6. /\ view'[th] = v /\ since'[th] = since[th] /\ pc[th] = "len_fence"
          /\ lhead'[th] = lhead[th] /\ ltail'[th] = ltail[th]
      BY <2>3, <1>a, <3>1, <3>5 DEF LenTail2
    <3>7. /\ since[th].head <= h /\ since[th].tail <= t
          /\ ltail[th] = Cursor(t) /\ t <= h /\ lhead[th] = Cursor(h)
      BY <1>c, <3>6 DEF Sampling, LenPCs
    <3>8. since[th].tail <= i
      BY <1>b, <3>4, <3>7
    <3>9. CASE tail[i].val = ltail[th] /\ pc'[th] = "len_ret"
      <4>1. wrapping_sub(Cursor(i), Cursor(t)) = i - t
        <5>1. PICK d \in Nat : d = t /\ d >= 1 /\ d <= i
          BY <1>b, <3>4
        <5>2. i <= T /\ T <= H /\ H <= MaxPush + 1
          BY <1>d, <3>4
        <5>3. i - d < Modulus
          BY ONLY <1>a, <1>b, <3>4, <5>1, <5>2, MaxPush < Modulus, d \in Nat, i \in Nat
        <5>4. i - t < Modulus /\ t \in Nat /\ t <= i
          BY <5>1, <5>3
        <5> QED BY <3>4, <5>4, CursorSpan
      <4>2. wrapping_sub(Cursor(t), Cursor(t)) = t - t
        <5>1. t - t < Modulus /\ t \in Nat /\ t <= t
          BY <1>b, <3>3, CapacityAssumption, ModulusAssumption
        <5> QED BY <5>1, CursorSpan
      <4>3. Cursor(i) = Cursor(t)
        BY <1>d, <3>4, <3>7, <3>9
      <4>4. i = t
        BY <1>b, <3>3, <3>4, <4>1, <4>2, <4>3
      <4> QED BY <3>4, <3>5, <3>6, <3>7, <3>8, <3>9, <4>4 DEF LenPCs
    <3>10. CASE pc'[th] = "len_tail"
      BY <3>5, <3>6, <3>7, <3>8, <3>10
    <3> QED BY <1>a, <3>1, <3>9, <3>10
  <2>4. CASE LenReturn(th)
    <3>1. pc'[th] = "idle"
      BY <2>4, <1>a DEF LenReturn, Goto
    <3> QED BY <3>1 DEF LenPCs
  <2> QED BY <2>1, <2>2, <2>3, <2>4 DEF LenCall
<1>4. ASSUME NEW u \in Threads PROVE Sampled(u)'
  <2>1. CASE u = th
    BY <2>1, <1>3
  <2>2. CASE u # th
    <3>1. Sampled(u)
      BY <1>c DEF Sampling
    <3> QED BY <1>1, <2>2, <3>1
  <2> QED BY <2>1, <2>2
<1>5. Sampling'
  BY <1>4 DEF Sampling
<1> QED BY <1>2, <1>5 DEF Measured

\* So it holds in every behaviour of fewer pushes than cursor values.
LEMMA AlwaysMeasured == ASSUME MaxPush < Modulus PROVE Spec => [](Typed /\ Ordered /\ Measured)
<1>1. Typed /\ Ordered /\ (Typed /\ Ordered)' /\ Measured /\ [Next]_vars => Measured'
  <2> SUFFICES ASSUME Typed, Ordered, Typed', Measured, [Next]_vars PROVE Measured'
    OBVIOUS
  <2>1. CASE UNCHANGED vars
    BY <2>1 DEF vars, Measured, Carried, Room, Sampling, observe
  <2>2. ASSUME NEW th \in Threads,
               Handles(th) \/ Push(th) \/ Pops(th) \/ Peek(th) \/ LenCall(th)
        PROVE  Measured'
    <3>1. pc \in [Threads -> PCs] /\ view \in [Threads -> View]
          /\ lhead \in [Threads -> 0 .. Modulus - 1] /\ ltail \in [Threads -> 0 .. Modulus - 1]
      BY DEF Typed, TypeOK
    <3>2. PushPCs \cap LenPCs = {} /\ PopPCs \cap LenPCs = {} /\ PopPCs \cap PushPCs = {}
          /\ "idle" \notin PushPCs \cup LenPCs
      BY DEF PushPCs, PopPCs, LenPCs
    <3>3. CASE Handles(th)
      <4>1. pc[th] = "idle" /\ UNCHANGED <<head, tail, pc, lhead, ltail, observe>>
            /\ \A u \in Threads \ {th} : view'[u] = view[u]
        BY <3>1, <3>3 DEF Handles, TryProducer, TryConsumer, DropProducer, DropConsumer
      <4> QED BY <3>2, <4>1, QuietMeasured DEF observe
    <3>4. CASE PushStore(th) \/ PopStore(th)
      BY <3>4, StoresMeasured
    <3>5. CASE PushLoadHead(th) \/ PushLoadTail(th) \/ PushWrite(th)
      <4>1. /\ UNCHANGED <<head, tail, ltail, observe>> /\ pc'[th] \in PushPCs \cup {"idle"}
            /\ Len(head) <= MaxPush \/ pc[th] \in PushPCs
            /\ \A u \in Threads \ {th} : pc'[u] = pc[u] /\ view'[u] = view[u] /\ lhead'[u] = lhead[u]
        BY <3>1, <3>5 DEF PushLoadHead, PushLoadTail, PushWrite, Goto, PushPCs
      <4> QED BY <3>2, <4>1, QuietMeasured DEF observe, Measured, Room
    <3>6. CASE (Pops(th) \/ Peek(th)) /\ ~PopStore(th)
      <4>1. /\ UNCHANGED <<head, tail, lhead, observe>> /\ pc'[th] \in PopPCs \cup {"idle"}
            /\ \A u \in Threads \ {th} : pc'[u] = pc[u] /\ view'[u] = view[u] /\ ltail'[u] = ltail[u]
        BY <3>1, <3>6 DEF Pops, Peek, StartPops, StartPeek, PopLoadTail, PeekLoadTail, LoadOwnTail,
              PopLoadHead, PeekLoadHead, LoadHead, LoadHeadAt, PopRead, PeekRead, StampRead,
              Goto, PopPCs
      <4> QED BY <3>2, <4>1, QuietMeasured DEF observe
    <3>7. CASE LenCall(th)
      BY <3>7, LenMeasured
    <3> QED BY <2>2, <3>3, <3>4, <3>5, <3>6, <3>7 DEF Push
  <2> QED BY <2>1, <2>2 DEF Next
<1> QED BY InitMeasured, AlwaysOrdered, <1>1, PTL DEF Spec

\* What len measures is the distance of two stores, wherever the cursors go on to.
LEMMA Difference ==
    ASSUME MaxPush < Modulus, Typed, Ordered, Measured, NEW th \in Threads, pc[th] = "len_ret"
    PROVE  /\ wrapping_sub(lhead[th], ltail[th]) = view[th].head - view[th].tail
           /\ view[th].tail \in 1 .. Len(tail) /\ view[th].head \in view[th].tail .. Len(head)
<1>1. /\ view[th].head \in 1 .. Len(head) /\ view[th].tail \in 1 .. Len(tail)
      /\ Len(head) \in Nat /\ Len(tail) \in Nat /\ MaxPush \in Nat /\ Modulus \in Nat
  <2>1. head \in Seq(Stores) /\ tail \in Seq(Stores)
    BY DEF Typed, TypeOK
  <2>2. Within(view[th], Len(head), Len(tail))
    BY DEF Typed, ViewsWithin
  <2> QED BY <2>1, <2>2, BoundAssumption, ModulusAssumption DEF Within
<1>2. /\ ltail[th] = Cursor(view[th].tail) /\ lhead[th] = Cursor(view[th].head)
      /\ view[th].tail <= view[th].head /\ Len(head) <= MaxPush + 1
  BY DEF Measured, Sampling, Room, LenPCs
<1>3. PICK h \in Nat, t \in Nat : h = view[th].head /\ t = view[th].tail
  BY <1>1
<1>4. h - t < Modulus /\ t <= h /\ h \in t .. Len(head)
  BY <1>1, <1>2, <1>3
<1>5. wrapping_sub(Cursor(h), Cursor(t)) = h - t
  BY <1>4, CursorSpan
<1> QED BY <1>1, <1>2, <1>3, <1>4, <1>5

\* len never exceeds the capacity, whatever moves between its loads: the second
\* load of tail shows that the head it read was at most N ahead.  As many pushes
\* as the cursors have values would defeat that comparison.
THEOREM LenWithin == ASSUME MaxPush < Modulus PROVE Spec => []LenBounded
<1>1. Typed /\ Ordered /\ Measured => LenBounded
  <2> SUFFICES ASSUME Typed, Ordered, Measured, NEW th \in Threads, pc[th] = "len_ret"
               PROVE  LenValue(th) <= N
    BY DEF LenBounded
  <2>1. wrapping_sub(lhead[th], ltail[th]) = view[th].head - view[th].tail
    BY Difference
  <2>2. attempt[th] < RETRY_LIMIT => view[th].head - view[th].tail <= N
    BY DEF Measured, Sampling
  <2>3. Clamp(wrapping_sub(lhead[th], ltail[th])) <= N
    <3>1. view[th].head \in Int /\ view[th].tail \in Int
      BY DEF Typed, ViewsWithin, Within, View
    <3> QED BY <2>1, <3>1, CapacityAssumption DEF Clamp
  <2> QED BY <2>1, <2>2, <2>3 DEF LenValue
<1> QED BY AlwaysMeasured, <1>1, PTL

\* len counts no event popped before the call as far as the caller knew, and
\* misses none it knew of that is still there, also when it falls back to the clamp.
THEOREM LenBetween == ASSUME MaxPush < Modulus PROVE Spec => []LenBracketed
<1>1. Typed /\ Ordered /\ Measured => LenBracketed
  <2> SUFFICES ASSUME Typed, Ordered, Measured, NEW th \in Threads, pc[th] = "len_ret"
               PROVE  /\ LenValue(th) <= Len(head) - since[th].tail
                      /\ LenValue(th) >= since[th].head - Len(tail)
    BY DEF LenBracketed
  <2>1. /\ Len(head) \in Nat /\ Len(tail) \in Nat /\ N \in Nat
        /\ since[th].head \in Nat /\ since[th].tail \in Nat
    <3>1. since \in [Threads -> View] /\ head \in Seq(Stores) /\ tail \in Seq(Stores)
      BY DEF Typed, TypeOK
    <3>2. since[th] \in View
      BY <3>1
    <3> QED BY <3>1, <3>2, CapacityAssumption DEF View
  <2>2. /\ since[th].head <= view[th].head /\ since[th].tail <= view[th].tail
        /\ Len(head) - Len(tail) <= N
    BY DEF Measured, Sampling, LenPCs, Ordered, Cursors
  <2>3. PICK h \in Nat, t \in Nat :
            /\ h = view[th].head /\ t = view[th].tail /\ t <= Len(tail) /\ t <= h /\ h <= Len(head)
            /\ wrapping_sub(lhead[th], ltail[th]) = h - t
    <3>1. view[th].head \in Nat /\ view[th].tail \in Nat
      BY DEF Typed, TypeOK, View
    <3>2. /\ view[th].tail \in 1 .. Len(tail) /\ view[th].head \in view[th].tail .. Len(head)
          /\ wrapping_sub(lhead[th], ltail[th]) = view[th].head - view[th].tail
      BY Difference
    <3> QED BY <2>1, <3>1, <3>2
  <2>4. LenValue(th) = h - t \/ LenValue(th) = Clamp(h - t)
    BY <2>3 DEF LenValue
  <2>5. LenValue(th) = h - t \/ (LenValue(th) = N /\ N <= h - t)
    BY <2>1, <2>4 DEF Clamp
  <2>6. PICK a \in Nat, b \in Nat, H \in Nat, T \in Nat, c \in Nat :
            a = since[th].head /\ b = since[th].tail /\ H = Len(head) /\ T = Len(tail) /\ c = N
    BY <2>1
  <2>7. a <= h /\ b <= t /\ H - T <= c /\ t <= T /\ t <= h /\ h <= H
    BY <2>2, <2>3, <2>6
  <2>8. LenValue(th) = h - t \/ (LenValue(th) = c /\ c <= h - t)
    BY <2>5, <2>6
  <2>9. LenValue(th) <= H - b /\ LenValue(th) >= a - T
    <3>1. CASE LenValue(th) = h - t
      BY <2>7, <3>1
    <3>2. CASE LenValue(th) = c /\ c <= h - t
      BY <2>7, <3>2
    <3> QED BY <2>8, <3>1, <3>2
  <2> QED BY <2>6, <2>9
<1> QED BY AlwaysMeasured, <1>1, PTL

=============================================================================
