------------------------------ MODULE EventBuf ------------------------------
(***************************************************************************)
(* src/event_buf.rs: the bounded SPSC queue with backpressure, one action  *)
(* per access to shared memory.                                            *)
(*                                                                         *)
(* Memory model.  Each atomic cursor is the sequence of all stores made to *)
(* it (its modification order, position 1 being the value EventBuf::new    *)
(* gives it).  A thread has a view: for each cursor the newest store it is *)
(* already obliged to see, and which accesses to the slots happen before   *)
(* its next step.  A load returns any store at or after the view; an       *)
(* Acquire load also joins the view its Release store carries.  The u32    *)
(* values wrap at Modulus; Modulus is 2^32 in the code.                    *)
(***************************************************************************)
EXTENDS Integers, Sequences, FiniteSets

CONSTANTS N,           \* capacity, the const generic of EventBuf<T, N>
          Modulus,     \* number of values of the u32 cursors
          Start,       \* both cursors' value at Init: so many earlier events
                       \* have passed through the (again empty) buffer
          Val,         \* values a push may carry
          Uninit,      \* MaybeUninit::uninit()
          Producers,   \* threads that may ask for the producer handle
          Consumers,   \* threads that may ask for the consumer handle
          Observers,   \* threads that may call len, is_empty and is_full
          DrainMax,    \* largest max passed to drain
          MaxPush      \* bound: pushes accepted in one behaviour

Threads == Producers \cup Consumers \cup Observers

ASSUME CapacityAssumption == N \in Nat \ {0}
ASSUME ModulusAssumption == Modulus \in Nat /\ N < Modulus
ASSUME StartAssumption == Start \in 0 .. Modulus - 1
ASSUME UninitAssumption == Uninit \notin Val
ASSUME BoundAssumption == MaxPush \in Nat /\ DrainMax \in Nat

VARIABLES
    head,            \* stores to the head cursor: [val, view]
    tail,            \* stores to the tail cursor: [val, view]
    slots,           \* slot contents
    written, read,   \* per slot: stamp of its last write, of its last read
    producer_taken, consumer_taken,  \* the flags: [taken, view]
    prod, cons,      \* threads that hold a live Producer, a live Consumer
    view,            \* per thread: its view
    pc,              \* per thread: the next step of the call it is in
    lhead, ltail,    \* per thread: the locals head and tail of that call
    lval,            \* per thread: the local val
    left,            \* per thread: pops that pop (1) or drain may still do
    attempt,         \* per thread: the loop counter of len
    since,           \* per thread: view with which its call of len began
    accepted, popped \* history: values push accepted, values pop returned

cells   == <<slots, written, read>>
flags   == <<producer_taken, consumer_taken, prod, cons>>
observe == <<attempt, since>>
history == <<accepted, popped>>
vars    == <<head, tail, cells, flags, view, pc, lhead, ltail, lval, left,
             observe, history>>

-----------------------------------------------------------------------------
(* Views *)

\* head, tail: position in the modification order; wr, rd: slot writes and
\* slot reads with a stamp up to this one happen before the thread's next step.
View == [head : Nat, tail : Nat, wr : Nat, rd : Nat]

Fresh == [head |-> 1, tail |-> 1, wr |-> 0, rd |-> 0]

MaxOf(a, b) == IF a < b THEN b ELSE a

Join(v, w) == [head |-> MaxOf(v.head, w.head), tail |-> MaxOf(v.tail, w.tail),
               wr |-> MaxOf(v.wr, w.wr),       rd |-> MaxOf(v.rd, w.rd)]

\* The view after a load that returned the store at position i.
SawHead(v, i) == [v EXCEPT !.head = i]
SawTail(v, i) == [v EXCEPT !.tail = i]

\* The same for an Acquire load, of a cursor whose store i carries the view m.
AcquireHead(v, i, m) == Join(SawHead(v, i), m)
\* Mutant: the load is Relaxed.
AcquireTail_Relaxed(v, i, m) == SawTail(v, i)

AcquireTail(v, i, m) == Join(SawTail(v, i), m)

-----------------------------------------------------------------------------
(* u32 arithmetic and the tests of the code *)

\* Mutant: the cursor is advanced without wrapping.
wrapping_add_NoWrap(a, b) == a + b

wrapping_add(a, b) == (a + b) % Modulus
wrapping_sub(a, b) == (a - b) % Modulus

slot_index(pos) == pos % N

\* Mutants: one event too many, one too few, a difference that does not wrap.
Full_Late(h, t) == wrapping_sub(h, t) > N
Full_Early(h, t) == wrapping_sub(h, t) >= N - 1
Full_NoWrap(h, t) == h - t >= N

Full(h, t) == wrapping_sub(h, t) >= N

Clamp(n) == IF n < N THEN n ELSE N

RETRY_LIMIT == 2

-----------------------------------------------------------------------------
Init ==
    /\ head = <<[val |-> Start, view |-> Fresh]>>
    /\ tail = <<[val |-> Start, view |-> Fresh]>>
    /\ slots = [i \in 0 .. N - 1 |-> Uninit]
    /\ written = [i \in 0 .. N - 1 |-> 0]
    /\ read = [i \in 0 .. N - 1 |-> 0]
    /\ producer_taken = [taken |-> FALSE, view |-> Fresh]
    /\ consumer_taken = [taken |-> FALSE, view |-> Fresh]
    /\ prod = {} /\ cons = {}
    /\ view = [th \in Threads |-> Fresh]
    /\ pc = [th \in Threads |-> "idle"]
    /\ lhead = [th \in Threads |-> 0]
    /\ ltail = [th \in Threads |-> 0]
    /\ lval = [th \in Threads |-> Uninit]
    /\ left = [th \in Threads |-> 0]
    /\ attempt = [th \in Threads |-> 0]
    /\ since = [th \in Threads |-> Fresh]
    /\ accepted = <<>> /\ popped = <<>>

Goto(th, l) == pc' = [pc EXCEPT ![th] = l]

-----------------------------------------------------------------------------
(* Handles.  The swap(true, AcqRel) is one atomic step; so is the Release  *)
(* store of Drop.                                                          *)

Swapped(flag, th) == [taken |-> TRUE, view |-> Join(flag.view, view[th])]

\* Mutants: the store of Drop is Relaxed; Drop forgets the flag.
Released_Relaxed(th) == [taken |-> FALSE, view |-> Fresh]
Released_Kept(th) == [taken |-> TRUE, view |-> view[th]]

Released(th) == [taken |-> FALSE, view |-> view[th]]

TryProducer(th) ==
    /\ th \in Producers /\ pc[th] = "idle"
    /\ prod' = IF producer_taken.taken THEN prod ELSE prod \cup {th}
    /\ producer_taken' = Swapped(producer_taken, th)
    /\ view' = [view EXCEPT ![th] = Join(@, producer_taken.view)]
    /\ UNCHANGED <<head, tail, cells, consumer_taken, cons, pc, lhead, ltail,
                   lval, left, observe, history>>

TryConsumer(th) ==
    /\ th \in Consumers /\ pc[th] = "idle"
    /\ cons' = IF consumer_taken.taken THEN cons ELSE cons \cup {th}
    /\ consumer_taken' = Swapped(consumer_taken, th)
    /\ view' = [view EXCEPT ![th] = Join(@, consumer_taken.view)]
    /\ UNCHANGED <<head, tail, cells, producer_taken, prod, pc, lhead, ltail,
                   lval, left, observe, history>>

DropProducer(th) ==
    /\ th \in prod /\ pc[th] = "idle"
    /\ prod' = prod \ {th}
    /\ producer_taken' = Released(th)
    /\ UNCHANGED <<head, tail, cells, consumer_taken, cons, view, pc, lhead,
                   ltail, lval, left, observe, history>>

DropConsumer(th) ==
    /\ th \in cons /\ pc[th] = "idle"
    /\ cons' = cons \ {th}
    /\ consumer_taken' = Released(th)
    /\ UNCHANGED <<head, tail, cells, producer_taken, prod, view, pc, lhead,
                   ltail, lval, left, observe, history>>

-----------------------------------------------------------------------------
(* Producer::push *)

PushLoadHead(th) ==
    /\ th \in prod /\ pc[th] = "idle" /\ Len(head) <= MaxPush
    /\ \E v \in Val, i \in view[th].head .. Len(head) :
          /\ lval' = [lval EXCEPT ![th] = v]
          /\ lhead' = [lhead EXCEPT ![th] = head[i].val]
          /\ view' = [view EXCEPT ![th] = SawHead(@, i)]
    /\ Goto(th, "push_tail")
    /\ UNCHANGED <<head, tail, cells, flags, ltail, left, observe, history>>

\* The Acquire load of tail and the test for a full buffer; Err(val) returns.
PushLoadTail(th) ==
    /\ pc[th] = "push_tail"
    /\ \E i \in view[th].tail .. Len(tail) :
          /\ view' = [view EXCEPT ![th] = AcquireTail(@, i, tail[i].view)]
          /\ \/ /\ Full(lhead[th], tail[i].val)
                /\ lval' = [lval EXCEPT ![th] = Uninit]
                /\ lhead' = [lhead EXCEPT ![th] = 0]
                /\ Goto(th, "idle")
             \/ /\ ~Full(lhead[th], tail[i].val)
                /\ Goto(th, "push_write")
                /\ UNCHANGED <<lval, lhead>>
    /\ UNCHANGED <<head, tail, cells, flags, ltail, left, observe, history>>

PushWrite(th) ==
    LET idx == slot_index(lhead[th]) IN
    /\ pc[th] = "push_write"
    /\ slots' = [slots EXCEPT ![idx] = lval[th]]
    /\ written' = [written EXCEPT ![idx] = view[th].head]
    /\ view' = [view EXCEPT ![th].wr = view[th].head]
    /\ Goto(th, "push_store")
    /\ UNCHANGED <<head, tail, read, flags, lhead, ltail, lval, left, observe,
                   history>>

\* The Release store that publishes the slot; Ok(()) returns.
PushStore(th) ==
    LET new == SawHead(view[th], Len(head) + 1) IN
    /\ pc[th] = "push_store"
    /\ head' = Append(head, [val |-> wrapping_add(lhead[th], 1), view |-> new])
    /\ view' = [view EXCEPT ![th] = new]
    /\ accepted' = Append(accepted, lval[th])
    /\ lval' = [lval EXCEPT ![th] = Uninit]
    /\ lhead' = [lhead EXCEPT ![th] = 0]
    /\ Goto(th, "idle")
    /\ UNCHANGED <<tail, cells, flags, ltail, left, observe, popped>>

-----------------------------------------------------------------------------
(* Consumer::pop, peek and drain.  pop is a drain of at most one event     *)
(* whose value goes to the caller; drain(0) touches nothing.               *)

StartPops(th) ==
    /\ th \in cons /\ pc[th] = "idle"
    /\ \E max \in 1 .. DrainMax : left' = [left EXCEPT ![th] = max]
    /\ Goto(th, "pop_tail")
    /\ UNCHANGED <<head, tail, cells, flags, view, lhead, ltail, lval, observe,
                   history>>

StartPeek(th) ==
    /\ th \in cons /\ pc[th] = "idle"
    /\ Goto(th, "peek_tail")
    /\ UNCHANGED <<head, tail, cells, flags, view, lhead, ltail, lval, left,
                   observe, history>>

LoadOwnTail(th, from, to) ==
    /\ pc[th] = from
    /\ \E i \in view[th].tail .. Len(tail) :
          /\ ltail' = [ltail EXCEPT ![th] = tail[i].val]
          /\ view' = [view EXCEPT ![th] = SawTail(@, i)]
    /\ Goto(th, to)
    /\ UNCHANGED <<head, tail, cells, flags, lhead, lval, left, observe, history>>

\* The Acquire load of head that returned store i, and the test for an empty
\* buffer; None returns, and ends a drain.
LoadHeadAt(th, from, to, i) ==
    /\ pc[th] = from
    /\ view' = [view EXCEPT ![th] = AcquireHead(@, i, head[i].view)]
    /\ \/ /\ head[i].val = ltail[th]
          /\ ltail' = [ltail EXCEPT ![th] = 0]
          /\ left' = [left EXCEPT ![th] = 0]
          /\ Goto(th, "idle")
       \/ /\ head[i].val # ltail[th]
          /\ Goto(th, to)
          /\ UNCHANGED <<ltail, left>>
    /\ UNCHANGED <<head, tail, cells, flags, lhead, lval, observe, history>>

LoadHead(th, from, to) ==
    \E i \in view[th].head .. Len(head) : LoadHeadAt(th, from, to, i)

\* with(|slot| assume_init_read()): the stamp orders it before the next tail store.
StampRead(th) ==
    /\ read' = [read EXCEPT ![slot_index(ltail[th])] = view[th].tail]
    /\ view' = [view EXCEPT ![th].rd = view[th].tail]
    /\ UNCHANGED <<slots, written>>

PopLoadTail(th) == LoadOwnTail(th, "pop_tail", "pop_head")
PopLoadHead(th) == LoadHead(th, "pop_head", "pop_read")

PopRead(th) ==
    /\ pc[th] = "pop_read"
    /\ lval' = [lval EXCEPT ![th] = slots[slot_index(ltail[th])]]
    /\ StampRead(th)
    /\ Goto(th, "pop_store")
    /\ UNCHANGED <<head, tail, flags, lhead, ltail, left, observe, history>>

\* The Release store that frees the slot; Some(val) returns, or drain goes on.
PopStore(th) ==
    LET new == SawTail(view[th], Len(tail) + 1) IN
    /\ pc[th] = "pop_store"
    /\ tail' = Append(tail, [val |-> wrapping_add(ltail[th], 1), view |-> new])
    /\ view' = [view EXCEPT ![th] = new]
    /\ popped' = Append(popped, lval[th])
    /\ lval' = [lval EXCEPT ![th] = Uninit]
    /\ ltail' = [ltail EXCEPT ![th] = 0]
    /\ left' = [left EXCEPT ![th] = @ - 1]
    /\ Goto(th, IF left[th] > 1 THEN "pop_tail" ELSE "idle")
    /\ UNCHANGED <<head, cells, flags, lhead, observe, accepted>>

PeekLoadTail(th) == LoadOwnTail(th, "peek_tail", "peek_head")
PeekLoadHead(th) == LoadHead(th, "peek_head", "peek_read")

PeekRead(th) ==
    /\ pc[th] = "peek_read"
    /\ StampRead(th)
    /\ ltail' = [ltail EXCEPT ![th] = 0]
    /\ Goto(th, "idle")
    /\ UNCHANGED <<head, tail, flags, lhead, lval, left, observe, history>>

-----------------------------------------------------------------------------
(* EventBuf::len, which any thread may call at any time *)

LenTail1(th) ==
    /\ \/ /\ th \in Observers /\ pc[th] = "idle"
          /\ since' = [since EXCEPT ![th] = view[th]]
       \/ pc[th] = "len_tail" /\ UNCHANGED since
    /\ \E i \in view[th].tail .. Len(tail) :
          /\ ltail' = [ltail EXCEPT ![th] = tail[i].val]
          /\ view' = [view EXCEPT ![th] = AcquireTail(@, i, tail[i].view)]
    /\ Goto(th, "len_head")
    /\ UNCHANGED <<head, tail, cells, flags, lhead, lval, left, attempt, history>>

\* The Relaxed load of head; the clamped fallback has nothing left to do.
LenHead(th) ==
    /\ pc[th] = "len_head"
    /\ \E i \in view[th].head .. Len(head) :
          /\ lhead' = [lhead EXCEPT ![th] = head[i].val]
          /\ view' = [view EXCEPT ![th] = SawHead(@, i)]
    /\ Goto(th, IF attempt[th] < RETRY_LIMIT THEN "len_fence" ELSE "len_ret")
    /\ UNCHANGED <<head, tail, cells, flags, ltail, lval, left, observe, history>>

\* Mutant: no fence before the second load of tail.
Fence_Missing(v) == v

\* fence(Acquire): the view of the store the Relaxed load of head returned.
Fence(v) == Join(v, head[v.head].view)

LenTail2(th) ==
    /\ pc[th] = "len_fence"
    /\ \E i \in Fence(view[th]).tail .. Len(tail) :
          /\ view' = [view EXCEPT ![th] = SawTail(Fence(@), i)]
          /\ \/ /\ tail[i].val = ltail[th]
                /\ Goto(th, "len_ret")
                /\ UNCHANGED attempt
             \/ /\ tail[i].val # ltail[th]
                /\ attempt' = [attempt EXCEPT ![th] = @ + 1]
                /\ Goto(th, "len_tail")
    /\ UNCHANGED <<head, tail, cells, flags, lhead, ltail, lval, left, since,
                   history>>

\* The value len returns from "len_ret".
LenValue(th) ==
    LET d == wrapping_sub(lhead[th], ltail[th])
    IN  IF attempt[th] < RETRY_LIMIT THEN d ELSE Clamp(d)

LenReturn(th) ==
    /\ pc[th] = "len_ret"
    /\ lhead' = [lhead EXCEPT ![th] = 0]
    /\ ltail' = [ltail EXCEPT ![th] = 0]
    /\ attempt' = [attempt EXCEPT ![th] = 0]
    /\ since' = [since EXCEPT ![th] = Fresh]
    /\ Goto(th, "idle")
    /\ UNCHANGED <<head, tail, cells, flags, view, lval, left, history>>

-----------------------------------------------------------------------------
Handles(th) == \/ TryProducer(th) \/ DropProducer(th)
               \/ TryConsumer(th) \/ DropConsumer(th)
Push(th) == PushLoadHead(th) \/ PushLoadTail(th) \/ PushWrite(th) \/ PushStore(th)
Pops(th) == \/ StartPops(th) \/ PopLoadTail(th) \/ PopLoadHead(th)
            \/ PopRead(th) \/ PopStore(th)
Peek(th) == \/ StartPeek(th) \/ PeekLoadTail(th) \/ PeekLoadHead(th)
            \/ PeekRead(th)
LenCall(th) == LenTail1(th) \/ LenHead(th) \/ LenTail2(th) \/ LenReturn(th)

Next == \E th \in Threads :
            Handles(th) \/ Push(th) \/ Pops(th) \/ Peek(th) \/ LenCall(th)

Spec == Init /\ [][Next]_vars

\* What a consumer that keeps polling can count on: every call is a bounded
\* sequence of steps, a thread that holds the handle polls again and again, and
\* a store becomes visible to a load that is repeated for ever.
Fairness ==
    \A th \in Threads :
        /\ WF_vars(TryConsumer(th))
        /\ SF_vars(StartPops(th))
        /\ SF_vars(LoadHeadAt(th, "pop_head", "pop_read", Len(head)))
        /\ WF_vars(PopLoadTail(th) \/ PopLoadHead(th) \/ PopRead(th) \/ PopStore(th))
        /\ WF_vars(PeekLoadTail(th) \/ PeekLoadHead(th) \/ PeekRead(th))
        /\ WF_vars(PushLoadTail(th) \/ PushWrite(th) \/ PushStore(th))
        /\ WF_vars(pc[th] # "idle" /\ LenCall(th))

FairSpec == Spec /\ Fairness

-----------------------------------------------------------------------------
(* Properties *)

Stores == [val : 0 .. Modulus - 1, view : View]

PCs == {"idle", "push_tail", "push_write", "push_store", "pop_tail",
        "pop_head", "pop_read", "pop_store", "peek_tail", "peek_head",
        "peek_read", "len_tail", "len_head", "len_fence", "len_ret"}

\* Type invariant: cursors stay u32 values, stamps and views stay natural.
TypeOK ==
    /\ head \in Seq(Stores) /\ tail \in Seq(Stores)
    /\ slots \in [0 .. N - 1 -> Val \cup {Uninit}]
    /\ written \in [0 .. N - 1 -> Nat] /\ read \in [0 .. N - 1 -> Nat]
    /\ producer_taken \in [taken : BOOLEAN, view : View]
    /\ consumer_taken \in [taken : BOOLEAN, view : View]
    /\ prod \subseteq Producers /\ cons \subseteq Consumers
    /\ view \in [Threads -> View]
    /\ pc \in [Threads -> PCs]
    /\ lhead \in [Threads -> 0 .. Modulus - 1]
    /\ ltail \in [Threads -> 0 .. Modulus - 1]
    /\ lval \in [Threads -> Val \cup {Uninit}]
    /\ left \in [Threads -> 0 .. DrainMax]
    /\ attempt \in [Threads -> 0 .. RETRY_LIMIT]
    /\ since \in [Threads -> View]
    /\ accepted \in Seq(Val \cup {Uninit})
    /\ popped \in Seq(Val \cup {Uninit})

\* "The producer and consumer never touch the same slot": every slot access
\* about to be made happens after every earlier conflicting access to that
\* slot, whoever held the handles then, so no access is a data race.
NoSlotRace ==
    \A th \in Threads :
        /\ pc[th] = "push_write" =>
              /\ written[slot_index(lhead[th])] <= view[th].wr
              /\ read[slot_index(lhead[th])] <= view[th].rd
        /\ pc[th] \in {"pop_read", "peek_read"} =>
              written[slot_index(ltail[th])] <= view[th].wr

\* pop and peek are about to read the oldest event that was not popped yet.
OldestInPlace ==
    \A th \in Threads : pc[th] \in {"pop_read", "peek_read"} =>
        /\ Len(popped) < Len(accepted)
        /\ slots[slot_index(ltail[th])] = accepted[Len(popped) + 1]

\* Backpressure without silent loss: what was popped is a prefix of what was
\* accepted, and no more than N events are between the two.
NothingLost ==
    /\ Len(popped) <= Len(accepted)
    /\ Len(accepted) - Len(popped) <= N
    /\ popped = SubSeq(accepted, 1, Len(popped))

\* The buffer as the bounded FIFO queue it promises to be.
Queue == INSTANCE EventQueue
    WITH Capacity <- N,
         queue <- SubSeq(accepted, Len(popped) + 1, Len(accepted)),
         delivered <- popped
ImplementsQueue == Queue!Spec

AnswerStep ==
    \A th \in Threads :
        /\ (pc[th] = "push_tail" /\ pc'[th] = "idle") =>
              /\ Len(head) - view'[th].tail >= N
              /\ th \in cons => Len(accepted) - Len(popped) = N
        /\ (pc[th] \in {"pop_head", "peek_head"} /\ pc'[th] = "idle") =>
              /\ view'[th].head = Len(tail)
              /\ th \in prod => Len(accepted) = Len(popped)

\* push answers Err only if the tail it saw left no room, pop and peek answer
\* None only if every event they could see was popped; a thread that holds
\* both handles is told exactly.
AnswersJustified == [][AnswerStep]_vars

\* len never exceeds the capacity, whatever the cursors do between its loads.
LenBounded == \A th \in Threads : pc[th] = "len_ret" => LenValue(th) <= N

\* len counts no event that was popped before the call as far as the caller
\* knew, and misses none it knew of that is still there: the clamped fallback
\* neither underflows nor invents events.
LenBracketed ==
    \A th \in Threads : pc[th] = "len_ret" =>
        /\ LenValue(th) <= Len(head) - since[th].tail
        /\ LenValue(th) >= since[th].head - Len(tail)

\* Every accepted event is eventually popped by a consumer that keeps polling.
EventuallyDelivered ==
    \A k \in 1 .. MaxPush : (Len(accepted) >= k) ~> (Len(popped) >= k)
=============================================================================
