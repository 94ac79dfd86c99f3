------------------------------ MODULE StaticSpsc ------------------------------
(***************************************************************************)
(* src/macros.rs: the module static_spsc! declares, one action per access  *)
(* to the claim flags of its static buffer.  take() claims the two flags   *)
(* one after the other and rolls the first back if the second is taken;    *)
(* buffer() lets anyone claim one handle alone.  Both arms of the macro,   *)
(* EventBuf and SeqRing, are this protocol.                                *)
(*                                                                         *)
(* What the handles protect is the state only their owner writes (the      *)
(* cursor, the slots): work counts the updates of each side, and a view    *)
(* says how many of them a thread is obliged to see.                       *)
(***************************************************************************)
EXTENDS Integers, FiniteSets

CONSTANTS Takers,     \* threads that call take()
          Users,      \* threads that use try_producer, try_consumer of buffer()
          MaxWork     \* bound: updates of one side

ASSUME SpscBoundAssumption == MaxWork \in Nat

Threads == Takers \cup Users
Roles   == {"producer", "consumer"}

VARIABLES
    flag,       \* per role, producer_taken and consumer_taken: [taken, view]
    owners,     \* per role: threads that own a live handle, take() included
    pc,         \* per thread: "idle", or inside take()
    view,       \* per thread and role: the updates it is obliged to see
    work        \* per role: updates made by its owners

vars == <<flag, owners, pc, view, work>>

Nothing == [r \in Roles |-> 0]

Join(u, v) == [r \in Roles |-> IF u[r] < v[r] THEN v[r] ELSE u[r]]

Init ==
    /\ flag = [r \in Roles |-> [taken |-> FALSE, view |-> Nothing]]
    /\ owners = [r \in Roles |-> {}]
    /\ pc = [th \in Threads |-> "idle"]
    /\ view = [th \in Threads |-> Nothing]
    /\ work = Nothing

Goto(th, from, to) == pc[th] = from /\ pc' = [pc EXCEPT ![th] = to]

-----------------------------------------------------------------------------
(* The claim flags *)

Claimed(r) == ~flag[r].taken

\* try_producer, try_consumer: swap(true, AcqRel).
Swap(th, r) ==
    /\ flag' = [flag EXCEPT ![r] = [taken |-> TRUE, view |-> Join(@.view, view[th])]]
    /\ view' = [view EXCEPT ![th] = Join(@, flag[r].view)]
    /\ owners' = IF Claimed(r) THEN [owners EXCEPT ![r] = @ \cup {th}] ELSE owners
    /\ UNCHANGED work

\* Mutant: the store of drop is Relaxed.
Released_Relaxed(th) == [taken |-> FALSE, view |-> Nothing]

Released(th) == [taken |-> FALSE, view |-> view[th]]

\* drop: a Release store.
Drop(th, r) ==
    /\ th \in owners[r]
    /\ owners' = [owners EXCEPT ![r] = @ \ {th}]
    /\ flag' = [flag EXCEPT ![r] = Released(th)]
    /\ UNCHANGED <<view, work>>

-----------------------------------------------------------------------------
(* take() *)

Both(th) == \A r \in Roles : th \in owners[r]

Neither(th) == \A r \in Roles : th \notin owners[r]

TakeTx(th) ==
    /\ th \in Takers
    /\ Goto(th, "idle", IF Claimed("producer") THEN "rx" ELSE "idle")
    /\ Swap(th, "producer")

TakeRx(th) ==
    /\ Goto(th, "rx", IF Claimed("consumer") THEN "idle" ELSE "roll back")
    /\ Swap(th, "consumer")

\* Mutant: the producer handle is forgotten, not dropped.
RollBack_Forgets(th) ==
    /\ Goto(th, "roll back", "idle")
    /\ owners' = [owners EXCEPT !["producer"] = @ \ {th}]
    /\ UNCHANGED <<flag, view, work>>

RollBack(th) ==
    /\ Goto(th, "roll back", "idle")
    /\ Drop(th, "producer")

-----------------------------------------------------------------------------
(* The owners of handles, and the users of buffer() *)

Try(th, r) ==
    /\ th \in Users /\ pc[th] = "idle"
    /\ Swap(th, r)
    /\ UNCHANGED pc

Release(th, r) ==
    /\ pc[th] = "idle"
    /\ Drop(th, r)
    /\ UNCHANGED pc

\* A push or a pop.
Work(th, r) ==
    /\ pc[th] = "idle" /\ th \in owners[r]
    /\ work[r] < MaxWork
    /\ work' = [work EXCEPT ![r] = @ + 1]
    /\ view' = [view EXCEPT ![th][r] = work[r] + 1]
    /\ UNCHANGED <<flag, owners, pc>>

Next == \E th \in Threads :
            \/ TakeTx(th) \/ TakeRx(th) \/ RollBack(th)
            \/ \E r \in Roles : Try(th, r) \/ Release(th, r) \/ Work(th, r)

Spec == Init /\ [][Next]_vars

\* Threads keep calling take(), finish the call, and drop what they got in the
\* end, although they may call take() again before that.
Fairness == \A th \in Threads :
                /\ WF_vars(TakeTx(th) /\ Neither(th))
                /\ WF_vars(TakeRx(th) \/ RollBack(th))
                /\ \A r \in Roles : SF_vars(Release(th, r))

FairSpec == Spec /\ Fairness

-----------------------------------------------------------------------------
(* Properties *)

\* Type invariant.
TypeOK ==
    /\ flag \in [Roles -> [taken : BOOLEAN, view : [Roles -> Nat]]]
    /\ owners \in [Roles -> SUBSET Threads]
    /\ pc \in [Threads -> {"idle", "rx", "roll back"}]
    /\ view \in [Threads -> [Roles -> Nat]]
    /\ work \in [Roles -> Nat]

\* There is at most one handle of each kind, and a flag is set exactly while a
\* handle, or a take() that has not finished, accounts for it: a failed take
\* strands neither flag, however many calls race.
NothingStranded ==
    \A r \in Roles :
        /\ Cardinality(owners[r]) <= 1
        /\ flag[r].taken <=> owners[r] # {}

\* An owner sees all that earlier owners of the same handle did, also when
\* failed takes and rolled back claims came in between.
HandoffVisible ==
    \A r \in Roles, th \in Threads : th \in owners[r] => view[th][r] = work[r]

\* Somebody gets both handles again and again, unless single handles are claimed
\* past take(): failing calls that hold the producer handle for a while cannot
\* starve all.
TakeSucceeds ==
    []<>(\/ \E th \in Takers : Both(th) /\ pc[th] = "idle"
         \/ \E th \in Users : ~Neither(th))
=============================================================================
