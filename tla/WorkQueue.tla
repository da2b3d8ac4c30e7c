------------------------------ MODULE WorkQueue ------------------------------
(***************************************************************************)
(* SceneUtil::WorkQueue: background threads take work items from one       *)
(* queue.  Items are added, waited for and finally dropped by one thread,  *)
(* the main thread.  Steps are cut where a mutex is released or an atomic  *)
(* is read; what an item does is added by the module that instantiates     *)
(* this one.                                                               *)
(***************************************************************************)
EXTENDS Sequences, FiniteSets, SequencesExt

CONSTANTS
    Item,   \* work items: one that nobody refers to may stand for a new one
    Thread, \* mThreads
    NoItem  \* model value: the null reference

\* Assumed by CellPreloader, and by the theorems of WorkQueue_proofs.
ItemAssumption == NoItem \notin Item

VARIABLES
    mQueue, mIsReleased,
    mDone,    \* the items whose mDone is set
    pc, item, \* of each thread: where it is, the reference it holds
    awaited,  \* the item whose waitTillDone the main thread is in
    asleep    \* the main thread sleeps in WorkItem::mCondition

vars == <<mQueue, mIsReleased, mDone, pc, item, awaited, asleep>>

\* "asleep" in WorkQueue::mCondition; "signal" after doWork; "notify" after mDone is set.
ThreadPCs == {"loop", "asleep", "work", "signal", "notify", "ended"}

Init ==
    /\ mQueue = <<>>
    /\ mIsReleased = FALSE
    /\ mDone = {}
    /\ pc = [t \in Thread |-> "loop"]
    /\ item = [t \in Thread |-> NoItem]
    /\ awaited = NoItem
    /\ asleep = FALSE

Go(t, place) == pc' = [pc EXCEPT ![t] = place]

Held == { item[t] : t \in Thread } \ {NoItem}
Known == ToSet(mQueue) \cup Held \* items the queue and its threads refer to

-----------------------------------------------------------------------------
(* The main thread.                                                        *)

Sleepers == { t \in Thread : pc[t] = "asleep" }

notify_one ==
    \/ Sleepers = {} /\ pc' = pc
    \/ \E t \in Sleepers : Go(t, "loop")

\* i has just been made, so it is not done.
addWorkItem(i, front) ==
    /\ awaited = NoItem
    /\ i \notin Known
    /\ mQueue' = IF front THEN <<i>> \o mQueue ELSE Append(mQueue, i)
    /\ mDone' = mDone \ {i}
    /\ notify_one
    /\ UNCHANGED <<mIsReleased, item, awaited, asleep>>

\* The caller goes on when awaited is NoItem again, at once if i is done.
waitTillDone(i) ==
    /\ awaited = NoItem
    /\ awaited' = IF i \in mDone THEN NoItem ELSE i
    /\ UNCHANGED <<mQueue, mIsReleased, mDone, pc, item, asleep>>

\* while (!mDone) mCondition.wait(lock)
CheckDone ==
    /\ awaited # NoItem
    /\ ~asleep
    /\ IF awaited \in mDone
       THEN awaited' = NoItem /\ asleep' = asleep
       ELSE awaited' = awaited /\ asleep' = TRUE
    /\ UNCHANGED <<mQueue, mIsReleased, mDone, pc, item>>

\* ~WorkQueue up to joining the threads: what is queued is dropped, not signalled.
Release ==
    /\ awaited = NoItem
    /\ ~mIsReleased
    /\ mQueue' = <<>>
    /\ mIsReleased' = TRUE
    /\ pc' = [t \in Thread |-> IF pc[t] = "asleep" THEN "loop" ELSE pc[t]]
    /\ UNCHANGED <<mDone, item, awaited, asleep>>

-----------------------------------------------------------------------------
(* WorkThread::run.                                                        *)

removePeeked(t) ==                                        \* mutant: front without pop_front
    /\ pc[t] = "loop"
    /\ IF mQueue # <<>>
       THEN /\ item' = [item EXCEPT ![t] = Head(mQueue)]
            /\ Go(t, "work")
       ELSE /\ Go(t, IF mIsReleased THEN "ended" ELSE "asleep")
            /\ item' = item
    /\ UNCHANGED <<mQueue, mIsReleased, mDone, awaited, asleep>>

removeWorkItem(t) ==
    /\ pc[t] = "loop"
    /\ IF mQueue # <<>>
       THEN /\ item' = [item EXCEPT ![t] = Head(mQueue)]
            /\ mQueue' = Tail(mQueue)
            /\ Go(t, "work")
       ELSE /\ Go(t, IF mIsReleased THEN "ended" ELSE "asleep")
            /\ UNCHANGED <<mQueue, item>>
    /\ UNCHANGED <<mIsReleased, mDone, awaited, asleep>>

SpuriousWakeup(t) ==
    /\ pc[t] = "asleep"
    /\ Go(t, "loop")
    /\ UNCHANGED <<mQueue, mIsReleased, mDone, item, awaited, asleep>>

doWork(t) ==
    /\ pc[t] = "work"
    /\ Go(t, "signal")
    /\ UNCHANGED <<mQueue, mIsReleased, mDone, item, awaited, asleep>>

signalDone(t) ==
    /\ pc[t] = "signal"
    /\ mDone' = mDone \cup {item[t]}
    /\ Go(t, "notify")
    /\ UNCHANGED <<mQueue, mIsReleased, item, awaited, asleep>>

NotifyNobody(t) ==                                        \* mutant
    /\ pc[t] = "notify"
    /\ item' = [item EXCEPT ![t] = NoItem]
    /\ Go(t, "loop")
    /\ UNCHANGED <<mQueue, mIsReleased, mDone, awaited, asleep>>

\* mCondition.notify_all(), after the mutex was released; the reference is dropped.
NotifyAll(t) ==
    /\ pc[t] = "notify"
    /\ asleep' = (asleep /\ awaited # item[t])
    /\ item' = [item EXCEPT ![t] = NoItem]
    /\ Go(t, "loop")
    /\ UNCHANGED <<mQueue, mIsReleased, mDone, awaited>>

\* What a thread does apart from doWork.
Run(t) == removeWorkItem(t) \/ signalDone(t) \/ NotifyAll(t)

Next ==
    \/ \E i \in Item, front \in BOOLEAN : addWorkItem(i, front)
    \/ \E i \in Known : waitTillDone(i)
    \/ CheckDone
    \/ Release
    \/ \E t \in Thread : Run(t) \/ doWork(t) \/ SpuriousWakeup(t)

Spec == Init /\ [][Next]_vars

-----------------------------------------------------------------------------
\* The type invariant of the queue and its threads.
TypeOK ==
    /\ mQueue \in Seq(Item)
    /\ mIsReleased \in BOOLEAN
    /\ mDone \subseteq Item
    /\ pc \in [Thread -> ThreadPCs]
    /\ item \in [Thread -> Item \cup {NoItem}]
    /\ awaited \in Item \cup {NoItem}
    /\ asleep \in BOOLEAN

Working(t) == pc[t] \in {"work", "signal"}

\* An item is in one place: queued once, or held by one thread; it is not done
\* before its doWork has returned.
EachItemOnce ==
    /\ \A i, j \in DOMAIN mQueue : mQueue[i] = mQueue[j] => i = j
    /\ \A s, t \in Thread : item[s] = item[t] /\ item[s] # NoItem => s = t
    /\ ToSet(mQueue) \cap (Held \cup mDone) = {}
    /\ \A t \in Thread : Working(t) => item[t] \notin mDone

\* Refinement: the queue, its threads and their wake-ups do what WorkItems promises.
Items == INSTANCE WorkItems WITH
    pending <- mQueue,
    running <- { item[t] : t \in { s \in Thread : Working(s) } },
    finished <- mDone

ImplementsWorkItems == Items!Spec

=============================================================================
