------------------------------- MODULE Barrier -------------------------------
(***************************************************************************)
(* Misc::Barrier: threads stop until all of them have arrived; the last to *)
(* arrive runs a callback and opens the barrier, which is used again at    *)
(* once.  wait is cut where its mutex is released, in mRendezvous.wait.    *)
(***************************************************************************)
EXTENDS Integers, FiniteSets

CONSTANTS
    Threads,        \* the threads that meet
    mThreadCount,   \* how many the constructor was told to wait for
    NotWaiting      \* model value: a thread that does not sleep in mRendezvous.wait

\* What is needed of them is assumed where the module is used.
BarrierAssumption ==
    IsFiniteSet(Threads) /\ mThreadCount = Cardinality(Threads) /\ NotWaiting \notin Nat

\* mCurrent[t] is currentGeneration of thread t when it sleeps in mRendezvous.wait.
VARIABLE barrier

InitBarrier == [mRendezvousCount |-> 0, mGeneration |-> 0,
                mCurrent |-> [t \in Threads |-> NotWaiting]]

Init == barrier = InitBarrier

\* ++mRendezvousCount of a thread that is not the last: it goes to sleep.
Arrive(t) ==
    /\ barrier.mCurrent[t] = NotWaiting
    /\ barrier.mRendezvousCount + 1 # mThreadCount
    /\ barrier' = [barrier EXCEPT !.mRendezvousCount = @ + 1,
                                  !.mCurrent[t] = barrier.mGeneration]

OpenEarly(t) ==                                          \* mutant
    /\ barrier.mCurrent[t] = NotWaiting
    /\ barrier.mRendezvousCount + 2 >= mThreadCount
    /\ barrier' = [barrier EXCEPT !.mRendezvousCount = 0, !.mGeneration = @ + 1]

\* The last thread: func() and notify_all, without leaving the mutex.
Open(t) ==
    /\ barrier.mCurrent[t] = NotWaiting
    /\ barrier.mRendezvousCount + 1 = mThreadCount
    /\ barrier' = [barrier EXCEPT !.mRendezvousCount = 0, !.mGeneration = @ + 1]

\* A sleeper finds that the generation has changed.
Leave(t) ==
    /\ barrier.mCurrent[t] # NotWaiting
    /\ barrier.mGeneration # barrier.mCurrent[t]
    /\ barrier' = [barrier EXCEPT !.mCurrent[t] = NotWaiting]

Next == \E t \in Threads : Arrive(t) \/ Open(t) \/ Leave(t)

Spec == Init /\ [][Next]_barrier

-----------------------------------------------------------------------------
\* The threads that sleep in the round that is not complete yet.
Arrived == { t \in Threads : barrier.mCurrent[t] = barrier.mGeneration }

\* The type invariant of the module.
TypeOK ==
    barrier \in [mRendezvousCount : Nat, mGeneration : Nat,
                 mCurrent : [Threads -> Nat \cup {NotWaiting}]]

\* mRendezvousCount counts the threads that sleep in this round and no others: one
\* that has not woken yet from a round that is open is not counted.  (wait uses
\* the barrier again at once, before the threads of the last round have left.)
CountsSleepers ==
    /\ barrier.mRendezvousCount = Cardinality(Arrived)
    /\ \A t \in Threads : barrier.mCurrent[t] # NotWaiting => barrier.mCurrent[t] <= barrier.mGeneration

\* When the callback runs every other thread sleeps in the same round.
OpenForAll == \A t \in Threads : Open(t) => Arrived = Threads \ {t}

\* "stop execution of threads until count distinct threads reach this point"
OpensForAll == [][OpenForAll]_barrier

=============================================================================
