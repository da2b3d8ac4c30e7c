---------------------------- MODULE Barrier_proofs ----------------------------
(***************************************************************************)
(* What Misc::Barrier promises, proved for any number of threads.  The     *)
(* facts are about one step, so that a module with several barriers can    *)
(* use them for each, and are then put together for the barrier alone.     *)
(***************************************************************************)
EXTENDS Barrier, FiniteSetTheorems, TLAPS

\* The inductive invariant: the counter is right and no thread is ahead.
IInv == TypeOK /\ CountsSleepers

\* A new barrier counts nobody.
THEOREM Initially ==
    ASSUME BarrierAssumption, Init
    PROVE  IInv
<1>1. TypeOK
  BY DEF Init, InitBarrier, TypeOK
<1>2. Arrived = {}
  BY DEF Init, InitBarrier, Arrived, BarrierAssumption
<1>3. QED
  BY <1>1, <1>2, FS_EmptySet DEF IInv, CountsSleepers, Init, InitBarrier

\* Arriving, opening and leaving keep the counter right.
THEOREM Inductive ==
    ASSUME BarrierAssumption, IInv, Next
    PROVE  IInv'
<1> USE DEF BarrierAssumption, IInv, TypeOK, CountsSleepers
<1>0. IsFiniteSet(Arrived)
  BY FS_Subset DEF Arrived
<1>1. ASSUME NEW t \in Threads, Arrive(t) PROVE IInv'
  <2>1. Arrived' = Arrived \cup {t} /\ t \notin Arrived
    BY <1>1 DEF Arrive, Arrived
  <2>2. Cardinality(Arrived') = Cardinality(Arrived) + 1
    BY <1>0, <2>1, FS_AddElement
  <2>3. barrier'.mRendezvousCount = barrier.mRendezvousCount + 1
    BY <1>1 DEF Arrive
  <2>4. TypeOK'
    <3>1. [barrier.mCurrent EXCEPT ![t] = barrier.mGeneration] \in [Threads -> Nat \cup {NotWaiting}]
      OBVIOUS
    <3>2. barrier' = [mRendezvousCount |-> barrier.mRendezvousCount + 1,
                      mGeneration |-> barrier.mGeneration,
                      mCurrent |-> [barrier.mCurrent EXCEPT ![t] = barrier.mGeneration]]
      BY <1>1 DEF Arrive
    <3>3. QED
      BY <3>1, <3>2, barrier.mRendezvousCount + 1 \in Nat
  <2>5. \A u \in Threads : barrier'.mCurrent[u] # NotWaiting
                           => barrier'.mCurrent[u] <= barrier'.mGeneration
    BY <1>1 DEF Arrive
  <2>6. QED
    BY <2>2, <2>3, <2>4, <2>5
<1>2. ASSUME NEW t \in Threads, Open(t) PROVE IInv'
  <2>1. Arrived' = {}
    BY <1>2 DEF Open, Arrived
  <2>2. barrier'.mRendezvousCount = 0
    BY <1>2 DEF Open
  <2>3. \A u \in Threads : barrier'.mCurrent[u] # NotWaiting
                           => barrier'.mCurrent[u] <= barrier'.mGeneration
    BY <1>2 DEF Open
  <2>4. TypeOK'
    BY <1>2, barrier.mGeneration + 1 \in Nat DEF Open
  <2>5. QED
    BY <2>1, <2>2, <2>3, <2>4, FS_EmptySet
<1>3. ASSUME NEW t \in Threads, Leave(t) PROVE IInv'
  <2>1. Arrived' = Arrived
    BY <1>3 DEF Leave, Arrived
  <2>2. barrier'.mRendezvousCount = barrier.mRendezvousCount /\ TypeOK'
    BY <1>3 DEF Leave
  <2>3. \A u \in Threads : barrier'.mCurrent[u] # NotWaiting
                           => barrier'.mCurrent[u] <= barrier'.mGeneration
    BY <1>3 DEF Leave
  <2>4. QED
    BY <2>1, <2>2, <2>3
<1>4. QED
  BY <1>1, <1>2, <1>3 DEF Next

\* Who opens the barrier is the only thread that does not sleep in this round.
THEOREM OpenedByTheLast ==
    ASSUME BarrierAssumption, IInv
    PROVE  OpenForAll
<1> SUFFICES ASSUME NEW t \in Threads, Open(t)
             PROVE  Arrived = Threads \ {t}
  BY DEF OpenForAll
<1>1. Arrived \subseteq Threads \ {t}
  BY DEF Open, Arrived, IInv, TypeOK, BarrierAssumption
<1>2. IsFiniteSet(Threads \ {t}) /\ Cardinality(Threads \ {t}) = Cardinality(Threads) - 1
  BY FS_RemoveElement DEF BarrierAssumption
<1>3. Cardinality(Threads) \in Nat
  BY FS_CardinalityType DEF BarrierAssumption
<1>4. Cardinality(Arrived) = Cardinality(Threads \ {t})
  BY <1>2, <1>3 DEF Open, IInv, TypeOK, CountsSleepers, BarrierAssumption
<1>5. QED
  BY <1>1, <1>2, <1>4, FS_Subset

\* The barrier alone: it counts the sleepers and opens for all of them.
THEOREM BarrierCorrect ==
    ASSUME BarrierAssumption
    PROVE  Spec => [](TypeOK /\ CountsSleepers) /\ OpensForAll
<1>1. Init => IInv
  BY Initially
<1>2. IInv /\ [Next]_barrier => IInv'
  <2>1. ASSUME IInv, UNCHANGED barrier PROVE IInv'
    BY <2>1 DEF IInv, TypeOK, CountsSleepers, Arrived
  <2>2. QED
    BY <2>1, Inductive
<1>3. IInv => OpenForAll
  BY OpenedByTheLast
<1>4. IInv => TypeOK /\ CountsSleepers
  BY DEF IInv
<1>5. QED
  BY <1>1, <1>2, <1>3, <1>4, PTL DEF Spec, OpensForAll

=============================================================================
