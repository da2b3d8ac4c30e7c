--------------------- MODULE PhysicsTaskScheduler_proofs ---------------------
(***************************************************************************)
(* Proofs about PhysicsTaskScheduler, for any number of workers, actors    *)
(* and objects, any settings and bounds: its barriers are what Barrier     *)
(* says, it keeps its types, workers stay inside of the frame data, each   *)
(* actor is moved once in each step of a frame that is done completely,    *)
(* and objects and lines of sight are up to date when they are used.       *)
(***************************************************************************)
EXTENDS PhysicsTaskScheduler, FiniteSetTheorems, TLAPS

PreStepFacts == INSTANCE Barrier_proofs
    WITH Threads <- Workers, mThreadCount <- mNumThreads, barrier <- mPreStepBarrier
PostStepFacts == INSTANCE Barrier_proofs
    WITH Threads <- Workers, mThreadCount <- mNumThreads, barrier <- mPostStepBarrier
PostSimFacts == INSTANCE Barrier_proofs
    WITH Threads <- Workers, mThreadCount <- mNumThreads, barrier <- mPostSimBarrier

-----------------------------------------------------------------------------
(* The barriers.                                                           *)

\* All workers, and only they, meet at each of the barriers.
LEMMA WorkersMeet ==
    PreStepFacts!BarrierAssumption /\ PostStepFacts!BarrierAssumption /\ PostSimFacts!BarrierAssumption
<1>1. PreStepFacts!BarrierAssumption
  BY WorkersAssumption
  DEF PreStepFacts!BarrierAssumption, IsFiniteSet, PreStepFacts!IsFiniteSet,
      Cardinality, PreStepFacts!Cardinality, mNumThreads
<1>2. PostStepFacts!BarrierAssumption
  BY WorkersAssumption
  DEF PostStepFacts!BarrierAssumption, IsFiniteSet, PostStepFacts!IsFiniteSet,
      Cardinality, PostStepFacts!Cardinality, mNumThreads
<1>3. PostSimFacts!BarrierAssumption
  BY WorkersAssumption
  DEF PostSimFacts!BarrierAssumption, IsFiniteSet, PostSimFacts!IsFiniteSet,
      Cardinality, PostSimFacts!Cardinality, mNumThreads
<1>4. QED
  BY <1>1, <1>2, <1>3

\* The three barriers as the scheduler uses them.
BarriersInit == PreStep!Init /\ PostStep!Init /\ PostSim!Init

BarriersStep ==
    /\ [PreStep!Next]_mPreStepBarrier
    /\ [PostStep!Next]_mPostStepBarrier
    /\ [PostSim!Next]_mPostSimBarrier

\* A step of the scheduler is a step of at most one barrier.
LEMMA SchedulerStepsBarriers == [Next]_vars => BarriersStep
<1> SUFFICES ASSUME [Next]_vars PROVE BarriersStep
  OBVIOUS
<1>1. CASE UNCHANGED barrierVars
  BY <1>1 DEF barrierVars, BarriersStep
<1>2. ASSUME NEW w \in Workers, WaitPreStep(w) PROVE BarriersStep
  BY <1>2 DEF WaitPreStep, BarriersStep, PreStep!Next
<1>3. ASSUME NEW w \in Workers, LeavePreStep(w) PROVE BarriersStep
  BY <1>3 DEF LeavePreStep, BarriersStep, PreStep!Next
<1>4. ASSUME NEW w \in Workers, WaitPostStep(w) PROVE BarriersStep
  BY <1>4 DEF WaitPostStep, BarriersStep, PostStep!Next
<1>5. ASSUME NEW w \in Workers, LeavePostStep(w) PROVE BarriersStep
  BY <1>5 DEF LeavePostStep, BarriersStep, PostStep!Next
<1>6. ASSUME NEW w \in Workers, WaitPostSim(w) PROVE BarriersStep
  BY <1>6 DEF WaitPostSim, BarriersStep, PostSim!Next
<1>7. ASSUME NEW w \in Workers, LeavePostSim(w) PROVE BarriersStep
  BY <1>7 DEF LeavePostSim, BarriersStep, PostSim!Next
<1>8. CASE MainStart \/ MainStep
  BY <1>1, <1>8
  DEF MainStart, AddActor, RemoveActor, MoveObject, getLineOfSight, CallMoveActors,
      CallResetSimulation, CallDestructor, Call, MainStep, updateSingleAabb, moveActors,
      notify_all, resetSimulation, Quit, Join, workersUnchanged
<1>9. CASE Terminated \/ UNCHANGED vars
  BY <1>1, <1>9 DEF Terminated, vars
<1>10. ASSUME NEW w \in Workers,
              \/ Start(w) \/ Loop(w) \/ Wake(w) \/ SpuriousWakeup(w)
              \/ ClaimMove(w) \/ SkipMoves(w) \/ Move(w)
              \/ ClaimFall(w) \/ handleFall(w) \/ LockLOSCache(w) \/ RefreshLOS(w)
       PROVE  BarriersStep
  BY <1>1, <1>10
  DEF Start, Loop, Wake, SpuriousWakeup, ClaimMove, SkipMoves, Move, ClaimFall, handleFall,
      LockLOSCache, RefreshLOS, Claim
<1>11. QED
  BY <1>2, <1>3, <1>4, <1>5, <1>6, <1>7, <1>8, <1>9, <1>10 DEF Next, Worker

\* The scheduler's use of each barrier is a behaviour that Barrier allows: workers
\* arrive only when they are not asleep there already, and leave only when woken.
THEOREM ImplementsBarriers == Spec => PreStep!Spec /\ PostStep!Spec /\ PostSim!Spec
<1>1. Init => BarriersInit
  BY DEF Init, BarriersInit
<1>2. [Next]_vars => BarriersStep
  BY SchedulerStepsBarriers
<1>3. QED
  BY <1>1, <1>2, PTL DEF Spec, BarriersInit, BarriersStep, PreStep!Spec, PostStep!Spec, PostSim!Spec

\* At each barrier the count is the number of workers that sleep in this round.
BarriersInv == PreStepFacts!IInv /\ PostStepFacts!IInv /\ PostSimFacts!IInv

\* The invariant of mPreStepBarrier.
LEMMA PreStepInv ==
    /\ PreStep!Init => PreStepFacts!IInv
    /\ PreStepFacts!IInv /\ [PreStep!Next]_mPreStepBarrier => PreStepFacts!IInv'
    /\ PreStepFacts!IInv => PreStep!TypeOK /\ PreStep!CountsSleepers /\ PreStep!OpenForAll
<1>1. PreStepFacts!BarrierAssumption
  BY WorkersMeet
<1>2. PreStep!Init => PreStepFacts!IInv
  BY <1>1, PreStepFacts!Initially
  DEF PreStep!Init, PreStepFacts!Init, PreStep!InitBarrier, PreStepFacts!InitBarrier
<1>3. PreStep!Next => PreStepFacts!Next
  BY DEF PreStep!Next, PreStepFacts!Next, PreStep!Arrive, PreStepFacts!Arrive, PreStep!Open, PreStepFacts!Open, PreStep!Leave, PreStepFacts!Leave
<1>4. PreStepFacts!IInv /\ PreStep!Next => PreStepFacts!IInv'
  BY <1>1, <1>3, PreStepFacts!Inductive
<1>5. PreStepFacts!IInv /\ UNCHANGED mPreStepBarrier => PreStepFacts!IInv'
  BY DEF PreStepFacts!IInv, PreStepFacts!TypeOK, PreStepFacts!CountsSleepers, PreStepFacts!Arrived
<1>6. PreStepFacts!IInv => PreStep!OpenForAll
  BY <1>1, PreStepFacts!OpenedByTheLast
  DEF PreStep!OpenForAll, PreStepFacts!OpenForAll, PreStep!Open, PreStepFacts!Open, PreStep!Arrived, PreStepFacts!Arrived
<1>7. PreStepFacts!IInv => PreStep!TypeOK /\ PreStep!CountsSleepers
  BY DEF PreStepFacts!IInv, PreStepFacts!TypeOK, PreStep!TypeOK, PreStepFacts!CountsSleepers, PreStep!CountsSleepers,
         PreStepFacts!Arrived, PreStep!Arrived, PreStepFacts!Cardinality, PreStep!Cardinality
<1>8. QED
  BY <1>2, <1>4, <1>5, <1>6, <1>7

\* The invariant of mPostStepBarrier.
LEMMA PostStepInv ==
    /\ PostStep!Init => PostStepFacts!IInv
    /\ PostStepFacts!IInv /\ [PostStep!Next]_mPostStepBarrier => PostStepFacts!IInv'
    /\ PostStepFacts!IInv => PostStep!TypeOK /\ PostStep!CountsSleepers /\ PostStep!OpenForAll
<1>1. PostStepFacts!BarrierAssumption
  BY WorkersMeet
<1>2. PostStep!Init => PostStepFacts!IInv
  BY <1>1, PostStepFacts!Initially
  DEF PostStep!Init, PostStepFacts!Init, PostStep!InitBarrier, PostStepFacts!InitBarrier
<1>3. PostStep!Next => PostStepFacts!Next
  BY DEF PostStep!Next, PostStepFacts!Next, PostStep!Arrive, PostStepFacts!Arrive, PostStep!Open, PostStepFacts!Open, PostStep!Leave, PostStepFacts!Leave
<1>4. PostStepFacts!IInv /\ PostStep!Next => PostStepFacts!IInv'
  BY <1>1, <1>3, PostStepFacts!Inductive
<1>5. PostStepFacts!IInv /\ UNCHANGED mPostStepBarrier => PostStepFacts!IInv'
  BY DEF PostStepFacts!IInv, PostStepFacts!TypeOK, PostStepFacts!CountsSleepers, PostStepFacts!Arrived
<1>6. PostStepFacts!IInv => PostStep!OpenForAll
  BY <1>1, PostStepFacts!OpenedByTheLast
  DEF PostStep!OpenForAll, PostStepFacts!OpenForAll, PostStep!Open, PostStepFacts!Open, PostStep!Arrived, PostStepFacts!Arrived
<1>7. PostStepFacts!IInv => PostStep!TypeOK /\ PostStep!CountsSleepers
  BY DEF PostStepFacts!IInv, PostStepFacts!TypeOK, PostStep!TypeOK, PostStepFacts!CountsSleepers, PostStep!CountsSleepers,
         PostStepFacts!Arrived, PostStep!Arrived, PostStepFacts!Cardinality, PostStep!Cardinality
<1>8. QED
  BY <1>2, <1>4, <1>5, <1>6, <1>7

\* The invariant of mPostSimBarrier.
LEMMA PostSimInv ==
    /\ PostSim!Init => PostSimFacts!IInv
    /\ PostSimFacts!IInv /\ [PostSim!Next]_mPostSimBarrier => PostSimFacts!IInv'
    /\ PostSimFacts!IInv => PostSim!TypeOK /\ PostSim!CountsSleepers /\ PostSim!OpenForAll
<1>1. PostSimFacts!BarrierAssumption
  BY WorkersMeet
<1>2. PostSim!Init => PostSimFacts!IInv
  BY <1>1, PostSimFacts!Initially
  DEF PostSim!Init, PostSimFacts!Init, PostSim!InitBarrier, PostSimFacts!InitBarrier
<1>3. PostSim!Next => PostSimFacts!Next
  BY DEF PostSim!Next, PostSimFacts!Next, PostSim!Arrive, PostSimFacts!Arrive, PostSim!Open, PostSimFacts!Open, PostSim!Leave, PostSimFacts!Leave
<1>4. PostSimFacts!IInv /\ PostSim!Next => PostSimFacts!IInv'
  BY <1>1, <1>3, PostSimFacts!Inductive
<1>5. PostSimFacts!IInv /\ UNCHANGED mPostSimBarrier => PostSimFacts!IInv'
  BY DEF PostSimFacts!IInv, PostSimFacts!TypeOK, PostSimFacts!CountsSleepers, PostSimFacts!Arrived
<1>6. PostSimFacts!IInv => PostSim!OpenForAll
  BY <1>1, PostSimFacts!OpenedByTheLast
  DEF PostSim!OpenForAll, PostSimFacts!OpenForAll, PostSim!Open, PostSimFacts!Open, PostSim!Arrived, PostSimFacts!Arrived
<1>7. PostSimFacts!IInv => PostSim!TypeOK /\ PostSim!CountsSleepers
  BY DEF PostSimFacts!IInv, PostSimFacts!TypeOK, PostSim!TypeOK, PostSimFacts!CountsSleepers, PostSim!CountsSleepers,
         PostSimFacts!Arrived, PostSim!Arrived, PostSimFacts!Cardinality, PostSim!Cardinality
<1>8. QED
  BY <1>2, <1>4, <1>5, <1>6, <1>7

\* BarriersInv holds and is inductive.
LEMMA BarriersInvStep ==
    /\ Init => BarriersInv
    /\ BarriersInv /\ [Next]_vars => BarriersInv'
<1>1. Init => BarriersInv
  BY PreStepInv, PostStepInv, PostSimInv DEF Init, BarriersInv
<1>2. BarriersInv /\ [Next]_vars => BarriersInv'
  BY PreStepInv, PostStepInv, PostSimInv, SchedulerStepsBarriers DEF BarriersInv, BarriersStep
<1>3. QED
  BY <1>1, <1>2

\* The callbacks of the three barriers run while all other workers sleep there.
THEOREM BarriersOpen == Spec => BarriersOpenForAll
<1> DEFINE AllOpen == PreStep!OpenForAll /\ PostStep!OpenForAll /\ PostSim!OpenForAll
<1>1. BarriersInv => AllOpen
  BY PreStepInv, PostStepInv, PostSimInv DEF BarriersInv
<1>2. QED
  BY <1>1, BarriersInvStep, PTL DEF Spec, BarriersOpenForAll

-----------------------------------------------------------------------------
(* Types.                                                                  *)

\* The type invariant by groups of variables.
FrameTypes ==
    /\ mActorsFrameData \in Seq(Actors)
    /\ mNumJobs \in Nat /\ mRemainingSteps \in Nat /\ mNextJob \in Nat /\ mNextLOS \in Nat
    /\ mNewFrame \in BOOLEAN /\ mQuit \in BOOLEAN
AabbTypes == mUpdateAabb \subseteq Objects /\ transform \in [Objects -> Transforms]
CacheTypes == mLOSCache \in Seq(LOSRequest)
WorkerTypes == pc \in [Workers -> WorkerPCs] /\ job \in [Workers -> Nat]
MainTypes == main \in MainPCs /\ target \in Objects
SceneTypes == scene \subseteq Actors /\ former \subseteq Actors
HistoryTypes ==
    /\ frames \in Nat /\ steps \in Nat /\ done \in Nat
    /\ moved \in Seq(Nat) /\ fell \in Seq(Nat) /\ resetEarly \in BOOLEAN

TypeInv ==
    /\ FrameTypes /\ AabbTypes /\ CacheTypes /\ WorkerTypes /\ MainTypes /\ SceneTypes
    /\ HistoryTypes /\ BarriersInv

\* TypeInv is the type invariant, and what the barriers add to it.
LEMMA TypeInvIsTypeOK == TypeInv => TypeOK
<1> SUFFICES ASSUME TypeInv PROVE TypeOK
  OBVIOUS
<1>1. PreStep!TypeOK /\ PostStep!TypeOK /\ PostSim!TypeOK
  BY PreStepInv, PostStepInv, PostSimInv DEF TypeInv, BarriersInv
<1>2. QED
  BY <1>1 DEF TypeInv, TypeOK, FrameTypes, AabbTypes, CacheTypes, WorkerTypes, MainTypes,
              SceneTypes, HistoryTypes

LEMMA TypeInvInit == Init => TypeInv
<1> SUFFICES ASSUME Init PROVE TypeInv
  OBVIOUS
<1>0. /\ <<>> \in Seq(Actors) /\ <<>> \in Seq(LOSRequest) /\ <<>> \in Seq(Nat)
      /\ FALSE \in BOOLEAN /\ 0 \in Nat
  OBVIOUS
<1>1. FrameTypes /\ CacheTypes /\ SceneTypes
  <2>1. FrameTypes
    BY <1>0, Zenon DEF Init, FrameTypes
  <2>2. CacheTypes
    BY <1>0, Zenon DEF Init, CacheTypes
  <2>3. SceneTypes
    BY SceneAssumption DEF Init, SceneTypes
  <2>4. QED
    BY <2>1, <2>2, <2>3
<1>2. AabbTypes
  BY DEF Init, AabbTypes, Transforms
<1>3. WorkerTypes /\ MainTypes
  BY DEF Init, WorkerTypes, MainTypes, WorkerPCs, MainPCs
<1>4. HistoryTypes
  BY <1>0, Zenon DEF Init, HistoryTypes
<1>5. QED
  BY <1>1, <1>2, <1>3, <1>4, BarriersInvStep DEF TypeInv

\* Setting a worker's place, and its job.
LEMMA GoTypes ==
    ASSUME WorkerTypes, NEW w \in Workers, NEW place \in WorkerPCs, Go(w, place),
           job' = job \/ \E j \in Nat : job' = [job EXCEPT ![w] = j]
    PROVE  WorkerTypes'
BY DEF WorkerTypes, Go

\* A request keeps its type while it is handled, in its place in the cache.
LEMMA RefreshedTypes ==
    ASSUME SceneTypes, CacheTypes, NEW i \in 1..Len(mLOSCache)
    PROVE  [mLOSCache EXCEPT ![i] = Refreshed(@)] \in Seq(LOSRequest)
<1>1. mLOSCache[i] \in LOSRequest
  BY DEF CacheTypes
<1>2. Refreshed(mLOSCache[i]) \in LOSRequest
  <2>1. ASSUME NEW req \in LOSRequest
        PROVE  /\ [req EXCEPT !.mAge = @ + 1, !.mStale = TRUE] \in LOSRequest
               /\ [req EXCEPT !.mAge = @ + 1, !.fresh = TRUE] \in LOSRequest
    <3>1. req.mAge + 1 \in Nat
      BY DEF LOSRequest
    <3>2. QED
      BY <3>1 DEF LOSRequest
  <2>2. QED
    BY <1>1, <2>1 DEF Refreshed
<1>3. QED
  BY <1>2 DEF CacheTypes

\* What is left of the cache is a cache.
LEMMA EraseStaleTypes ==
    ASSUME CacheTypes, EraseStale
    PROVE  CacheTypes'
<1> DEFINE kept == { i \in 1..Len(mLOSCache) : NotStale(mLOSCache[i]) }
           n == Cardinality(kept)
<1>1. PICK order \in Increasing(n, kept) : mLOSCache' = [i \in 1..n |-> mLOSCache[order[i]]]
  BY DEF EraseStale
<1>2. n \in Nat
  <2>1. IsFiniteSet(1..Len(mLOSCache))
    BY FS_Interval DEF CacheTypes
  <2>2. IsFiniteSet(kept)
    BY <2>1, FS_Subset
  <2>3. QED
    BY <2>2, FS_CardinalityType
<1> HIDE DEF n
<1>3. \A i \in 1..n : order[i] \in 1..Len(mLOSCache)
  BY <1>1 DEF Increasing
<1> HIDE DEF kept
<1>4. \A i \in 1..n : mLOSCache[order[i]] \in LOSRequest
  BY <1>3 DEF CacheTypes
<1>5. QED
  BY <1>1, <1>2, <1>4 DEF CacheTypes

\* Claiming a job keeps the types.
LEMMA ClaimTypes ==
    ASSUME TypeInv, NEW w \in Workers, NEW handle \in WorkerPCs, NEW next \in WorkerPCs,
           Claim(w, handle, next), BarriersInv'
    PROVE  TypeInv'
<1>1. WorkerTypes'
  BY DEF TypeInv, FrameTypes, WorkerTypes, Claim, Go
<1>2. FrameTypes'
  BY DEF TypeInv, FrameTypes, Claim
<1>3. QED
  BY <1>1, <1>2 DEF TypeInv, AabbTypes, CacheTypes, MainTypes, SceneTypes, HistoryTypes, Claim,
                    aabbVars, mainVars, sceneVars, history

\* One more for a job.
LEMMA CountTypes ==
    ASSUME NEW counts \in Seq(Nat), NEW j
    PROVE  Count(counts, j) \in Seq(Nat)
<1>1. CASE j \in DOMAIN counts
  <2>1. counts[j] + 1 \in Nat
    BY <1>1
  <2>2. QED
    BY <1>1, <2>1 DEF Count
<1>2. CASE j \notin DOMAIN counts
  BY <1>2 DEF Count
<1>3. QED
  BY <1>1, <1>2

\* Steps of a worker that only move on.
LEMMA WalkTypes ==
    ASSUME TypeInv, BarriersInv', NEW w \in Workers, NEW place \in WorkerPCs, Go(w, place),
           UNCHANGED <<frameVars, aabbVars, mLOSCache, job, mainVars, sceneVars, history>>
    PROVE  TypeInv'
<1>1. WorkerTypes'
  BY GoTypes DEF TypeInv
<1>2. QED
  BY <1>1 DEF TypeInv, FrameTypes, AabbTypes, CacheTypes, MainTypes, SceneTypes, HistoryTypes,
              frameVars, aabbVars, mainVars, sceneVars, history

\* The steps of a worker keep the types.
LEMMA WorkerTypesKept ==
    ASSUME TypeInv, BarriersInv', NEW w \in Workers, Worker(w) \/ SpuriousWakeup(w)
    PROVE  TypeInv'
<1> USE DEF WorkerPCs
<1>1. CASE Start(w)
  BY <1>1, WalkTypes DEF Start
<1>2. CASE Loop(w)
  BY <1>2, WalkTypes DEF Loop
<1>3. CASE Wake(w)
  BY <1>3, WalkTypes DEF Wake
<1>4. CASE SpuriousWakeup(w)
  BY <1>4, WalkTypes DEF SpuriousWakeup
<1>5. CASE WaitPreStep(w)
  <2>1. CASE PreStep!Arrive(w) /\ Go(w, "preStepWait") /\ UNCHANGED <<frameVars, aabbVars, mLOSCache, history>>
    BY <1>5, <2>1, WalkTypes DEF WaitPreStep
  <2>2. CASE PreStep!Open(w) /\ Go(w, "move") /\ afterPreStep
    <3>1. WorkerTypes'
      BY <1>5, <2>2, GoTypes DEF WaitPreStep, TypeInv
    <3>2. AabbTypes'
      BY <2>2 DEF afterPreStep, Committed, TypeInv, AabbTypes, aabbVars, Transforms
    <3>3. QED
      BY <1>5, <2>2, <3>1, <3>2
      DEF WaitPreStep, afterPreStep, TypeInv, FrameTypes, CacheTypes, MainTypes, SceneTypes,
          HistoryTypes, frameVars, mainVars, sceneVars, history
  <2>3. QED
    BY <1>5, <2>1, <2>2 DEF WaitPreStep
<1>6. CASE LeavePreStep(w)
  BY <1>6, WalkTypes DEF LeavePreStep
<1>7. CASE ClaimMove(w)
  BY <1>7, ClaimTypes DEF ClaimMove
<1>8. CASE SkipMoves(w)
  BY <1>8, WalkTypes DEF SkipMoves
<1>9. CASE Move(w)
  <2>1. WorkerTypes'
    BY <1>9, GoTypes DEF Move, TypeInv
  <2>2. moved' \in Seq(Nat)
    BY <1>9, CountTypes DEF Move, TypeInv, HistoryTypes
  <2>3. QED
    BY <1>9, <2>1, <2>2
    DEF Move, TypeInv, FrameTypes, AabbTypes, CacheTypes, MainTypes, SceneTypes, HistoryTypes,
        frameVars, aabbVars, mainVars, sceneVars
<1>10. CASE WaitPostStep(w)
  <2>1. CASE PostStep!Arrive(w) /\ Go(w, "postStepWait") /\ UNCHANGED <<frameVars, history>>
    BY <1>10, <2>1, WalkTypes DEF WaitPostStep
  <2>2. CASE PostStep!Open(w) /\ afterPostStep /\ AfterStep(w, mRemainingSteps')
    <3>1. WorkerTypes'
      BY <1>10, <2>2, GoTypes DEF WaitPostStep, AfterStep, TypeInv
    <3>2. FrameTypes' /\ HistoryTypes'
      BY <2>2 DEF afterPostStep, TypeInv, FrameTypes, HistoryTypes
    <3>3. QED
      BY <1>10, <3>1, <3>2
      DEF WaitPostStep, TypeInv, AabbTypes, CacheTypes, MainTypes, SceneTypes, aabbVars, mainVars, sceneVars
  <2>3. QED
    BY <1>10, <2>1, <2>2 DEF WaitPostStep
<1>11. CASE LeavePostStep(w)
  BY <1>11, WalkTypes DEF LeavePostStep, AfterStep
<1>12. CASE ClaimFall(w)
  BY <1>12, ClaimTypes DEF ClaimFall
<1>13. CASE handleFall(w)
  <2>1. WorkerTypes'
    BY <1>13, GoTypes DEF handleFall, TypeInv
  <2>2. fell' \in Seq(Nat)
    BY <1>13, CountTypes DEF handleFall, TypeInv, HistoryTypes
  <2>3. QED
    BY <1>13, <2>1, <2>2
    DEF handleFall, TypeInv, FrameTypes, AabbTypes, CacheTypes, MainTypes, SceneTypes, HistoryTypes,
        frameVars, aabbVars, mainVars, sceneVars
<1>14. CASE LockLOSCache(w)
  BY <1>14, WalkTypes DEF LockLOSCache
<1>15. CASE RefreshLOS(w)
  <2>1. WorkerTypes'
    BY <1>15, GoTypes DEF RefreshLOS, TypeInv, WorkerTypes
  <2>2. FrameTypes'
    BY <1>15 DEF RefreshLOS, TypeInv, FrameTypes
  <2>3. CacheTypes'
    <3>1. CASE mNextLOS < Len(mLOSCache)
      <4>1. mNextLOS + 1 \in 1..Len(mLOSCache)
        BY <3>1 DEF TypeInv, FrameTypes, CacheTypes
      <4>2. QED
        BY <1>15, <3>1, <4>1, RefreshedTypes DEF RefreshLOS, TypeInv, CacheTypes
    <3>2. CASE ~(mNextLOS < Len(mLOSCache))
      BY <1>15, <3>2 DEF RefreshLOS, TypeInv, CacheTypes
    <3>3. QED
      BY <3>1, <3>2
  <2>4. QED
    BY <1>15, <2>1, <2>2, <2>3
    DEF RefreshLOS, TypeInv, AabbTypes, MainTypes, SceneTypes, HistoryTypes,
        aabbVars, mainVars, sceneVars, history
<1>16. CASE WaitPostSim(w)
  <2>1. CASE PostSim!Arrive(w) /\ Go(w, "postSimWait") /\ UNCHANGED <<frameVars, mLOSCache>>
    BY <1>16, <2>1, WalkTypes DEF WaitPostSim
  <2>2. CASE PostSim!Open(w) /\ Go(w, "loop") /\ afterPostSim
    <3>1. WorkerTypes'
      BY <1>16, <2>2, GoTypes DEF WaitPostSim, TypeInv
    <3>2. FrameTypes'
      BY <2>2 DEF afterPostSim, TypeInv, FrameTypes
    <3>3. CacheTypes'
      BY <2>2, EraseStaleTypes DEF afterPostSim, TypeInv, CacheTypes
    <3>4. QED
      BY <1>16, <3>1, <3>2, <3>3
      DEF WaitPostSim, TypeInv, AabbTypes, MainTypes, SceneTypes, HistoryTypes,
          aabbVars, mainVars, sceneVars, history
  <2>3. QED
    BY <1>16, <2>1, <2>2 DEF WaitPostSim
<1>17. CASE LeavePostSim(w)
  BY <1>17, WalkTypes DEF LeavePostSim
<1>18. QED
  BY <1>1, <1>2, <1>3, <1>4, <1>5, <1>6, <1>7, <1>8, <1>9, <1>10, <1>11, <1>12, <1>13, <1>14,
     <1>15, <1>16, <1>17
  DEF Worker

\* The frame data is a sequence of as many actors as the scene has.
LEMMA FrameDataTypes ==
    ASSUME SceneTypes, NEW data \in FrameData
    PROVE  data \in Seq(Actors) /\ Len(data) \in Nat
<1>1. Cardinality(scene) \in Nat
  BY SceneAssumption, FS_Subset, FS_CardinalityType DEF SceneTypes
<1>2. data \in [1..Cardinality(scene) -> scene]
  BY DEF FrameData
<1>3. QED
  BY <1>1, <1>2 DEF SceneTypes

\* The steps of the main thread keep the types.
LEMMA MainTypesKept ==
    ASSUME TypeInv, BarriersInv', MainStart \/ MainStep
    PROVE  TypeInv'
<1> USE DEF MainPCs
<1>1. ASSUME NEW a \in Actors, AddActor(a) \/ RemoveActor(a) PROVE TypeInv'
  BY <1>1
  DEF AddActor, RemoveActor, workersUnchanged, workerVars, TypeInv, FrameTypes, AabbTypes, CacheTypes,
      WorkerTypes, MainTypes, SceneTypes, HistoryTypes, frameVars, aabbVars, mainVars, sceneVars, history
<1>2. ASSUME NEW o \in Objects, MoveObject(o) PROVE TypeInv'
  BY <1>2
  DEF MoveObject, workersUnchanged, workerVars, TypeInv, FrameTypes, AabbTypes, CacheTypes, Transforms,
      WorkerTypes, MainTypes, SceneTypes, HistoryTypes, frameVars, mainVars, sceneVars, history
<1>3. ASSUME NEW p \in Pairs, getLineOfSight(p) PROVE TypeInv'
  <2> DEFINE touched == [i \in 1..Len(mLOSCache) |->
                           IF mLOSCache[i].pair = p THEN [mLOSCache[i] EXCEPT !.mAge = 0] ELSE mLOSCache[i]]
  <2>1. \A i \in 1..Len(mLOSCache) : mLOSCache[i] \in LOSRequest
    BY DEF TypeInv, CacheTypes
  <2>2. ASSUME NEW req \in LOSRequest PROVE [req EXCEPT !.mAge = 0] \in LOSRequest
    BY DEF LOSRequest
  <2>3. touched \in Seq(LOSRequest)
    BY <2>1, <2>2 DEF TypeInv, CacheTypes
  <2>4. Append(mLOSCache, NewRequest(p)) \in Seq(LOSRequest)
    BY DEF NewRequest, LOSRequest, TypeInv, CacheTypes
  <2>5. mLOSCache' = touched \/ mLOSCache' = Append(mLOSCache, NewRequest(p)) \/ mLOSCache' = mLOSCache
    BY <1>3 DEF getLineOfSight
  <2>6. CacheTypes'
    BY <2>3, <2>4, <2>5 DEF TypeInv, CacheTypes
  <2>7. QED
    BY <1>3, <2>6
    DEF getLineOfSight, workersUnchanged, workerVars, TypeInv, FrameTypes, AabbTypes, WorkerTypes, MainTypes,
        SceneTypes, HistoryTypes, frameVars, aabbVars, mainVars, sceneVars, history
<1>4. ASSUME NEW place \in {"moveActors", "resetSimulation", "destroy"}, Call(place) PROVE TypeInv'
  BY <1>4
  DEF Call, workersUnchanged, workerVars, TypeInv, FrameTypes, AabbTypes, CacheTypes,
      WorkerTypes, MainTypes, SceneTypes, HistoryTypes, frameVars, aabbVars, sceneVars, history
<1>5. CASE updateSingleAabb
  BY <1>5
  DEF updateSingleAabb, workersUnchanged, workerVars, TypeInv, FrameTypes, AabbTypes, CacheTypes, Transforms,
      WorkerTypes, MainTypes, SceneTypes, HistoryTypes, frameVars, sceneVars, history
<1>6. ASSUME NEW n \in 0..MaxSteps, NEW data \in FrameData, moveActors(n, data) PROVE TypeInv'
  <2>1. data \in Seq(Actors) /\ Len(data) \in Nat
    BY FrameDataTypes DEF TypeInv
  <2>2. FrameTypes'
    BY <1>6, <2>1 DEF moveActors, TypeInv, FrameTypes
  <2>3. AabbTypes'
    BY <1>6 DEF moveActors, TypeInv, AabbTypes, Transforms
  <2>4. CacheTypes'
    <3>1. \A i \in 1..Len(mLOSCache) : mLOSCache[i] \in LOSRequest
      BY DEF TypeInv, CacheTypes
    <3>2. ASSUME NEW req \in LOSRequest PROVE [req EXCEPT !.fresh = FALSE] \in LOSRequest
      BY DEF LOSRequest
    <3>3. QED
      BY <1>6, <3>1, <3>2 DEF moveActors, TypeInv, CacheTypes
  <2>5. HistoryTypes'
    <3>1. [i \in 1..Len(data) |-> 0] \in Seq(Nat)
      BY <2>1
    <3>2. moved' \in Seq(Nat) /\ fell' \in Seq(Nat) /\ resetEarly' \in BOOLEAN
      BY <1>6, <3>1, Zenon DEF moveActors
    <3>3. n \in Nat
      BY SceneAssumption
    <3>4. frames' \in Nat /\ steps' \in Nat /\ done' \in Nat
      BY <1>6, <3>3 DEF moveActors, TypeInv, HistoryTypes
    <3>5. QED
      BY <3>2, <3>4 DEF HistoryTypes
  <2>6. QED
    BY <1>6, <2>2, <2>3, <2>4, <2>5
    DEF moveActors, workersUnchanged, workerVars, TypeInv, WorkerTypes, MainTypes, SceneTypes, sceneVars
<1>7. ASSUME NEW from, NEW to \in {"idle", "join"}, notify_all(from, to) PROVE TypeInv'
  <2>1. WorkerTypes'
    BY <1>7 DEF notify_all, Notified, TypeInv, WorkerTypes, WorkerPCs
  <2>2. QED
    BY <1>7, <2>1
    DEF notify_all, TypeInv, FrameTypes, AabbTypes, CacheTypes, MainTypes, SceneTypes, HistoryTypes,
        frameVars, aabbVars, sceneVars, history
<1>8. CASE resetSimulation
  <2>1. <<>> \in Seq(Actors) /\ <<>> \in Seq(Nat)
    OBVIOUS
  <2>2. mActorsFrameData' \in Seq(Actors) /\ moved' \in Seq(Nat) /\ fell' \in Seq(Nat)
    BY <1>8, <2>1, Zenon DEF resetSimulation
  <2>3. QED
    BY <1>8, <2>2
    DEF resetSimulation, workersUnchanged, workerVars, TypeInv, FrameTypes, AabbTypes, CacheTypes,
        WorkerTypes, MainTypes, SceneTypes, HistoryTypes, aabbVars, sceneVars
<1>9. CASE Quit
  BY <1>9
  DEF Quit, workersUnchanged, workerVars, TypeInv, FrameTypes, AabbTypes, CacheTypes,
      WorkerTypes, MainTypes, SceneTypes, HistoryTypes, aabbVars, sceneVars, history
<1>10. CASE Join
  BY <1>10
  DEF Join, workersUnchanged, workerVars, TypeInv, FrameTypes, AabbTypes, CacheTypes,
      WorkerTypes, MainTypes, SceneTypes, HistoryTypes, frameVars, aabbVars, sceneVars, history
<1>11. QED
  BY <1>1, <1>2, <1>3, <1>4, <1>5, <1>6, <1>7, <1>8, <1>9, <1>10
  DEF MainStart, MainStep, CallMoveActors, CallResetSimulation, CallDestructor

LEMMA TypeInvStep == TypeInv /\ [Next]_vars => TypeInv'
<1> SUFFICES ASSUME TypeInv, [Next]_vars PROVE TypeInv'
  OBVIOUS
<1>1. BarriersInv'
  BY BarriersInvStep DEF TypeInv
<1>2. CASE MainStart \/ MainStep
  BY <1>1, <1>2, MainTypesKept
<1>3. ASSUME NEW w \in Workers, Worker(w) \/ SpuriousWakeup(w) PROVE TypeInv'
  BY <1>1, <1>3, WorkerTypesKept
<1>4. CASE Terminated \/ UNCHANGED vars
  BY <1>1, <1>4
  DEF Terminated, vars, TypeInv, FrameTypes, AabbTypes, CacheTypes, WorkerTypes, MainTypes, SceneTypes,
      HistoryTypes, frameVars, aabbVars, workerVars, mainVars, sceneVars, history
<1>5. QED
  BY <1>2, <1>3, <1>4 DEF Next

\* Every variable keeps its type.
THEOREM TypeCorrect == Spec => []TypeOK
BY TypeInvInit, TypeInvStep, TypeInvIsTypeOK, PTL DEF Spec

-----------------------------------------------------------------------------
(* Workers stay inside of the frame data.                                  *)

\* Where a worker may be only while there is a frame, or when told to quit.
InFrame == {"preStep", "preStepWait", "move", "moving", "postStep", "postStepWait",
            "fall", "falling", "los", "refresh", "postSim"}

\* Only a worker at mPostSimBarrier sleeps there.
SleepInv == \A w \in Workers : mPostSimBarrier.mCurrent[w] # NotWaiting => pc[w] = "postSimWait"

\* No worker is still busy with a frame that is done.
PhaseInv == \A w \in Workers : pc[w] \in InFrame => mNewFrame \/ mQuit

\* The number of jobs is that of the frame.
DataInv == (mNewFrame /\ ~resetEarly /\ ~mQuit) => mNumJobs = Len(mActorsFrameData)

FrameInv == TypeInv /\ SleepInv /\ PhaseInv /\ DataInv /\ JobsInFrame

jobVars == <<mActorsFrameData, mNumJobs, mNewFrame, mQuit, resetEarly>>

\* Steps of a worker that take no job.
LEMMA WalkFrame ==
    ASSUME FrameInv, TypeInv', NEW w \in Workers, NEW place \in WorkerPCs \ {"moving", "falling"},
           Go(w, place), pc[w] # "postSimWait", UNCHANGED <<jobVars, mPostSimBarrier, job>>,
           place \in InFrame => pc[w] \in InFrame \/ mNewFrame \/ mQuit
    PROVE  FrameInv'
<1>1. pc' = [pc EXCEPT ![w] = place] /\ pc \in [Workers -> WorkerPCs]
  BY DEF Go, FrameInv, TypeInv, WorkerTypes
<1>2. SleepInv'
  BY <1>1 DEF FrameInv, SleepInv
<1>3. PhaseInv'
  BY <1>1 DEF FrameInv, PhaseInv, jobVars
<1>4. DataInv'
  BY DEF FrameInv, DataInv, jobVars
<1>5. JobsInFrame'
  BY <1>1 DEF FrameInv, JobsInFrame, jobVars
<1>6. QED
  BY <1>2, <1>3, <1>4, <1>5 DEF FrameInv

\* A job that is claimed is one of the frame.
LEMMA ClaimFrame ==
    ASSUME FrameInv, TypeInv', NEW w \in Workers, NEW handle \in {"moving", "falling"},
           NEW next \in {"postStep", "los", "postSim"}, Claim(w, handle, next), pc[w] \in {"move", "fall"}
    PROVE  FrameInv'
<1> USE DEF InFrame, WorkerPCs
<1>1. CASE mNextJob < mNumJobs
  <2>1. pc' = [pc EXCEPT ![w] = handle] /\ pc \in [Workers -> WorkerPCs]
    BY <1>1 DEF Claim, Go, FrameInv, TypeInv, WorkerTypes
  <2>2. job' = [job EXCEPT ![w] = mNextJob + 1] /\ job \in [Workers -> Nat]
    BY <1>1 DEF Claim, FrameInv, TypeInv, WorkerTypes
  <2>3. UNCHANGED <<jobVars, mPostSimBarrier>>
    BY DEF Claim, jobVars, barrierVars, history
  <2>4. SleepInv'
    BY <2>1, <2>3 DEF FrameInv, SleepInv
  <2>5. PhaseInv'
    BY <2>1, <2>3 DEF FrameInv, PhaseInv, jobVars
  <2>6. DataInv'
    BY <2>3 DEF FrameInv, DataInv, jobVars
  <2>7. JobsInFrame'
    <3>1. ~resetEarly /\ ~mQuit => mNumJobs = Len(mActorsFrameData)
      BY DEF FrameInv, PhaseInv, DataInv
    <3>2. ~resetEarly /\ ~mQuit => mNextJob + 1 \in 1..Len(mActorsFrameData)
      BY <1>1, <3>1 DEF FrameInv, TypeInv, FrameTypes
    <3>3. QED
      BY <2>1, <2>2, <2>3, <3>2 DEF FrameInv, JobsInFrame, jobVars
  <2>8. QED
    BY <2>4, <2>5, <2>6, <2>7 DEF FrameInv
<1>2. CASE ~(mNextJob < mNumJobs)
  <2>1. Go(w, next) /\ UNCHANGED <<jobVars, mPostSimBarrier, job>>
    BY <1>2 DEF Claim, jobVars, barrierVars, history
  <2>2. QED
    BY <2>1, WalkFrame
<1>3. QED
  BY <1>1, <1>2

\* The steps of a worker keep FrameInv.
LEMMA WorkerFrame ==
    ASSUME FrameInv, TypeInv', NEW w \in Workers, Worker(w) \/ SpuriousWakeup(w)
    PROVE  FrameInv'
<1> USE DEF WorkerPCs, InFrame, jobVars, frameVars, barrierVars, history
<1>1. CASE Start(w)
  BY <1>1, WalkFrame DEF Start
<1>2. CASE Loop(w)
  BY <1>2, WalkFrame DEF Loop
<1>3. CASE Wake(w)
  BY <1>3, WalkFrame DEF Wake, HasJob
<1>4. CASE SpuriousWakeup(w)
  BY <1>4, WalkFrame DEF SpuriousWakeup
<1>5. CASE WaitPreStep(w)
  BY <1>5, WalkFrame DEF WaitPreStep, afterPreStep
<1>6. CASE LeavePreStep(w)
  BY <1>6, WalkFrame DEF LeavePreStep
<1>7. CASE ClaimMove(w)
  BY <1>7, ClaimFrame DEF ClaimMove
<1>8. CASE SkipMoves(w)
  BY <1>8, WalkFrame DEF SkipMoves
<1>9. CASE Move(w)
  BY <1>9, WalkFrame DEF Move
<1>10. CASE WaitPostStep(w)
  BY <1>10, WalkFrame DEF WaitPostStep, afterPostStep, AfterStep
<1>11. CASE LeavePostStep(w)
  BY <1>11, WalkFrame DEF LeavePostStep, AfterStep
<1>12. CASE ClaimFall(w)
  BY <1>12, ClaimFrame DEF ClaimFall
<1>13. CASE handleFall(w)
  BY <1>13, WalkFrame DEF handleFall
<1>14. CASE LockLOSCache(w)
  BY <1>14, WalkFrame DEF LockLOSCache
<1>15. CASE RefreshLOS(w)
  <2>1. CASE mNextLOS < Len(mLOSCache)
    BY <1>15, <2>1
    DEF RefreshLOS, FrameInv, SleepInv, PhaseInv, DataInv, JobsInFrame
  <2>2. CASE ~(mNextLOS < Len(mLOSCache))
    BY <1>15, <2>2, WalkFrame DEF RefreshLOS
  <2>3. QED
    BY <2>1, <2>2
<1>16. CASE WaitPostSim(w)
  <2>1. pc[w] = "postSim" /\ UNCHANGED job /\ pc \in [Workers -> WorkerPCs]
    BY <1>16 DEF WaitPostSim, FrameInv, TypeInv, WorkerTypes
  <2>2. PostSim!TypeOK /\ PostSim!OpenForAll
    BY PostSimInv DEF FrameInv, TypeInv, BarriersInv
  <2>3. CASE PostSim!Arrive(w) /\ Go(w, "postSimWait") /\ UNCHANGED <<frameVars, mLOSCache>>
    <3>1. pc' = [pc EXCEPT ![w] = "postSimWait"]
      BY <2>3 DEF Go
    <3>2. \A v \in Workers \ {w} : mPostSimBarrier'.mCurrent[v] = mPostSimBarrier.mCurrent[v]
      BY <2>2, <2>3 DEF PostSim!Arrive, PostSim!TypeOK
    <3>3. SleepInv'
      BY <2>1, <3>1, <3>2 DEF FrameInv, SleepInv
    <3>4. PhaseInv' /\ DataInv' /\ JobsInFrame'
      BY <1>16, <2>1, <2>3, <3>1 DEF WaitPostSim, FrameInv, PhaseInv, DataInv, JobsInFrame
    <3>5. QED
      BY <3>3, <3>4 DEF FrameInv
  <2>4. CASE PostSim!Open(w) /\ Go(w, "loop") /\ afterPostSim
    <3>1. pc' = [pc EXCEPT ![w] = "loop"]
      BY <2>4 DEF Go
    <3>2. \A v \in Workers \ {w} : mPostSimBarrier.mCurrent[v] # NotWaiting
      BY <2>2, <2>4, WorkersAssumption DEF PostSim!OpenForAll, PostSim!Arrived, PostSim!TypeOK
    <3>3. \A v \in Workers \ {w} : pc[v] = "postSimWait"
      BY <3>2 DEF FrameInv, SleepInv
    <3>4. SleepInv'
      <4>1. mPostSimBarrier'.mCurrent = mPostSimBarrier.mCurrent /\ mPostSimBarrier.mCurrent[w] = NotWaiting
        BY <2>2, <2>4 DEF PostSim!Open, PostSim!TypeOK
      <4>2. QED
        BY <2>1, <3>1, <3>3, <4>1 DEF SleepInv
    <3>5. PhaseInv' /\ JobsInFrame'
      BY <2>1, <3>1, <3>3 DEF PhaseInv, JobsInFrame
    <3>6. DataInv'
      BY <2>4 DEF afterPostSim, DataInv
    <3>7. QED
      BY <3>4, <3>5, <3>6 DEF FrameInv
  <2>5. QED
    BY <1>16, <2>3, <2>4 DEF WaitPostSim
<1>17. CASE LeavePostSim(w)
  <2>1. pc' = [pc EXCEPT ![w] = "loop"] /\ pc \in [Workers -> WorkerPCs] /\ UNCHANGED <<jobVars, job>>
    BY <1>17 DEF LeavePostSim, Go, FrameInv, TypeInv, WorkerTypes
  <2>2. PostSim!TypeOK
    BY PostSimInv DEF FrameInv, TypeInv, BarriersInv
  <2>3. /\ mPostSimBarrier'.mCurrent[w] = NotWaiting
        /\ \A v \in Workers \ {w} : mPostSimBarrier'.mCurrent[v] = mPostSimBarrier.mCurrent[v]
    BY <1>17, <2>2 DEF LeavePostSim, PostSim!Leave, PostSim!TypeOK
  <2>4. SleepInv'
    BY <2>1, <2>3 DEF FrameInv, SleepInv
  <2>5. PhaseInv' /\ DataInv' /\ JobsInFrame'
    BY <2>1 DEF FrameInv, PhaseInv, DataInv, JobsInFrame
  <2>6. QED
    BY <2>4, <2>5 DEF FrameInv
<1>18. QED
  BY <1>1, <1>2, <1>3, <1>4, <1>5, <1>6, <1>7, <1>8, <1>9, <1>10, <1>11, <1>12, <1>13, <1>14,
     <1>15, <1>16, <1>17
  DEF Worker

\* The steps of the main thread keep FrameInv: what it changes of a frame it
\* changes while no worker holds mSimulationMutex.
LEMMA MainFrame ==
    ASSUME FrameInv, TypeInv', MainStart \/ MainStep
    PROVE  FrameInv'
<1>1. ASSUME UNCHANGED <<jobVars, mPostSimBarrier, pc, job>> PROVE FrameInv'
  BY <1>1 DEF FrameInv, SleepInv, PhaseInv, DataInv, JobsInFrame, jobVars
<1>2. CASE MainStart \/ updateSingleAabb \/ Join
  <2>1. UNCHANGED <<jobVars, mPostSimBarrier, pc, job>>
    BY <1>2
    DEF MainStart, AddActor, RemoveActor, MoveObject, getLineOfSight, CallMoveActors, CallResetSimulation,
        CallDestructor, Call, updateSingleAabb, Join, workersUnchanged, workerVars, jobVars, frameVars,
        barrierVars, history
  <2>2. QED
    BY <1>1, <2>1
<1>3. ASSUME ExclusiveFree PROVE \A w \in Workers : pc[w] \notin InFrame
  BY <1>3 DEF ExclusiveFree, HoldsShared, InFrame
<1>4. ASSUME NEW n \in 0..MaxSteps, NEW data \in FrameData, moveActors(n, data) PROVE FrameInv'
  <2>1. UNCHANGED <<mPostSimBarrier, pc, job>>
    BY <1>4 DEF moveActors, workersUnchanged, workerVars, barrierVars
  <2>2. QED
    BY <1>3, <1>4, <2>1
    DEF moveActors, FrameInv, SleepInv, PhaseInv, DataInv, JobsInFrame, InFrame
<1>5. CASE resetSimulation
  <2>1. UNCHANGED <<mPostSimBarrier, pc, job, mNewFrame, mQuit>> /\ resetEarly' = mNewFrame
    BY <1>5 DEF resetSimulation, workersUnchanged, workerVars, barrierVars
  <2>2. QED
    BY <1>3, <1>5, <2>1
    DEF resetSimulation, FrameInv, SleepInv, PhaseInv, DataInv, JobsInFrame, InFrame
<1>6. CASE Quit
  <2>1. UNCHANGED <<mPostSimBarrier, pc, job>> /\ mQuit'
    BY <1>6 DEF Quit, workersUnchanged, workerVars, barrierVars
  <2>2. QED
    BY <2>1 DEF FrameInv, SleepInv, PhaseInv, DataInv, JobsInFrame
<1>7. ASSUME NEW from, NEW to, notify_all(from, to) PROVE FrameInv'
  <2>1. UNCHANGED <<jobVars, mPostSimBarrier, job>> /\ pc' = Notified
    BY <1>7 DEF notify_all, jobVars, frameVars, barrierVars, history
  <2>2. \A w \in Workers : pc'[w] = pc[w] \/ (pc[w] = "waiting" /\ pc'[w] = "woken")
    BY <2>1 DEF Notified
  <2>3. SleepInv'
    BY <2>1, <2>2 DEF FrameInv, SleepInv
  <2>4. PhaseInv' /\ DataInv' /\ JobsInFrame'
    BY <2>1, <2>2 DEF FrameInv, PhaseInv, DataInv, JobsInFrame, InFrame, jobVars
  <2>5. QED
    BY <2>3, <2>4 DEF FrameInv
<1>8. QED
  BY <1>2, <1>4, <1>5, <1>6, <1>7 DEF MainStep

LEMMA FrameInvInit == Init => FrameInv
<1> SUFFICES ASSUME Init PROVE FrameInv
  OBVIOUS
<1>1. SleepInv
  BY DEF Init, PostSim!Init, PostSim!InitBarrier, SleepInv
<1>2. PhaseInv /\ DataInv /\ JobsInFrame
  BY DEF Init, PhaseInv, DataInv, JobsInFrame, InFrame
<1>3. QED
  BY <1>1, <1>2, TypeInvInit DEF FrameInv

LEMMA FrameInvStep == FrameInv /\ [Next]_vars => FrameInv'
<1> SUFFICES ASSUME FrameInv, [Next]_vars PROVE FrameInv'
  OBVIOUS
<1>1. TypeInv'
  BY TypeInvStep DEF FrameInv
<1>2. CASE MainStart \/ MainStep
  BY <1>1, <1>2, MainFrame
<1>3. ASSUME NEW w \in Workers, Worker(w) \/ SpuriousWakeup(w) PROVE FrameInv'
  BY <1>1, <1>3, WorkerFrame
<1>4. CASE Terminated \/ UNCHANGED vars
  BY <1>1, <1>4
  DEF Terminated, vars, FrameInv, SleepInv, PhaseInv, DataInv, JobsInFrame, frameVars, barrierVars,
      workerVars, history
<1>5. QED
  BY <1>2, <1>3, <1>4 DEF Next

\* A worker never reads outside of mActorsFrameData, unless the main thread has
\* cleared it under a frame that no worker had begun.
THEOREM WorkersStayInFrame == Spec => []JobsInFrame
<1>1. FrameInv => JobsInFrame
  BY DEF FrameInv
<1>2. QED
  BY <1>1, FrameInvInit, FrameInvStep, PTL DEF Spec

-----------------------------------------------------------------------------
(* Who sleeps at a barrier.                                                *)

BarrierRecord == [mRendezvousCount : Nat, mGeneration : Nat, mCurrent : [Workers -> Nat \cup {NotWaiting}]]

\* The workers that sleep at a barrier, and those of them whose round is not complete.
Inside(barrier) == { w \in Workers : barrier.mCurrent[w] # NotWaiting }
Asleep(barrier) == { w \in Workers : barrier.mCurrent[w] = barrier.mGeneration }

\* Only workers that sleep at a barrier sleep in its current round.
LEMMA AsleepInside ==
    ASSUME NEW b \in BarrierRecord
    PROVE  Asleep(b) \subseteq Inside(b)
BY WorkersAssumption DEF BarrierRecord, Asleep, Inside

\* A worker that arrives sleeps in the current round.
LEMMA ArriveSleeps ==
    ASSUME NEW b \in BarrierRecord, NEW w \in Workers, NEW c,
           c = [b EXCEPT !.mRendezvousCount = @ + 1, !.mCurrent[w] = b.mGeneration]
    PROVE  Inside(c) = Inside(b) \cup {w} /\ Asleep(c) = Asleep(b) \cup {w}
<1>1. c.mGeneration = b.mGeneration /\ c.mCurrent = [b.mCurrent EXCEPT ![w] = b.mGeneration]
  BY DEF BarrierRecord
<1>2. b.mGeneration # NotWaiting /\ b.mCurrent \in [Workers -> Nat \cup {NotWaiting}]
  BY WorkersAssumption DEF BarrierRecord
<1>3. \A v \in Workers : c.mCurrent[v] = IF v = w THEN b.mGeneration ELSE b.mCurrent[v]
  BY <1>1, <1>2
<1>4. QED
  BY <1>1, <1>2, <1>3 DEF Inside, Asleep

\* When the barrier opens no worker sleeps in the round that begins.
LEMMA OpenWakes ==
    ASSUME NEW b \in BarrierRecord, NEW w \in Workers, NEW c,
           c = [b EXCEPT !.mRendezvousCount = 0, !.mGeneration = @ + 1],
           \A v \in Workers : b.mCurrent[v] # NotWaiting => b.mCurrent[v] <= b.mGeneration
    PROVE  Inside(c) = Inside(b) /\ Asleep(c) = {}
<1>1. c.mGeneration = b.mGeneration + 1 /\ c.mCurrent = b.mCurrent /\ b.mGeneration \in Nat
  BY DEF BarrierRecord
<1>2. \A v \in Workers : b.mCurrent[v] \in Nat \cup {NotWaiting}
  BY DEF BarrierRecord
<1>3. Asleep(c) = {}
  BY <1>1, <1>2, WorkersAssumption DEF Asleep
<1>4. QED
  BY <1>1, <1>3 DEF Inside

\* A worker that leaves slept in a round that is complete.
LEMMA LeaveAwake ==
    ASSUME NEW b \in BarrierRecord, NEW w \in Workers, NEW c,
           b.mGeneration # b.mCurrent[w],
           c = [b EXCEPT !.mCurrent[w] = NotWaiting]
    PROVE  Inside(c) = Inside(b) \ {w} /\ Asleep(c) = Asleep(b) /\ w \notin Asleep(b)
<1>1. c.mGeneration = b.mGeneration /\ c.mCurrent = [b.mCurrent EXCEPT ![w] = NotWaiting]
  BY DEF BarrierRecord
<1>2. b.mGeneration # NotWaiting /\ b.mCurrent \in [Workers -> Nat \cup {NotWaiting}]
  BY WorkersAssumption DEF BarrierRecord
<1>3. \A v \in Workers : c.mCurrent[v] = IF v = w THEN NotWaiting ELSE b.mCurrent[v]
  BY <1>1, <1>2
<1>4. QED
  BY <1>1, <1>2, <1>3 DEF Inside, Asleep

\* What worker w does at a barrier that is b before and c after.
Arrives(b, c, w) == w \notin Inside(b) /\ Inside(c) = Inside(b) \cup {w} /\ Asleep(c) = Asleep(b) \cup {w}
Opens(b, c, w) == /\ w \notin Inside(b) /\ Asleep(b) = Workers \ {w}
                  /\ Inside(c) = Inside(b) /\ Asleep(c) = {}
Leaves(b, c, w) == /\ w \in Inside(b) /\ w \notin Asleep(b)
                   /\ Inside(c) = Inside(b) \ {w} /\ Asleep(c) = Asleep(b)

\* The steps of the workers at mPreStepBarrier, seen by who sleeps there.
LEMMA PreStepMoves ==
    ASSUME BarriersInv, NEW w \in Workers
    PROVE  /\ PreStep!Arrive(w) => Arrives(mPreStepBarrier, mPreStepBarrier', w)
           /\ PreStep!Open(w) => Opens(mPreStepBarrier, mPreStepBarrier', w)
           /\ PreStep!Leave(w) => Leaves(mPreStepBarrier, mPreStepBarrier', w)
<1>1. PreStep!TypeOK /\ PreStep!CountsSleepers /\ PreStep!OpenForAll
  BY PreStepInv DEF BarriersInv
<1>2. mPreStepBarrier \in BarrierRecord
  BY <1>1 DEF PreStep!TypeOK, BarrierRecord
<1>3. ASSUME PreStep!Arrive(w) PROVE Arrives(mPreStepBarrier, mPreStepBarrier', w)
  <2>1. mPreStepBarrier' = [mPreStepBarrier EXCEPT !.mRendezvousCount = @ + 1, !.mCurrent[w] = mPreStepBarrier.mGeneration]
    BY <1>3 DEF PreStep!Arrive
  <2>2. w \notin Inside(mPreStepBarrier)
    BY <1>3 DEF PreStep!Arrive, Inside
  <2>3. QED
    BY <1>2, <2>1, <2>2, ArriveSleeps DEF Arrives
<1>4. ASSUME PreStep!Open(w) PROVE Opens(mPreStepBarrier, mPreStepBarrier', w)
  <2>1. Asleep(mPreStepBarrier) = Workers \ {w}
    BY <1>1, <1>4 DEF PreStep!OpenForAll, PreStep!Arrived, Asleep
  <2>2. \A v \in Workers : mPreStepBarrier.mCurrent[v] # NotWaiting => mPreStepBarrier.mCurrent[v] <= mPreStepBarrier.mGeneration
    BY <1>1 DEF PreStep!CountsSleepers
  <2>3. w \notin Inside(mPreStepBarrier)
    BY <1>4 DEF PreStep!Open, Inside
  <2>4. mPreStepBarrier' = [mPreStepBarrier EXCEPT !.mRendezvousCount = 0, !.mGeneration = @ + 1]
    BY <1>4 DEF PreStep!Open
  <2>5. Inside(mPreStepBarrier') = Inside(mPreStepBarrier) /\ Asleep(mPreStepBarrier') = {}
    BY <1>2, <2>2, <2>4, OpenWakes
  <2>6. QED
    BY <2>1, <2>3, <2>5 DEF Opens
<1>5. PreStep!Leave(w) => Leaves(mPreStepBarrier, mPreStepBarrier', w)
  BY <1>2, LeaveAwake DEF PreStep!Leave, Leaves, Inside
<1>6. QED
  BY <1>3, <1>4, <1>5

\* The same at mPostStepBarrier.
LEMMA PostStepMoves ==
    ASSUME BarriersInv, NEW w \in Workers
    PROVE  /\ PostStep!Arrive(w) => Arrives(mPostStepBarrier, mPostStepBarrier', w)
           /\ PostStep!Open(w) => Opens(mPostStepBarrier, mPostStepBarrier', w)
           /\ PostStep!Leave(w) => Leaves(mPostStepBarrier, mPostStepBarrier', w)
<1>1. PostStep!TypeOK /\ PostStep!CountsSleepers /\ PostStep!OpenForAll
  BY PostStepInv DEF BarriersInv
<1>2. mPostStepBarrier \in BarrierRecord
  BY <1>1 DEF PostStep!TypeOK, BarrierRecord
<1>3. ASSUME PostStep!Arrive(w) PROVE Arrives(mPostStepBarrier, mPostStepBarrier', w)
  <2>1. mPostStepBarrier' = [mPostStepBarrier EXCEPT !.mRendezvousCount = @ + 1, !.mCurrent[w] = mPostStepBarrier.mGeneration]
    BY <1>3 DEF PostStep!Arrive
  <2>2. w \notin Inside(mPostStepBarrier)
    BY <1>3 DEF PostStep!Arrive, Inside
  <2>3. QED
    BY <1>2, <2>1, <2>2, ArriveSleeps DEF Arrives
<1>4. ASSUME PostStep!Open(w) PROVE Opens(mPostStepBarrier, mPostStepBarrier', w)
  <2>1. Asleep(mPostStepBarrier) = Workers \ {w}
    BY <1>1, <1>4 DEF PostStep!OpenForAll, PostStep!Arrived, Asleep
  <2>2. \A v \in Workers : mPostStepBarrier.mCurrent[v] # NotWaiting => mPostStepBarrier.mCurrent[v] <= mPostStepBarrier.mGeneration
    BY <1>1 DEF PostStep!CountsSleepers
  <2>3. w \notin Inside(mPostStepBarrier)
    BY <1>4 DEF PostStep!Open, Inside
  <2>4. mPostStepBarrier' = [mPostStepBarrier EXCEPT !.mRendezvousCount = 0, !.mGeneration = @ + 1]
    BY <1>4 DEF PostStep!Open
  <2>5. Inside(mPostStepBarrier') = Inside(mPostStepBarrier) /\ Asleep(mPostStepBarrier') = {}
    BY <1>2, <2>2, <2>4, OpenWakes
  <2>6. QED
    BY <2>1, <2>3, <2>5 DEF Opens
<1>5. PostStep!Leave(w) => Leaves(mPostStepBarrier, mPostStepBarrier', w)
  BY <1>2, LeaveAwake DEF PostStep!Leave, Leaves, Inside
<1>6. QED
  BY <1>3, <1>4, <1>5

\* The same at mPostSimBarrier.
LEMMA PostSimMoves ==
    ASSUME BarriersInv, NEW w \in Workers
    PROVE  /\ PostSim!Arrive(w) => Arrives(mPostSimBarrier, mPostSimBarrier', w)
           /\ PostSim!Open(w) => Opens(mPostSimBarrier, mPostSimBarrier', w)
           /\ PostSim!Leave(w) => Leaves(mPostSimBarrier, mPostSimBarrier', w)
<1>1. PostSim!TypeOK /\ PostSim!CountsSleepers /\ PostSim!OpenForAll
  BY PostSimInv DEF BarriersInv
<1>2. mPostSimBarrier \in BarrierRecord
  BY <1>1 DEF PostSim!TypeOK, BarrierRecord
<1>3. ASSUME PostSim!Arrive(w) PROVE Arrives(mPostSimBarrier, mPostSimBarrier', w)
  <2>1. mPostSimBarrier' = [mPostSimBarrier EXCEPT !.mRendezvousCount = @ + 1, !.mCurrent[w] = mPostSimBarrier.mGeneration]
    BY <1>3 DEF PostSim!Arrive
  <2>2. w \notin Inside(mPostSimBarrier)
    BY <1>3 DEF PostSim!Arrive, Inside
  <2>3. QED
    BY <1>2, <2>1, <2>2, ArriveSleeps DEF Arrives
<1>4. ASSUME PostSim!Open(w) PROVE Opens(mPostSimBarrier, mPostSimBarrier', w)
  <2>1. Asleep(mPostSimBarrier) = Workers \ {w}
    BY <1>1, <1>4 DEF PostSim!OpenForAll, PostSim!Arrived, Asleep
  <2>2. \A v \in Workers : mPostSimBarrier.mCurrent[v] # NotWaiting => mPostSimBarrier.mCurrent[v] <= mPostSimBarrier.mGeneration
    BY <1>1 DEF PostSim!CountsSleepers
  <2>3. w \notin Inside(mPostSimBarrier)
    BY <1>4 DEF PostSim!Open, Inside
  <2>4. mPostSimBarrier' = [mPostSimBarrier EXCEPT !.mRendezvousCount = 0, !.mGeneration = @ + 1]
    BY <1>4 DEF PostSim!Open
  <2>5. Inside(mPostSimBarrier') = Inside(mPostSimBarrier) /\ Asleep(mPostSimBarrier') = {}
    BY <1>2, <2>2, <2>4, OpenWakes
  <2>6. QED
    BY <2>1, <2>3, <2>5 DEF Opens
<1>5. PostSim!Leave(w) => Leaves(mPostSimBarrier, mPostSimBarrier', w)
  BY <1>2, LeaveAwake DEF PostSim!Leave, Leaves, Inside
<1>6. QED
  BY <1>3, <1>4, <1>5

-----------------------------------------------------------------------------
(* The stages of a step: all workers are in the same one.                  *)

\* Workers that sleep at a barrier are at that barrier in their program.
PlaceInv ==
    /\ Inside(mPreStepBarrier) = { w \in Workers : pc[w] = "preStepWait" }
    /\ Inside(mPostStepBarrier) = { w \in Workers : pc[w] = "postStepWait" }
    /\ Inside(mPostSimBarrier) = { w \in Workers : pc[w] = "postSimWait" }

\* From mPreStepBarrier to mPostStepBarrier, and from there to mPostSimBarrier when no
\* step is left.  A worker is past a barrier when it is open, even if it still sleeps.
Moves(w) ==
    \/ pc[w] \in {"move", "moving", "postStep"}
    \/ pc[w] = "preStepWait" /\ w \notin Asleep(mPreStepBarrier)
    \/ pc[w] = "postStepWait" /\ w \in Asleep(mPostStepBarrier)
Falls(w) ==
    \/ pc[w] \in {"fall", "falling", "los", "refresh", "postSim"}
    \/ pc[w] = "postStepWait" /\ w \notin Asleep(mPostStepBarrier) /\ mRemainingSteps = 0
    \/ pc[w] = "postSimWait" /\ w \in Asleep(mPostSimBarrier)

AllMove == \A w \in Workers : Moves(w)
AllFall == \A w \in Workers : Falls(w)
AllGather == \A w \in Workers : ~Moves(w) /\ ~Falls(w)

\* No worker is a stage ahead, and in the last one no step is left.
StageInv ==
    /\ PlaceInv
    /\ AllMove \/ AllFall \/ AllGather
    /\ AllFall => mRemainingSteps = 0

\* A step that takes no worker to another stage.
SameStage == \A v \in Workers : (Moves(v)' <=> Moves(v)) /\ (Falls(v)' <=> Falls(v))

\* A step in which a barrier opens.
OpensBarrier(w) ==
    \/ pc[w] = "preStep" /\ pc'[w] = "move"
    \/ pc[w] = "postStep" /\ pc'[w] # "postStepWait"
    \/ pc[w] = "postSim" /\ pc'[w] = "loop"

\* Workers stay together when none changes its stage.
LEMMA StageKept ==
    ASSUME StageInv, PlaceInv', SameStage, UNCHANGED mRemainingSteps
    PROVE  StageInv'
<1>1. (AllMove' <=> AllMove) /\ (AllFall' <=> AllFall) /\ (AllGather' <=> AllGather)
  BY DEF SameStage, AllMove, AllFall, AllGather
<1>2. QED
  BY <1>1 DEF StageInv

\* Places between the barriers, by stage.
Gathering == {"start", "loop", "waiting", "woken", "preStep", "stopped"}
Moving == {"move", "moving", "postStep"}
Falling == {"fall", "falling", "los", "refresh", "postSim"}

\* Steps of a worker between two barriers.
LEMMA WalkStage ==
    ASSUME StageInv, WorkerTypes, NEW w \in Workers, NEW place, Go(w, place),
           UNCHANGED <<barrierVars, mRemainingSteps>>,
           \/ pc[w] \in Gathering /\ place \in Gathering
           \/ pc[w] \in Moving /\ place \in Moving
           \/ pc[w] \in Falling /\ place \in Falling
    PROVE  StageInv' /\ SameStage
<1> USE DEF Gathering, Moving, Falling
<1>1. \A v \in Workers : pc'[v] = IF v = w THEN place ELSE pc[v]
  BY DEF Go, WorkerTypes
<1>2. UNCHANGED <<mPreStepBarrier, mPostStepBarrier, mPostSimBarrier, mRemainingSteps>>
  BY DEF barrierVars
<1>3. PlaceInv'
  BY <1>1, <1>2 DEF StageInv, PlaceInv, Inside
<1>4. \A v \in Workers \ {w} : (Moves(v)' <=> Moves(v)) /\ (Falls(v)' <=> Falls(v))
  BY <1>1, <1>2 DEF Moves, Falls, Asleep
<1>5. (Moves(w)' <=> Moves(w)) /\ (Falls(w)' <=> Falls(w))
  BY <1>1 DEF Moves, Falls
<1>6. SameStage
  BY <1>4, <1>5 DEF SameStage
<1>7. QED
  BY <1>2, <1>3, <1>6, StageKept

\* Going to sleep at a barrier, and leaving it, is no change of stage.
LEMMA BarrierStage ==
    ASSUME StageInv, TypeInv, NEW w \in Workers, ~OpensBarrier(w),
           \/ WaitPreStep(w) \/ LeavePreStep(w) \/ WaitPostStep(w) \/ LeavePostStep(w)
           \/ WaitPostSim(w) \/ LeavePostSim(w)
    PROVE  StageInv' /\ SameStage
<1>0. BarriersInv /\ pc \in [Workers -> WorkerPCs] /\ mRemainingSteps \in Nat
  BY DEF TypeInv, WorkerTypes, FrameTypes
<1>a. ASSUME NEW place, Go(w, place) PROVE \A v \in Workers : pc'[v] = IF v = w THEN place ELSE pc[v]
  BY <1>0, <1>a DEF Go
<1>b. ASSUME PlaceInv', SameStage, UNCHANGED mRemainingSteps PROVE StageInv' /\ SameStage
  BY <1>b, StageKept
<1>1. CASE WaitPreStep(w)
  <2>1. /\ pc[w] = "preStep" /\ PreStep!Arrive(w) /\ Go(w, "preStepWait")
        /\ UNCHANGED <<mPostStepBarrier, mPostSimBarrier, mRemainingSteps>>
    BY <1>0, <1>1 DEF WaitPreStep, OpensBarrier, Go, frameVars
  <2>2. Arrives(mPreStepBarrier, mPreStepBarrier', w)
    BY <1>0, <2>1, PreStepMoves
  <2>3. \A v \in Workers : pc'[v] = IF v = w THEN "preStepWait" ELSE pc[v]
    BY <1>a, <2>1
  <2>4. PlaceInv'
    BY <2>1, <2>2, <2>3 DEF StageInv, PlaceInv, Arrives
  <2>5. SameStage
    BY <2>1, <2>2, <2>3 DEF SameStage, Moves, Falls, Arrives
  <2>6. QED
    BY <1>b, <2>1, <2>4, <2>5
<1>2. CASE LeavePreStep(w)
  <2>1. /\ pc[w] = "preStepWait" /\ PreStep!Leave(w) /\ Go(w, "move")
        /\ UNCHANGED <<mPostStepBarrier, mPostSimBarrier, mRemainingSteps>>
    BY <1>2 DEF LeavePreStep, frameVars
  <2>2. Leaves(mPreStepBarrier, mPreStepBarrier', w)
    BY <1>0, <2>1, PreStepMoves
  <2>3. \A v \in Workers : pc'[v] = IF v = w THEN "move" ELSE pc[v]
    BY <1>a, <2>1
  <2>4. PlaceInv'
    BY <2>1, <2>2, <2>3 DEF StageInv, PlaceInv, Leaves
  <2>5. SameStage
    BY <2>1, <2>2, <2>3 DEF SameStage, Moves, Falls, Leaves
  <2>6. QED
    BY <1>b, <2>1, <2>4, <2>5
<1>3. CASE WaitPostStep(w)
  <2>1. /\ pc[w] = "postStep" /\ PostStep!Arrive(w) /\ Go(w, "postStepWait")
        /\ UNCHANGED <<mPreStepBarrier, mPostSimBarrier, mRemainingSteps>>
    BY <1>0, <1>3 DEF WaitPostStep, OpensBarrier, AfterStep, Go, frameVars
  <2>2. Arrives(mPostStepBarrier, mPostStepBarrier', w)
    BY <1>0, <2>1, PostStepMoves
  <2>3. \A v \in Workers : pc'[v] = IF v = w THEN "postStepWait" ELSE pc[v]
    BY <1>a, <2>1
  <2>4. PlaceInv'
    BY <2>1, <2>2, <2>3 DEF StageInv, PlaceInv, Arrives
  <2>5. SameStage
    BY <2>1, <2>2, <2>3 DEF SameStage, Moves, Falls, Arrives
  <2>6. QED
    BY <1>b, <2>1, <2>4, <2>5
<1>4. CASE LeavePostStep(w)
  <2> DEFINE place == IF mRemainingSteps = 0 THEN "fall" ELSE "loop"
  <2>1. /\ pc[w] = "postStepWait" /\ PostStep!Leave(w) /\ Go(w, place)
        /\ UNCHANGED <<mPreStepBarrier, mPostSimBarrier, mRemainingSteps>>
    BY <1>4 DEF LeavePostStep, AfterStep, frameVars
  <2>2. Leaves(mPostStepBarrier, mPostStepBarrier', w)
    BY <1>0, <2>1, PostStepMoves
  <2>3. \A v \in Workers : pc'[v] = IF v = w THEN place ELSE pc[v]
    BY <1>a, <2>1
  <2>4. PlaceInv'
    BY <2>1, <2>2, <2>3 DEF StageInv, PlaceInv, Leaves
  <2>5. SameStage
    BY <2>1, <2>2, <2>3 DEF SameStage, Moves, Falls, Leaves
  <2>6. QED
    BY <1>b, <2>1, <2>4, <2>5
<1>5. CASE WaitPostSim(w)
  <2>1. /\ pc[w] = "postSim" /\ PostSim!Arrive(w) /\ Go(w, "postSimWait")
        /\ UNCHANGED <<mPreStepBarrier, mPostStepBarrier, mRemainingSteps>>
    BY <1>0, <1>5 DEF WaitPostSim, OpensBarrier, Go, frameVars
  <2>2. Arrives(mPostSimBarrier, mPostSimBarrier', w)
    BY <1>0, <2>1, PostSimMoves
  <2>3. \A v \in Workers : pc'[v] = IF v = w THEN "postSimWait" ELSE pc[v]
    BY <1>a, <2>1
  <2>4. PlaceInv'
    BY <2>1, <2>2, <2>3 DEF StageInv, PlaceInv, Arrives
  <2>5. SameStage
    BY <2>1, <2>2, <2>3 DEF SameStage, Moves, Falls, Arrives
  <2>6. QED
    BY <1>b, <2>1, <2>4, <2>5
<1>6. CASE LeavePostSim(w)
  <2>1. /\ pc[w] = "postSimWait" /\ PostSim!Leave(w) /\ Go(w, "loop")
        /\ UNCHANGED <<mPreStepBarrier, mPostStepBarrier, mRemainingSteps>>
    BY <1>6 DEF LeavePostSim, frameVars
  <2>2. Leaves(mPostSimBarrier, mPostSimBarrier', w)
    BY <1>0, <2>1, PostSimMoves
  <2>3. \A v \in Workers : pc'[v] = IF v = w THEN "loop" ELSE pc[v]
    BY <1>a, <2>1
  <2>4. PlaceInv'
    BY <2>1, <2>2, <2>3 DEF StageInv, PlaceInv, Leaves
  <2>5. SameStage
    BY <2>1, <2>2, <2>3 DEF SameStage, Moves, Falls, Leaves
  <2>6. QED
    BY <1>b, <2>1, <2>4, <2>5
<1>7. QED
  BY <1>1, <1>2, <1>3, <1>4, <1>5, <1>6

\* All workers that meet at a barrier are in the stage that ends there, and the
\* callback takes all of them to the next one.
LEMMA OpenPreStepStage ==
    ASSUME StageInv, TypeInv, NEW w \in Workers, pc[w] = "preStep", PreStep!Open(w), Go(w, "move"),
           UNCHANGED <<mPostStepBarrier, mPostSimBarrier, mRemainingSteps>>
    PROVE  StageInv' /\ AllGather /\ AllMove'
<1>1. BarriersInv /\ pc \in [Workers -> WorkerPCs] /\ w \in Workers
  BY DEF TypeInv, WorkerTypes
<1>2. Opens(mPreStepBarrier, mPreStepBarrier', w)
  BY <1>1, PreStepMoves
<1>3. \A v \in Workers : pc'[v] = IF v = w THEN "move" ELSE pc[v]
  BY <1>1 DEF Go
<1>4. AllGather
  <2>1. ~Moves(w) /\ ~Falls(w)
    BY DEF Moves, Falls
  <2>2. QED
    BY <2>1 DEF StageInv, AllMove, AllFall
<1>5. Asleep(mPreStepBarrier) \subseteq Inside(mPreStepBarrier)
  BY <1>1, PreStepInv, AsleepInside DEF BarriersInv, PreStep!TypeOK, BarrierRecord
<1>6. \A v \in Workers \ {w} : pc[v] = "preStepWait"
  BY <1>2, <1>5 DEF Opens, StageInv, PlaceInv
<1>7. AllMove'
  BY <1>2, <1>3, <1>6 DEF AllMove, Moves, Opens
<1>8. PlaceInv'
  BY <1>2, <1>3 DEF StageInv, PlaceInv, Opens
<1>9. ~Falls(w)'
  BY <1>3 DEF Falls
<1>10. QED
  BY <1>4, <1>7, <1>8, <1>9 DEF StageInv, AllFall

LEMMA OpenPostStepStage ==
    ASSUME StageInv, TypeInv, NEW w \in Workers, pc[w] = "postStep", PostStep!Open(w),
           AfterStep(w, mRemainingSteps'), UNCHANGED <<mPreStepBarrier, mPostSimBarrier>>
    PROVE  /\ StageInv' /\ AllMove
           /\ IF mRemainingSteps' = 0 THEN AllFall' ELSE AllGather'
           /\ \A v \in Workers \ {w} : pc[v] = "postStepWait"
<1> DEFINE place == IF mRemainingSteps' = 0 THEN "fall" ELSE "loop"
<1>1. BarriersInv /\ pc \in [Workers -> WorkerPCs] /\ w \in Workers
  BY DEF TypeInv, WorkerTypes
<1>2. Opens(mPostStepBarrier, mPostStepBarrier', w)
  BY <1>1, PostStepMoves
<1>3. \A v \in Workers : pc'[v] = IF v = w THEN place ELSE pc[v]
  BY <1>1 DEF Go, AfterStep
<1>4. AllMove
  <2>1. Moves(w) /\ ~Falls(w)
    BY DEF Moves, Falls
  <2>2. QED
    BY <2>1 DEF StageInv, AllGather, AllFall
<1>5. Asleep(mPostStepBarrier) \subseteq Inside(mPostStepBarrier)
  BY <1>1, PostStepInv, AsleepInside DEF BarriersInv, PostStep!TypeOK, BarrierRecord
<1>6. \A v \in Workers \ {w} : pc[v] = "postStepWait"
  BY <1>2, <1>5 DEF Opens, StageInv, PlaceInv
<1>7. IF mRemainingSteps' = 0 THEN AllFall' ELSE AllGather'
  BY <1>2, <1>3, <1>6 DEF AllFall, AllGather, Moves, Falls, Opens
<1>8. PlaceInv'
  BY <1>2, <1>3 DEF StageInv, PlaceInv, Opens
<1>9. AllGather' => ~AllFall'
  BY <1>1 DEF AllGather, AllFall
<1>10. QED
  BY <1>4, <1>6, <1>7, <1>8, <1>9 DEF StageInv

LEMMA OpenPostSimStage ==
    ASSUME StageInv, TypeInv, NEW w \in Workers, pc[w] = "postSim", PostSim!Open(w), Go(w, "loop"),
           UNCHANGED <<mPreStepBarrier, mPostStepBarrier, mRemainingSteps>>
    PROVE  /\ StageInv' /\ AllFall /\ AllGather'
           /\ \A v \in Workers \ {w} : pc[v] = "postSimWait"
<1>1. BarriersInv /\ pc \in [Workers -> WorkerPCs] /\ w \in Workers
  BY DEF TypeInv, WorkerTypes
<1>2. Opens(mPostSimBarrier, mPostSimBarrier', w)
  BY <1>1, PostSimMoves
<1>3. \A v \in Workers : pc'[v] = IF v = w THEN "loop" ELSE pc[v]
  BY <1>1 DEF Go
<1>4. AllFall
  <2>1. ~Moves(w) /\ Falls(w)
    BY DEF Moves, Falls
  <2>2. QED
    BY <2>1 DEF StageInv, AllGather, AllMove
<1>5. Asleep(mPostSimBarrier) \subseteq Inside(mPostSimBarrier)
  BY <1>1, PostSimInv, AsleepInside DEF BarriersInv, PostSim!TypeOK, BarrierRecord
<1>6. \A v \in Workers \ {w} : pc[v] = "postSimWait"
  BY <1>2, <1>5 DEF Opens, StageInv, PlaceInv
<1>7. AllGather'
  BY <1>2, <1>3, <1>6 DEF AllGather, Moves, Falls, Opens
<1>8. PlaceInv'
  BY <1>2, <1>3 DEF StageInv, PlaceInv, Opens
<1>9. AllGather' => ~AllFall'
  BY <1>1 DEF AllGather, AllFall
<1>10. QED
  BY <1>4, <1>6, <1>7, <1>8, <1>9 DEF StageInv

\* The main thread lets the workers where they are, or wakes some of those that wait
\* for a frame; it changes the number of steps only while all are between frames.
LEMMA MainStage ==
    ASSUME StageInv, TypeInv, MainStart \/ MainStep
    PROVE  /\ StageInv' /\ SameStage
           /\ mRemainingSteps' # mRemainingSteps => AllGather
<1>0. \E w \in Workers : TRUE
  BY WorkersAssumption
<1>1. ASSUME UNCHANGED <<barrierVars, mRemainingSteps>>,
             \A v \in Workers : pc'[v] = pc[v] \/ (pc[v] = "waiting" /\ pc'[v] = "woken")
      PROVE  StageInv' /\ SameStage
  <2>1. PlaceInv' /\ SameStage
    BY <1>1 DEF barrierVars, StageInv, PlaceInv, Inside, Asleep, SameStage, Moves, Falls
  <2>2. QED
    BY <1>1, <2>1, StageKept
<1>2. ASSUME ExclusiveFree, UNCHANGED <<barrierVars, pc>> PROVE StageInv' /\ SameStage /\ AllGather
  <2>1. \A v \in Workers : pc[v] \in {"start", "waiting", "woken", "stopped"}
    BY <1>2 DEF ExclusiveFree, HoldsShared
  <2>2. AllGather /\ AllGather' /\ ~AllFall'
    BY <1>0, <1>2, <2>1 DEF AllGather, AllFall, Moves, Falls
  <2>3. PlaceInv'
    BY <1>2 DEF barrierVars, StageInv, PlaceInv, Inside
  <2>4. SameStage
    BY <2>2 DEF AllGather, SameStage
  <2>5. QED
    BY <2>2, <2>3, <2>4 DEF StageInv
<1>3. CASE MainStart \/ updateSingleAabb \/ Join
  BY <1>1, <1>3
  DEF MainStart, AddActor, RemoveActor, MoveObject, getLineOfSight, CallMoveActors, CallResetSimulation,
      CallDestructor, Call, updateSingleAabb, Join, workersUnchanged, workerVars, frameVars
<1>4. CASE \E n \in 0..MaxSteps, data \in FrameData : moveActors(n, data)
  BY <1>2, <1>4 DEF moveActors, workersUnchanged, workerVars
<1>5. CASE resetSimulation \/ Quit
  BY <1>2, <1>5 DEF resetSimulation, Quit, workersUnchanged, workerVars
<1>6. ASSUME NEW from, NEW to, notify_all(from, to)
      PROVE  StageInv' /\ SameStage /\ mRemainingSteps' = mRemainingSteps
  BY <1>1, <1>6 DEF notify_all, Notified, frameVars
<1>7. QED
  BY <1>3, <1>4, <1>5, <1>6
  DEF MainStep, MainStart, AddActor, RemoveActor, MoveObject, getLineOfSight, CallMoveActors, CallResetSimulation,
      CallDestructor, Call, updateSingleAabb, Join, frameVars

\* A claimed job keeps its worker in its stage.
LEMMA ClaimStage ==
    ASSUME StageInv, TypeInv, NEW w \in Workers, ClaimMove(w) \/ ClaimFall(w)
    PROVE  StageInv' /\ SameStage
<1>1. \E place : /\ Go(w, place)
                 /\ \/ pc[w] \in Moving /\ place \in Moving
                    \/ pc[w] \in Falling /\ place \in Falling
  BY DEF ClaimMove, ClaimFall, Claim, Moving, Falling
<1>2. UNCHANGED <<barrierVars, mRemainingSteps>>
  BY DEF ClaimMove, ClaimFall, Claim
<1>3. QED
  BY <1>1, <1>2, WalkStage DEF TypeInv

\* The steps of a worker keep StageInv; only one that opens a barrier leads to the next
\* stage.
LEMMA WorkerStage ==
    ASSUME StageInv, TypeInv, NEW w \in Workers, Worker(w) \/ SpuriousWakeup(w)
    PROVE  StageInv' /\ (~OpensBarrier(w) => SameStage)
<1> USE DEF Gathering, Moving, Falling
<1>0. WorkerTypes
  BY DEF TypeInv
<1>1. CASE Start(w)
  BY <1>0, <1>1, WalkStage DEF Start, frameVars
<1>2. CASE Loop(w)
  BY <1>0, <1>2, WalkStage DEF Loop, frameVars
<1>3. CASE Wake(w) \/ SpuriousWakeup(w)
  BY <1>0, <1>3, WalkStage DEF Wake, SpuriousWakeup, frameVars
<1>4. CASE ClaimMove(w) \/ ClaimFall(w)
  BY <1>4, ClaimStage
<1>5. CASE SkipMoves(w)
  BY <1>0, <1>5, WalkStage DEF SkipMoves, frameVars
<1>6. CASE Move(w)
  BY <1>0, <1>6, WalkStage DEF Move, frameVars
<1>7. CASE handleFall(w)
  BY <1>0, <1>7, WalkStage DEF handleFall, frameVars
<1>8. CASE LockLOSCache(w)
  BY <1>0, <1>8, WalkStage DEF LockLOSCache, frameVars
<1>9. CASE RefreshLOS(w)
  <2>1. UNCHANGED <<barrierVars, mRemainingSteps>> /\ pc[w] = "refresh"
    BY <1>9 DEF RefreshLOS
  <2>2. Go(w, "refresh") \/ Go(w, "postSim")
    BY <1>0, <1>9 DEF RefreshLOS, Go, WorkerTypes
  <2>3. QED
    BY <1>0, <2>1, <2>2, WalkStage
<1>10. CASE ~OpensBarrier(w) /\ \/ WaitPreStep(w) \/ LeavePreStep(w) \/ WaitPostStep(w) \/ LeavePostStep(w)
                                \/ WaitPostSim(w) \/ LeavePostSim(w)
  BY <1>10, BarrierStage
<1>11. CASE OpensBarrier(w) /\ WaitPreStep(w)
  <2>1. Go(w, "move") /\ PreStep!Open(w)
    BY <1>0, <1>11 DEF OpensBarrier, WaitPreStep, Go, WorkerTypes
  <2>2. QED
    BY <1>11, <2>1, OpenPreStepStage DEF WaitPreStep, afterPreStep, frameVars
<1>12. CASE OpensBarrier(w) /\ WaitPostStep(w)
  <2>1. AfterStep(w, mRemainingSteps') /\ PostStep!Open(w)
    BY <1>0, <1>12 DEF OpensBarrier, WaitPostStep, Go, WorkerTypes
  <2>2. QED
    BY <1>12, <2>1, OpenPostStepStage DEF WaitPostStep
<1>13. CASE OpensBarrier(w) /\ WaitPostSim(w)
  <2>1. Go(w, "loop") /\ PostSim!Open(w)
    BY <1>0, <1>13 DEF OpensBarrier, WaitPostSim, Go, WorkerTypes
  <2>2. QED
    BY <1>13, <2>1, OpenPostSimStage DEF WaitPostSim, afterPostSim, frameVars
<1>14. CASE OpensBarrier(w) /\ (LeavePreStep(w) \/ LeavePostStep(w) \/ LeavePostSim(w))
  BY <1>14 DEF OpensBarrier, LeavePreStep, LeavePostStep, LeavePostSim
<1>15. QED
  BY <1>1, <1>2, <1>3, <1>4, <1>5, <1>6, <1>7, <1>8, <1>9, <1>10, <1>11, <1>12, <1>13, <1>14
  DEF Worker

LEMMA StageInvInit == Init => StageInv
<1> SUFFICES ASSUME Init PROVE StageInv
  OBVIOUS
<1>0. \E w \in Workers : TRUE
  BY WorkersAssumption
<1>1. PlaceInv
  BY DEF Init, PreStep!Init, PostStep!Init, PostSim!Init, PreStep!InitBarrier, PostStep!InitBarrier,
         PostSim!InitBarrier, PlaceInv, Inside
<1>2. AllGather /\ ~AllFall
  BY <1>0 DEF Init, AllGather, AllFall, Moves, Falls
<1>3. QED
  BY <1>1, <1>2 DEF StageInv

-----------------------------------------------------------------------------
(* Each actor is moved once in each step, and its fall is handled once.    *)

\* A worker that handles an actor has claimed it, and no other worker has.
ClaimsInv ==
    \A w \in Workers : pc[w] \in {"moving", "falling"} =>
        /\ job[w] \in 1..mNextJob
        /\ \A v \in Workers : pc[v] = pc[w] /\ job[v] = job[w] => v = w

\* A worker that found no actor left, before the barrier that ends the stage opens.
FoundNone(w) ==
    \/ mRemainingSteps # 0 /\ (pc[w] = "postStep" \/ (pc[w] = "postStepWait" /\ w \in Asleep(mPostStepBarrier)))
    \/ pc[w] \in {"los", "refresh", "postSim"} \/ (pc[w] = "postSimWait" /\ w \in Asleep(mPostSimBarrier))

ExhaustedInv == ~mQuit => \A w \in Workers : FoundNone(w) => mNextJob >= mNumJobs

\* Actors are claimed only in the stages that handle them.
NextInv == (~mQuit /\ mNewFrame /\ mNextJob # 0) => IF mRemainingSteps # 0 THEN AllMove ELSE AllFall

LenInv == ~mQuit => /\ Len(fell) = Len(moved)
                    /\ Len(moved) # 0 => Len(moved) = mNumJobs

\* Actor j was claimed in this stage, and no worker handles it any more.
Handled(place, j) == j <= mNextJob /\ \A w \in Workers : ~(pc[w] = place /\ job[w] = j)

CountInv ==
    (~mQuit /\ mNewFrame) =>
        /\ done + mRemainingSteps = steps
        /\ \A j \in 1..Len(moved) :
             IF mRemainingSteps # 0
             THEN moved[j] = (IF Handled("moving", j) THEN done + 1 ELSE done) /\ fell[j] = 0
             ELSE moved[j] = done /\ fell[j] = (IF Handled("falling", j) THEN 1 ELSE 0)

JobInv == ClaimsInv /\ ExhaustedInv /\ NextInv /\ LenInv /\ CountInv /\ FrameComplete

countVars == <<mNumJobs, mRemainingSteps, mNewFrame, mQuit, mNextJob, job, steps, done, moved, fell>>

\* Steps that neither claim nor handle an actor.
LEMMA WalkJobs ==
    ASSUME JobInv, SameStage, UNCHANGED countVars,
           \A v \in Workers : pc'[v] # pc[v] => {pc[v], pc'[v]} \cap {"moving", "falling"} = {},
           \A v \in Workers : FoundNone(v)' => FoundNone(v)
    PROVE  JobInv'
<1> USE DEF JobInv
<1>1. ClaimsInv'
  BY DEF ClaimsInv, countVars
<1>2. ExhaustedInv'
  BY DEF ExhaustedInv, countVars
<1>3. NextInv'
  BY DEF NextInv, SameStage, AllMove, AllFall, countVars
<1>4. LenInv' /\ FrameComplete'
  BY DEF LenInv, FrameComplete, countVars
<1>5. CountInv'
  <2>1. \A j : /\ Handled("moving", j)' <=> Handled("moving", j)
               /\ Handled("falling", j)' <=> Handled("falling", j)
    BY DEF Handled, countVars
  <2>2. QED
    BY <2>1 DEF CountInv, countVars
<1>6. QED
  BY <1>1, <1>2, <1>3, <1>4, <1>5

\* The invariant that the theorems follow from.
CountsInv == FrameInv /\ StageInv /\ JobInv

\* Facts about a step from a state of the invariant, by variable.
LEMMA CountFacts ==
    ASSUME CountsInv
    PROVE  /\ TypeInv /\ StageInv /\ JobInv /\ PhaseInv
           /\ pc \in [Workers -> WorkerPCs] /\ job \in [Workers -> Nat]
           /\ mNumJobs \in Nat /\ mNextJob \in Nat /\ mRemainingSteps \in Nat /\ done \in Nat
           /\ moved \in Seq(Nat) /\ fell \in Seq(Nat)
BY DEF CountsInv, FrameInv, TypeInv, WorkerTypes, FrameTypes, HistoryTypes

\* A worker that claims an actor, or finds that none is left.
LEMMA ClaimJobs ==
    ASSUME CountsInv, NEW w \in Workers, NEW handle, NEW next, Claim(w, handle, next),
           \/ handle = "moving" /\ pc[w] = "move" /\ mRemainingSteps # 0 /\ next = "postStep"
           \/ handle = "falling" /\ pc[w] = "fall" /\ next \in {"los", "postSim"},
           SameStage
    PROVE  JobInv'
<1>0. /\ StageInv /\ JobInv /\ PhaseInv /\ pc \in [Workers -> WorkerPCs] /\ job \in [Workers -> Nat]
      /\ mNumJobs \in Nat /\ mNextJob \in Nat /\ mRemainingSteps \in Nat
  BY CountFacts
<1>1. /\ mNextJob' = mNextJob + 1
      /\ UNCHANGED <<mNumJobs, mRemainingSteps, mNewFrame, mQuit, steps, done, moved, fell, barrierVars>>
  BY DEF Claim, history
<1>2. IF mNextJob < mNumJobs
      THEN pc' = [pc EXCEPT ![w] = handle] /\ job' = [job EXCEPT ![w] = mNextJob + 1]
      ELSE pc' = [pc EXCEPT ![w] = next] /\ job' = job
  BY DEF Claim, Go
<1>3. \A v \in Workers : /\ pc'[v] = IF v # w THEN pc[v] ELSE IF mNextJob < mNumJobs THEN handle ELSE next
                         /\ job'[v] = IF v = w /\ mNextJob < mNumJobs THEN mNextJob + 1 ELSE job[v]
  BY <1>0, <1>2
<1>4. IF mRemainingSteps # 0 THEN handle = "moving" /\ AllMove ELSE handle = "falling" /\ AllFall
  <2>1. pc[w] = "move" => Moves(w) /\ ~Falls(w)
    BY DEF Moves, Falls
  <2>2. pc[w] = "fall" => Falls(w) /\ ~Moves(w)
    BY DEF Moves, Falls
  <2>3. QED
    BY <1>0, <2>1, <2>2 DEF StageInv, AllMove, AllFall, AllGather
<1>5. ClaimsInv'
  <2>1. \A v \in Workers : pc[v] \in {"moving", "falling"} => job[v] \in 1..mNextJob
    BY <1>0 DEF JobInv, ClaimsInv
  <2>2. ASSUME NEW u \in Workers, pc'[u] \in {"moving", "falling"} PROVE job'[u] \in 1..mNextJob'
    BY <1>0, <1>1, <1>3, <2>1, <2>2
  <2>3. ASSUME NEW u \in Workers, NEW v \in Workers, pc'[u] \in {"moving", "falling"},
               pc'[v] = pc'[u], job'[v] = job'[u]
        PROVE  v = u
    <3>1. CASE u # w /\ v # w
      BY <1>0, <1>3, <2>3, <3>1 DEF JobInv, ClaimsInv
    <3>2. CASE u = w /\ v # w
      BY <1>0, <1>3, <2>1, <2>3, <3>2
    <3>3. CASE u # w /\ v = w
      BY <1>0, <1>3, <2>1, <2>3, <3>3
    <3>4. QED
      BY <3>1, <3>2, <3>3
  <2>4. QED
    BY <2>2, <2>3 DEF ClaimsInv
<1>6. ExhaustedInv'
  <2>1. ASSUME NEW v \in Workers, FoundNone(v)', ~mQuit PROVE mNextJob + 1 >= mNumJobs
    <3>1. CASE v # w
      <4>1. FoundNone(v)
        BY <1>1, <1>3, <2>1, <3>1 DEF FoundNone, barrierVars, Asleep
      <4>2. QED
        BY <1>0, <2>1, <4>1 DEF JobInv, ExhaustedInv
    <3>2. CASE v = w
      <4>1. ~(mNextJob < mNumJobs)
        BY <1>3, <2>1, <3>2 DEF FoundNone
      <4>2. QED
        BY <1>0, <4>1
    <3>3. QED
      BY <3>1, <3>2
  <2>2. QED
    BY <1>1, <2>1 DEF ExhaustedInv
<1>7. NextInv'
  BY <1>1, <1>4 DEF NextInv, SameStage, AllMove, AllFall
<1>8. LenInv'
  BY <1>0, <1>1 DEF JobInv, LenInv
<1>9. FrameComplete'
  BY <1>0, <1>1 DEF JobInv, FrameComplete
<1>10. CountInv'
  <2>1. ASSUME NEW j \in 1..Len(moved), ~mQuit PROVE Handled(handle, j)' <=> Handled(handle, j)
    <3>1. j <= mNumJobs /\ j \in Nat
      BY <1>0, <2>1 DEF JobInv, LenInv
    <3>2. CASE mNextJob < mNumJobs
      <4>1. \A v \in Workers \ {w} : pc'[v] = pc[v] /\ job'[v] = job[v]
        BY <1>3
      <4>2. pc'[w] = handle /\ job'[w] = mNextJob + 1 /\ pc[w] # handle
        BY <1>3, <3>2
      <4>3. QED
        BY <1>0, <1>1, <3>1, <4>1, <4>2 DEF Handled
    <3>3. CASE ~(mNextJob < mNumJobs)
      <4>1. \A v \in Workers : job'[v] = job[v] /\ (pc'[v] = handle <=> pc[v] = handle)
        BY <1>3, <3>3
      <4>2. j <= mNextJob /\ j <= mNextJob + 1
        BY <1>0, <3>1, <3>3
      <4>3. QED
        BY <1>1, <4>1, <4>2 DEF Handled
    <3>4. QED
      BY <3>2, <3>3
  <2>2. QED
    BY <1>0, <1>1, <1>4, <2>1 DEF JobInv, CountInv
<1>11. QED
  BY <1>5, <1>6, <1>7, <1>8, <1>9, <1>10 DEF JobInv

\* A worker that has handled its actor counts one for that actor and no other.
LEMMA HandleJobs ==
    ASSUME CountsInv, NEW w \in Workers, Move(w) \/ handleFall(w), SameStage
    PROVE  JobInv'
<1>0. /\ StageInv /\ JobInv /\ PhaseInv /\ pc \in [Workers -> WorkerPCs] /\ job \in [Workers -> Nat]
      /\ mNumJobs \in Nat /\ mNextJob \in Nat /\ mRemainingSteps \in Nat /\ done \in Nat
      /\ moved \in Seq(Nat) /\ fell \in Seq(Nat)
  BY CountFacts
<1>1. PICK place \in {"moving", "falling"}, next \in {"move", "fall"} :
      /\ UNCHANGED <<mNumJobs, mRemainingSteps, mNewFrame, mQuit, mNextJob, job, steps, done, barrierVars>>
      /\ pc[w] = place /\ Go(w, next)
      /\ IF place = "moving" THEN moved' = Count(moved, job[w]) /\ fell' = fell
         ELSE fell' = Count(fell, job[w]) /\ moved' = moved
  <2>1. CASE Move(w)
    BY <2>1 DEF Move, frameVars
  <2>2. CASE handleFall(w)
    BY <2>2 DEF handleFall, frameVars
  <2>3. QED
    BY <2>1, <2>2
<1>2. \A v \in Workers : pc'[v] = IF v = w THEN next ELSE pc[v]
  BY <1>0, <1>1 DEF Go
<1>3. \A v \in Workers : pc'[v] \in {"moving", "falling"} => pc'[v] = pc[v]
  BY <1>2
<1>4. ClaimsInv'
  BY <1>0, <1>1, <1>3 DEF JobInv, ClaimsInv
<1>5. ExhaustedInv'
  <2>1. \A v \in Workers : FoundNone(v)' => FoundNone(v)
    BY <1>1, <1>2 DEF FoundNone, barrierVars, Asleep
  <2>2. QED
    BY <1>0, <1>1, <2>1 DEF JobInv, ExhaustedInv
<1>6. NextInv'
  BY <1>0, <1>1 DEF JobInv, NextInv, SameStage, AllMove, AllFall
<1>7. /\ Len(moved') = Len(moved) /\ Len(fell') = Len(fell)
      /\ \A j \in 1..Len(moved) : moved'[j] = IF place = "moving" /\ j = job[w] THEN moved[j] + 1 ELSE moved[j]
      /\ \A j \in 1..Len(fell) : fell'[j] = IF place # "moving" /\ j = job[w] THEN fell[j] + 1 ELSE fell[j]
  <2>1. ASSUME NEW counts \in Seq(Nat)
        PROVE  /\ Len(Count(counts, job[w])) = Len(counts)
               /\ \A j \in 1..Len(counts) :
                    Count(counts, job[w])[j] = IF j = job[w] THEN counts[j] + 1 ELSE counts[j]
    BY DEF Count
  <2>2. QED
    BY <1>0, <1>1, <2>1
<1>8. LenInv'
  BY <1>0, <1>1, <1>7 DEF JobInv, LenInv
<1>9. job[w] \in 1..mNextJob /\ \A v \in Workers : pc[v] = place /\ job[v] = job[w] => v = w
  BY <1>0, <1>1 DEF JobInv, ClaimsInv
<1>10. ~mQuit => mNewFrame
  BY <1>0, <1>1 DEF PhaseInv, InFrame
<1>11. FrameComplete'
  BY <1>1, <1>10 DEF FrameComplete
<1>12. ~mQuit => IF mRemainingSteps # 0 THEN place = "moving" ELSE place = "falling"
  <2>1. pc[w] = "moving" => Moves(w) /\ ~Falls(w)
    BY DEF Moves, Falls
  <2>2. pc[w] = "falling" => Falls(w) /\ ~Moves(w)
    BY DEF Moves, Falls
  <2>3. mNextJob # 0
    BY <1>0, <1>9
  <2>4. QED
    BY <1>0, <1>1, <1>10, <2>1, <2>2, <2>3 DEF JobInv, NextInv, AllMove, AllFall
<1>13. CountInv'
  <2>1. ASSUME NEW j \in 1..Len(moved), j # job[w] PROVE Handled(place, j)' <=> Handled(place, j)
    <3>1. \A v \in Workers : (pc'[v] = place /\ job'[v] = j) <=> (pc[v] = place /\ job[v] = j)
      BY <1>1, <1>2, <2>1
    <3>2. QED
      BY <1>1, <3>1 DEF Handled
  <2>2. ASSUME NEW j, j = job[w] PROVE ~Handled(place, j) /\ Handled(place, j)'
    <3>1. ~Handled(place, j)
      BY <1>1, <2>2 DEF Handled
    <3>2. \A v \in Workers : ~(pc'[v] = place /\ job'[v] = j)
      BY <1>1, <1>2, <1>9, <2>2
    <3>3. j <= mNextJob
      BY <1>0, <1>9, <2>2
    <3>4. QED
      BY <1>1, <3>1, <3>2, <3>3 DEF Handled
  <2>3. ASSUME ~mQuit, mNewFrame, NEW j \in 1..Len(moved)
        PROVE  IF mRemainingSteps # 0
               THEN moved'[j] = (IF Handled("moving", j)' THEN done + 1 ELSE done) /\ fell'[j] = 0
               ELSE moved'[j] = done /\ fell'[j] = (IF Handled("falling", j)' THEN 1 ELSE 0)
    <3>1. Len(fell) = Len(moved)
      BY <1>0, <2>3 DEF JobInv, LenInv
    <3>2. IF mRemainingSteps # 0
          THEN moved[j] = (IF Handled("moving", j) THEN done + 1 ELSE done) /\ fell[j] = 0
          ELSE moved[j] = done /\ fell[j] = (IF Handled("falling", j) THEN 1 ELSE 0)
      BY <1>0, <2>3 DEF JobInv, CountInv
    <3>3. CASE j # job[w]
      BY <1>7, <1>12, <2>1, <2>3, <3>1, <3>2, <3>3
    <3>4. CASE j = job[w]
      <4>1. CASE mRemainingSteps # 0
        <5>1. moved[j] = done /\ fell[j] = 0 /\ place = "moving"
          BY <1>12, <2>2, <2>3, <3>2, <3>4, <4>1
        <5>2. moved'[j] = done + 1 /\ fell'[j] = 0
          BY <1>7, <2>3, <3>1, <3>4, <5>1
        <5>3. Handled("moving", j)'
          BY <2>2, <3>4, <5>1
        <5>4. QED
          BY <4>1, <5>2, <5>3
      <4>2. CASE mRemainingSteps = 0
        <5>1. moved[j] = done /\ fell[j] = 0 /\ place = "falling"
          BY <1>12, <2>2, <2>3, <3>2, <3>4, <4>2
        <5>2. moved'[j] = done /\ fell'[j] = 1
          BY <1>7, <2>3, <3>1, <3>4, <5>1
        <5>3. Handled("falling", j)'
          BY <2>2, <3>4, <5>1
        <5>4. QED
          BY <4>2, <5>1, <5>2, <5>3
      <4>3. QED
        BY <4>1, <4>2
    <3>5. QED
      BY <3>3, <3>4
  <2>4. ~mQuit /\ mNewFrame => done + mRemainingSteps = steps
    BY <1>0 DEF JobInv, CountInv
  <2>5. QED
    BY <1>1, <1>7, <2>3, <2>4 DEF CountInv
<1>14. QED
  BY <1>4, <1>5, <1>6, <1>8, <1>11, <1>13 DEF JobInv

\* mPreStepBarrier opens: nothing was claimed yet.
LEMMA OpenPreStepJobs ==
    ASSUME CountsInv, NEW w \in Workers, WaitPreStep(w), OpensBarrier(w)
    PROVE  JobInv'
<1>0. /\ StageInv /\ TypeInv /\ JobInv /\ pc \in [Workers -> WorkerPCs] /\ job \in [Workers -> Nat]
      /\ mNextJob \in Nat
  BY CountFacts
<1>1. pc[w] = "preStep" /\ PreStep!Open(w) /\ Go(w, "move")
  BY <1>0 DEF WaitPreStep, OpensBarrier, Go
<1>2. UNCHANGED <<countVars, mPostStepBarrier, mPostSimBarrier>>
  BY <1>1, <1>0 DEF WaitPreStep, afterPreStep, Go, countVars, frameVars, history
<1>3. AllGather /\ AllMove' /\ StageInv'
  BY <1>0, <1>1, <1>2, OpenPreStepStage DEF countVars
<1>4. \A v \in Workers : pc'[v] = IF v = w THEN "move" ELSE pc[v]
  BY <1>0, <1>1 DEF Go
<1>5. \E v \in Workers : TRUE
  BY WorkersAssumption
<1>6. ~mQuit /\ mNewFrame => mNextJob = 0
  BY <1>0, <1>3, <1>5 DEF JobInv, NextInv, AllMove, AllFall, AllGather
<1>7. ClaimsInv'
  BY <1>0, <1>2, <1>4 DEF JobInv, ClaimsInv, countVars
<1>8. ExhaustedInv'
  <2>1. \A v \in Workers : FoundNone(v)' => FoundNone(v)
    BY <1>2, <1>4 DEF FoundNone, Asleep, countVars
  <2>2. QED
    BY <1>0, <1>2, <2>1 DEF JobInv, ExhaustedInv, countVars
<1>9. NextInv'
  BY <1>2, <1>6 DEF NextInv, countVars
<1>10. LenInv' /\ FrameComplete'
  BY <1>0, <1>2 DEF JobInv, LenInv, FrameComplete, countVars
<1>11. CountInv'
  <2>1. \A j : (Handled("moving", j)' <=> Handled("moving", j)) /\ (Handled("falling", j)' <=> Handled("falling", j))
    <3>1. \A v \in Workers : (pc'[v] = "moving" <=> pc[v] = "moving") /\ (pc'[v] = "falling" <=> pc[v] = "falling")
      BY <1>1, <1>4
    <3>2. QED
      BY <1>2, <3>1 DEF Handled, countVars
  <2>2. QED
    BY <1>0, <1>2, <2>1 DEF JobInv, CountInv, countVars
<1>12. QED
  BY <1>7, <1>8, <1>9, <1>10, <1>11 DEF JobInv

\* mPostStepBarrier opens: every actor has been moved once more, or none was to be.
LEMMA OpenPostStepJobs ==
    ASSUME CountsInv, NEW w \in Workers, WaitPostStep(w), OpensBarrier(w)
    PROVE  JobInv'
<1>0. /\ StageInv /\ TypeInv /\ JobInv /\ PhaseInv /\ pc \in [Workers -> WorkerPCs] /\ job \in [Workers -> Nat]
      /\ mNextJob \in Nat /\ mNumJobs \in Nat /\ mRemainingSteps \in Nat /\ done \in Nat
      /\ moved \in Seq(Nat) /\ fell \in Seq(Nat)
  BY CountFacts
<1>1. pc[w] = "postStep" /\ PostStep!Open(w) /\ afterPostStep /\ AfterStep(w, mRemainingSteps')
  BY <1>0 DEF WaitPostStep, OpensBarrier, Go
<1>2. UNCHANGED <<mNumJobs, mNewFrame, mQuit, job, steps, moved, fell, mPreStepBarrier, mPostSimBarrier>>
  BY <1>1 DEF WaitPostStep, afterPostStep
<1>3. /\ mNextJob' = 0
      /\ IF mRemainingSteps # 0 THEN mRemainingSteps' = mRemainingSteps - 1 /\ done' = done + 1
         ELSE mRemainingSteps' = mRemainingSteps /\ done' = done
  BY <1>1 DEF afterPostStep
<1>4. /\ AllMove /\ StageInv'
      /\ \A v \in Workers \ {w} : pc[v] = "postStepWait"
  BY <1>0, <1>1, <1>2, OpenPostStepStage
<1>5. \A v \in Workers : pc'[v] \in {"fall", "loop", "postStepWait"} /\ pc[v] \in {"postStep", "postStepWait"}
  BY <1>0, <1>1, <1>4 DEF AfterStep, Go
<1>6. Asleep(mPostStepBarrier') = {}
  BY <1>0, <1>1, PostStepMoves DEF TypeInv, Opens
<1>7. ClaimsInv'
  BY <1>5 DEF ClaimsInv
<1>8. ExhaustedInv'
  BY <1>5, <1>6 DEF ExhaustedInv, FoundNone
<1>9. NextInv'
  BY <1>3 DEF NextInv
<1>10. LenInv'
  BY <1>0, <1>2 DEF JobInv, LenInv
<1>11. ~mQuit => mNewFrame
  BY <1>0, <1>1 DEF PhaseInv, InFrame
<1>12. FrameComplete'
  BY <1>2, <1>11 DEF FrameComplete
<1>13. ASSUME ~mQuit, mNewFrame, NEW j \in 1..Len(moved)
       PROVE  moved[j] = done' /\ fell[j] = 0
  <2>1. /\ mRemainingSteps # 0 => moved[j] = (IF Handled("moving", j) THEN done + 1 ELSE done) /\ fell[j] = 0
        /\ mRemainingSteps = 0 => moved[j] = done /\ fell[j] = (IF Handled("falling", j) THEN 1 ELSE 0)
    BY <1>0, <1>13 DEF JobInv, CountInv
  <2>2. j <= mNumJobs /\ j \in Nat /\ j # 0
    BY <1>0, <1>13 DEF JobInv, LenInv
  <2>3. CASE mRemainingSteps # 0
    <3>1. mNextJob >= mNumJobs
      BY <1>0, <1>1, <1>13, <2>3 DEF JobInv, ExhaustedInv, FoundNone
    <3>2. Handled("moving", j)
      BY <1>0, <1>5, <2>2, <3>1 DEF Handled
    <3>3. QED
      BY <1>3, <2>1, <2>3, <3>2
  <2>4. CASE mRemainingSteps = 0
    <3>1. ~AllFall
      BY <1>1 DEF AllFall, Falls
    <3>2. mNextJob = 0
      BY <1>0, <1>13, <2>4, <3>1 DEF JobInv, NextInv
    <3>3. ~Handled("falling", j)
      BY <2>2, <3>2 DEF Handled
    <3>4. QED
      BY <1>3, <2>1, <2>4, <3>3
  <2>5. QED
    BY <2>3, <2>4
<1>14. CountInv'
  <2>1. \A place, j : j \in 1..Len(moved) => ~Handled(place, j)'
    BY <1>0, <1>3 DEF Handled
  <2>2. ~mQuit /\ mNewFrame => done' + mRemainingSteps' = steps
    <3>1. ~mQuit /\ mNewFrame => done + mRemainingSteps = steps
      BY <1>0 DEF JobInv, CountInv
    <3>2. steps \in Nat
      BY <1>0 DEF TypeInv, HistoryTypes
    <3>3. QED
      <4>1. CASE mRemainingSteps = 0
        BY <1>3, <3>1, <4>1
      <4>2. CASE mRemainingSteps # 0
        <5>1. mRemainingSteps' = mRemainingSteps - 1 /\ done' = done + 1
          BY <1>3, <4>2
        <5>2. mRemainingSteps \in Nat /\ done \in Nat
          BY <1>0
        <5>3. QED
          BY <3>1, <3>2, <5>1, <5>2
      <4>3. QED
        BY <4>1, <4>2
  <2>3. QED
    BY <1>2, <1>13, <2>1, <2>2 DEF CountInv
<1>15. QED
  BY <1>7, <1>8, <1>9, <1>10, <1>12, <1>14 DEF JobInv

\* mPostSimBarrier opens: all steps are done and every fall is handled.
LEMMA OpenPostSimJobs ==
    ASSUME CountsInv, NEW w \in Workers, WaitPostSim(w), OpensBarrier(w)
    PROVE  JobInv'
<1>0. /\ StageInv /\ TypeInv /\ JobInv /\ PhaseInv /\ pc \in [Workers -> WorkerPCs] /\ job \in [Workers -> Nat]
      /\ mNextJob \in Nat /\ mNumJobs \in Nat /\ mRemainingSteps \in Nat /\ done \in Nat
      /\ moved \in Seq(Nat) /\ fell \in Seq(Nat)
  BY CountFacts
<1>1. pc[w] = "postSim" /\ PostSim!Open(w) /\ Go(w, "loop") /\ afterPostSim
  BY <1>0 DEF WaitPostSim, OpensBarrier, Go
<1>2. /\ mNewFrame' = FALSE
      /\ UNCHANGED <<mNumJobs, mRemainingSteps, mQuit, mNextJob, job, steps, done, moved, fell,
                     mPreStepBarrier, mPostStepBarrier>>
  BY <1>1 DEF WaitPostSim, afterPostSim, history
<1>3. AllFall /\ \A v \in Workers \ {w} : pc[v] = "postSimWait"
  BY <1>0, <1>1, <1>2, OpenPostSimStage
<1>4. \A v \in Workers : pc'[v] \in {"loop", "postSimWait"} /\ pc[v] \in {"postSim", "postSimWait"}
  BY <1>0, <1>1, <1>3 DEF Go
<1>5. Asleep(mPostSimBarrier') = {}
  BY <1>0, <1>1, PostSimMoves DEF TypeInv, Opens
<1>6. ClaimsInv' /\ NextInv' /\ CountInv'
  BY <1>2, <1>4 DEF ClaimsInv, NextInv, CountInv
<1>7. ExhaustedInv'
  BY <1>4, <1>5 DEF ExhaustedInv, FoundNone
<1>8. LenInv'
  BY <1>0, <1>2 DEF JobInv, LenInv
<1>9. FrameComplete'
  <2>1. ASSUME ~mQuit, NEW j \in 1..Len(moved) PROVE moved[j] = done /\ fell[j] = 1
    <3>1. mNewFrame /\ mRemainingSteps = 0
      BY <1>0, <1>1, <1>3, <2>1 DEF PhaseInv, InFrame, StageInv
    <3>2. moved[j] = done /\ fell[j] = (IF Handled("falling", j) THEN 1 ELSE 0)
      BY <1>0, <2>1, <3>1 DEF JobInv, CountInv
    <3>3. mNextJob >= mNumJobs
      BY <1>0, <1>1, <2>1 DEF JobInv, ExhaustedInv, FoundNone
    <3>4. j <= mNumJobs /\ j \in Nat
      BY <1>0, <2>1 DEF JobInv, LenInv
    <3>5. j <= mNextJob
      BY <1>0, <3>3, <3>4
    <3>6. \A v \in Workers : pc[v] # "falling"
      BY <1>4
    <3>7. Handled("falling", j)
      BY <3>5, <3>6 DEF Handled
    <3>8. QED
      BY <3>2, <3>7
  <2>2. ~mQuit => done = steps
    <3>1. ~mQuit => mNewFrame /\ mRemainingSteps = 0
      BY <1>0, <1>1, <1>3 DEF PhaseInv, InFrame, StageInv
    <3>2. QED
      BY <1>0, <3>1 DEF JobInv, CountInv
  <2>3. QED
    BY <1>2, <2>1, <2>2 DEF FrameComplete
<1>10. QED
  BY <1>6, <1>7, <1>8, <1>9 DEF JobInv

\* The steps of a worker keep JobInv.
LEMMA WorkerJobs ==
    ASSUME CountsInv, NEW w \in Workers, Worker(w) \/ SpuriousWakeup(w)
    PROVE  JobInv'
<1>0. /\ StageInv /\ TypeInv /\ JobInv /\ pc \in [Workers -> WorkerPCs] /\ job \in [Workers -> Nat]
  BY CountFacts
<1>1. ~OpensBarrier(w) => SameStage
  BY <1>0, WorkerStage
<1>2. ASSUME ~OpensBarrier(w), NEW place, Go(w, place), UNCHANGED countVars, UNCHANGED mPostStepBarrier,
             UNCHANGED mPostSimBarrier, {pc[w], place} \cap {"moving", "falling"} = {}, FoundNone(w)' => FoundNone(w)
      PROVE  JobInv'
  <2>1. \A v \in Workers : pc'[v] = IF v = w THEN place ELSE pc[v]
    BY <1>0, <1>2 DEF Go
  <2>2. \A v \in Workers : FoundNone(v)' => FoundNone(v)
    BY <1>2, <2>1 DEF FoundNone, Asleep, countVars
  <2>3. QED
    BY <1>0, <1>1, <1>2, <2>1, <2>2, WalkJobs
<1>3. CASE Start(w) \/ Loop(w) \/ Wake(w) \/ SpuriousWakeup(w)
  <2>1. /\ UNCHANGED <<countVars, mPostStepBarrier, mPostSimBarrier>> /\ ~OpensBarrier(w)
        /\ pc[w] \in {"start", "loop", "woken", "waiting"}
    BY <1>3 DEF Start, Loop, Wake, SpuriousWakeup, countVars, frameVars, history, barrierVars, OpensBarrier
  <2>2. \E place \in {"loop", "stopped", "preStep", "waiting", "woken"} : Go(w, place)
    BY <1>3 DEF Start, Loop, Wake, SpuriousWakeup
  <2>3. PICK place \in {"loop", "stopped", "preStep", "waiting", "woken"} : Go(w, place)
    BY <2>2
  <2>4. ~FoundNone(w)'
    BY <1>0, <2>3 DEF FoundNone, Go
  <2>5. QED
    BY <1>2, <2>1, <2>3, <2>4
<1>4. CASE ClaimMove(w) \/ ClaimFall(w)
  <2>1. SameStage
    BY <1>0, <1>4, ClaimStage
  <2>2. CASE ClaimMove(w)
    BY <2>1, <2>2, ClaimJobs DEF ClaimMove
  <2>3. CASE ClaimFall(w)
    BY <2>1, <2>3, ClaimJobs DEF ClaimFall
  <2>4. QED
    BY <1>4, <2>2, <2>3
<1>5. CASE SkipMoves(w)
  <2>1. /\ UNCHANGED <<countVars, mPostStepBarrier, mPostSimBarrier>> /\ ~OpensBarrier(w)
        /\ pc[w] = "move" /\ Go(w, "postStep") /\ mRemainingSteps = 0
    BY <1>5 DEF SkipMoves, countVars, frameVars, history, barrierVars, OpensBarrier
  <2>2. ~FoundNone(w)'
    BY <1>0, <2>1 DEF FoundNone, Go, countVars
  <2>3. QED
    BY <1>2, <2>1, <2>2
<1>6. CASE Move(w) \/ handleFall(w)
  BY <1>1, <1>6, HandleJobs DEF Move, handleFall, OpensBarrier
<1>7. CASE LockLOSCache(w)
  <2>1. /\ UNCHANGED <<countVars, mPostStepBarrier, mPostSimBarrier>> /\ ~OpensBarrier(w)
        /\ pc[w] = "los" /\ Go(w, "refresh")
    BY <1>7 DEF LockLOSCache, countVars, frameVars, history, barrierVars, OpensBarrier
  <2>2. FoundNone(w)
    BY <2>1 DEF FoundNone
  <2>3. QED
    BY <1>2, <2>1, <2>2
<1>8. CASE RefreshLOS(w)
  <2>1. /\ UNCHANGED <<countVars, mPostStepBarrier, mPostSimBarrier>> /\ ~OpensBarrier(w)
        /\ pc[w] = "refresh"
    BY <1>8 DEF RefreshLOS, countVars, frameVars, history, barrierVars, OpensBarrier
  <2>2. Go(w, "refresh") \/ Go(w, "postSim")
    BY <1>0, <1>8 DEF RefreshLOS, Go
  <2>3. FoundNone(w)
    BY <2>1 DEF FoundNone
  <2>4. QED
    BY <1>2, <2>1, <2>2, <2>3
<1>9. CASE WaitPreStep(w) /\ ~OpensBarrier(w)
  <2>1. /\ UNCHANGED <<countVars, mPostStepBarrier, mPostSimBarrier>>
        /\ pc[w] = "preStep" /\ Go(w, "preStepWait")
    BY <1>0, <1>9 DEF WaitPreStep, Go, countVars, frameVars, history, OpensBarrier
  <2>2. ~FoundNone(w)'
    BY <1>0, <2>1 DEF FoundNone, Go
  <2>3. QED
    BY <1>2, <1>9, <2>1, <2>2
<1>10. CASE WaitPreStep(w) /\ OpensBarrier(w)
  BY <1>10, OpenPreStepJobs
<1>11. CASE LeavePreStep(w)
  <2>1. /\ UNCHANGED <<countVars, mPostStepBarrier, mPostSimBarrier>> /\ ~OpensBarrier(w)
        /\ pc[w] = "preStepWait" /\ Go(w, "move")
    BY <1>11 DEF LeavePreStep, countVars, frameVars, history, OpensBarrier
  <2>2. ~FoundNone(w)'
    BY <1>0, <2>1 DEF FoundNone, Go
  <2>3. QED
    BY <1>2, <2>1, <2>2
<1>12. CASE WaitPostStep(w) /\ ~OpensBarrier(w)
  <2>1. /\ UNCHANGED <<countVars, mPreStepBarrier, mPostSimBarrier>>
        /\ pc[w] = "postStep" /\ PostStep!Arrive(w) /\ Go(w, "postStepWait")
    BY <1>0, <1>12 DEF WaitPostStep, AfterStep, Go, countVars, frameVars, history, OpensBarrier
  <2>2. Arrives(mPostStepBarrier, mPostStepBarrier', w)
    BY <1>0, <2>1, PostStepMoves DEF TypeInv
  <2>3. \A v \in Workers : pc'[v] = IF v = w THEN "postStepWait" ELSE pc[v]
    BY <1>0, <2>1 DEF Go
  <2>4. \A v \in Workers : FoundNone(v)' => FoundNone(v)
    BY <2>1, <2>2, <2>3 DEF FoundNone, Arrives, countVars
  <2>5. QED
    BY <1>0, <1>1, <1>12, <2>1, <2>3, <2>4, WalkJobs
<1>13. CASE WaitPostStep(w) /\ OpensBarrier(w)
  BY <1>13, OpenPostStepJobs
<1>14. CASE LeavePostStep(w)
  <2>1. /\ UNCHANGED <<countVars, mPreStepBarrier, mPostSimBarrier>> /\ ~OpensBarrier(w)
        /\ pc[w] = "postStepWait" /\ PostStep!Leave(w) /\ AfterStep(w, mRemainingSteps)
    BY <1>14 DEF LeavePostStep, countVars, frameVars, history, OpensBarrier
  <2>2. Leaves(mPostStepBarrier, mPostStepBarrier', w)
    BY <1>0, <2>1, PostStepMoves DEF TypeInv
  <2>3. PICK place \in {"fall", "loop"} : \A v \in Workers : pc'[v] = IF v = w THEN place ELSE pc[v]
    BY <1>0, <2>1 DEF Go, AfterStep
  <2>4. \A v \in Workers : FoundNone(v)' => FoundNone(v)
    BY <2>1, <2>2, <2>3 DEF FoundNone, Leaves, countVars
  <2>5. QED
    BY <1>0, <1>1, <2>1, <2>3, <2>4, WalkJobs
<1>15. CASE WaitPostSim(w) /\ ~OpensBarrier(w)
  <2>1. /\ UNCHANGED <<countVars, mPreStepBarrier, mPostStepBarrier>>
        /\ pc[w] = "postSim" /\ PostSim!Arrive(w) /\ Go(w, "postSimWait")
    BY <1>0, <1>15 DEF WaitPostSim, Go, countVars, frameVars, history, OpensBarrier
  <2>2. Arrives(mPostSimBarrier, mPostSimBarrier', w)
    BY <1>0, <2>1, PostSimMoves DEF TypeInv
  <2>3. \A v \in Workers : pc'[v] = IF v = w THEN "postSimWait" ELSE pc[v]
    BY <1>0, <2>1 DEF Go
  <2>4. \A v \in Workers : FoundNone(v)' => FoundNone(v)
    BY <2>1, <2>2, <2>3 DEF FoundNone, Arrives, countVars
  <2>5. QED
    BY <1>0, <1>1, <1>15, <2>1, <2>3, <2>4, WalkJobs
<1>16. CASE WaitPostSim(w) /\ OpensBarrier(w)
  BY <1>16, OpenPostSimJobs
<1>17. CASE LeavePostSim(w)
  <2>1. /\ UNCHANGED <<countVars, mPreStepBarrier, mPostStepBarrier>> /\ ~OpensBarrier(w)
        /\ pc[w] = "postSimWait" /\ PostSim!Leave(w) /\ Go(w, "loop")
    BY <1>17 DEF LeavePostSim, countVars, frameVars, history, OpensBarrier
  <2>2. Leaves(mPostSimBarrier, mPostSimBarrier', w)
    BY <1>0, <2>1, PostSimMoves DEF TypeInv
  <2>3. \A v \in Workers : pc'[v] = IF v = w THEN "loop" ELSE pc[v]
    BY <1>0, <2>1 DEF Go
  <2>4. \A v \in Workers : FoundNone(v)' => FoundNone(v)
    BY <2>1, <2>2, <2>3 DEF FoundNone, Leaves, countVars
  <2>5. QED
    BY <1>0, <1>1, <2>1, <2>3, <2>4, WalkJobs
<1>18. QED
  BY <1>3, <1>4, <1>5, <1>6, <1>7, <1>8, <1>9, <1>10, <1>11, <1>12, <1>13, <1>14, <1>15, <1>16, <1>17
  DEF Worker

\* The main thread changes the counts only while no worker holds mSimulationMutex.
LEMMA MainJobs ==
    ASSUME CountsInv, MainStart \/ MainStep
    PROVE  JobInv'
<1>0. /\ StageInv /\ TypeInv /\ JobInv /\ pc \in [Workers -> WorkerPCs] /\ job \in [Workers -> Nat]
  BY CountFacts
<1>1. SameStage
  BY <1>0, MainStage
<1>2. ASSUME UNCHANGED <<countVars, barrierVars>>,
             \A v \in Workers : pc'[v] = pc[v] \/ (pc[v] = "waiting" /\ pc'[v] = "woken")
      PROVE  JobInv'
  <2>1. \A v \in Workers : FoundNone(v)' => FoundNone(v)
    BY <1>2 DEF FoundNone, Asleep, barrierVars, countVars
  <2>2. \A v \in Workers : pc'[v] # pc[v] => {pc[v], pc'[v]} \cap {"moving", "falling"} = {}
    BY <1>2
  <2>3. QED
    BY <1>0, <1>1, <1>2, <2>1, <2>2, WalkJobs
<1>3. ASSUME ExclusiveFree, UNCHANGED <<barrierVars, pc>>
      PROVE  ClaimsInv' /\ ExhaustedInv'
  <2>1. \A v \in Workers : pc'[v] \in {"start", "waiting", "woken", "stopped"}
    BY <1>3 DEF ExclusiveFree, HoldsShared
  <2>2. QED
    BY <2>1 DEF ClaimsInv, ExhaustedInv, FoundNone
<1>4. CASE MainStart \/ updateSingleAabb \/ Join
  <2>1. UNCHANGED <<countVars, barrierVars, pc>>
    BY <1>4
    DEF MainStart, AddActor, RemoveActor, MoveObject, getLineOfSight, CallMoveActors, CallResetSimulation,
        CallDestructor, Call, updateSingleAabb, Join, workersUnchanged, workerVars, frameVars, history, countVars
  <2>2. QED
    BY <1>2, <2>1
<1>5. ASSUME NEW n \in 0..MaxSteps, NEW data \in FrameData, moveActors(n, data) PROVE JobInv'
  <2>1. ClaimsInv' /\ ExhaustedInv'
    BY <1>3, <1>5 DEF moveActors, workersUnchanged, workerVars
  <2>2. Len(data) \in Nat /\ n \in Nat
    <3>1. IsFiniteSet(scene)
      BY <1>0, SceneAssumption, FS_Subset DEF TypeInv, SceneTypes
    <3>2. Cardinality(scene) \in Nat
      BY <3>1, FS_CardinalityType
    <3>3. QED
      BY <3>2, SceneAssumption DEF FrameData
  <2>3. /\ mNumJobs' = Len(data) /\ mRemainingSteps' = n /\ mNewFrame' = TRUE /\ mNextJob' = 0
        /\ steps' = n /\ done' = 0 /\ mQuit' = mQuit
        /\ moved' = [i \in 1..Len(data) |-> 0] /\ fell' = [i \in 1..Len(data) |-> 0]
    BY <1>5 DEF moveActors
  <2>4. /\ Len(moved') = Len(data) /\ Len(fell') = Len(data)
        /\ \A j \in 1..Len(data) : moved'[j] = 0 /\ fell'[j] = 0
    BY <2>2, <2>3
  <2>5. NextInv' /\ LenInv' /\ FrameComplete'
    BY <2>3, <2>4 DEF NextInv, LenInv, FrameComplete
  <2>6. CountInv'
    <3>1. \A place, j : j \in 1..Len(data) => ~Handled(place, j)'
      BY <2>2, <2>3 DEF Handled
    <3>2. QED
      BY <2>2, <2>3, <2>4, <3>1 DEF CountInv
  <2>7. QED
    BY <2>1, <2>5, <2>6 DEF JobInv
<1>6. CASE resetSimulation
  <2>1. ClaimsInv' /\ ExhaustedInv'
    BY <1>3, <1>6 DEF resetSimulation, workersUnchanged, workerVars
  <2>2. /\ moved' = <<>> /\ fell' = <<>>
        /\ UNCHANGED <<mNumJobs, mRemainingSteps, mNewFrame, mQuit, mNextJob, steps, done>>
    BY <1>6 DEF resetSimulation
  <2>3. LenInv' /\ FrameComplete' /\ CountInv'
    BY <1>0, <2>2 DEF JobInv, LenInv, FrameComplete, CountInv
  <2>4. NextInv'
    BY <1>0, <1>1, <2>2 DEF JobInv, NextInv, SameStage, AllMove, AllFall
  <2>5. QED
    BY <2>1, <2>3, <2>4 DEF JobInv
<1>7. CASE Quit
  <2>1. ClaimsInv' /\ ExhaustedInv'
    BY <1>3, <1>7 DEF Quit, workersUnchanged, workerVars
  <2>2. mQuit'
    BY <1>7 DEF Quit
  <2>3. QED
    BY <2>1, <2>2 DEF JobInv, NextInv, LenInv, CountInv, FrameComplete
<1>8. ASSUME NEW from, NEW to, notify_all(from, to) PROVE JobInv'
  <2>1. UNCHANGED <<countVars, barrierVars>> /\ pc' = Notified
    BY <1>8 DEF notify_all, countVars, frameVars, history
  <2>2. \A v \in Workers : pc'[v] = pc[v] \/ (pc[v] = "waiting" /\ pc'[v] = "woken")
    BY <2>1 DEF Notified
  <2>3. QED
    BY <1>2, <2>1, <2>2
<1>9. QED
  BY <1>4, <1>5, <1>6, <1>7, <1>8 DEF MainStep

LEMMA CountsInvInit == Init => CountsInv
<1> SUFFICES ASSUME Init PROVE CountsInv
  OBVIOUS
<1>1. ClaimsInv /\ ExhaustedInv
  BY DEF Init, ClaimsInv, ExhaustedInv, FoundNone
<1>2. NextInv /\ LenInv /\ CountInv /\ FrameComplete
  BY DEF Init, NextInv, LenInv, CountInv, FrameComplete
<1>3. QED
  BY <1>1, <1>2, FrameInvInit, StageInvInit DEF CountsInv, JobInv

LEMMA CountsInvStep == CountsInv /\ [Next]_vars => CountsInv'
<1> SUFFICES ASSUME CountsInv, [Next]_vars PROVE CountsInv'
  OBVIOUS
<1>0. FrameInv /\ StageInv /\ JobInv /\ TypeInv
  BY DEF CountsInv, FrameInv
<1>1. FrameInv'
  BY <1>0, FrameInvStep
<1>2. CASE MainStart \/ MainStep
  BY <1>0, <1>1, <1>2, MainStage, MainJobs DEF CountsInv
<1>3. ASSUME NEW w \in Workers, Worker(w) \/ SpuriousWakeup(w) PROVE CountsInv'
  BY <1>0, <1>1, <1>3, WorkerStage, WorkerJobs DEF CountsInv
<1>4. CASE Terminated \/ UNCHANGED vars
  <2>1. UNCHANGED vars
    BY <1>4 DEF Terminated
  <2>2. StageInv'
    BY <1>0, <2>1 DEF vars, barrierVars, workerVars, frameVars, StageInv, PlaceInv, Inside, AllMove, AllFall, AllGather,
                      Moves, Falls, Asleep
  <2>3. SameStage
    BY <2>1 DEF vars, barrierVars, workerVars, frameVars, SameStage, Moves, Falls, Asleep
  <2>4. \A v \in Workers : pc'[v] = pc[v] /\ (FoundNone(v)' => FoundNone(v))
    BY <2>1 DEF vars, barrierVars, workerVars, frameVars, FoundNone, Asleep
  <2>5. UNCHANGED countVars
    BY <2>1 DEF vars, countVars, frameVars, workerVars, history
  <2>6. JobInv'
    BY <1>0, <2>3, <2>4, <2>5, WalkJobs
  <2>7. QED
    BY <1>1, <2>2, <2>6 DEF CountsInv
<1>5. QED
  BY <1>2, <1>3, <1>4 DEF Next

\* Every actor of the frame is moved once in every step, by one worker: no step ends
\* before all are moved, and no worker that is late moves one again.
THEOREM OncePerStep == Spec => []MovedOncePerStep
<1>1. CountsInv => MovedOncePerStep
  <2> SUFFICES ASSUME CountsInv, ~mQuit, NEW j \in 1..Len(moved) PROVE moved[j] \in {done, done + 1}
    BY DEF MovedOncePerStep
  <2>1. JobInv
    BY CountFacts
  <2>2. CASE mNewFrame
    BY <2>1, <2>2 DEF JobInv, CountInv
  <2>3. CASE ~mNewFrame
    BY <2>1, <2>3 DEF JobInv, FrameComplete
  <2>4. QED
    BY <2>2, <2>3
<1>2. QED
  BY <1>1, CountsInvInit, CountsInvStep, PTL DEF Spec

\* When the workers are done with a frame it has had all its steps, and every actor's
\* fall was handled once.
THEOREM FramesComplete == Spec => []FrameComplete
<1>1. CountsInv => FrameComplete
  BY CountFacts DEF JobInv
<1>2. QED
  BY <1>1, CountsInvInit, CountsInvStep, PTL DEF Spec

-----------------------------------------------------------------------------
(* Objects are in their new places before actors move.                     *)

\* A worker that the callback of mPreStepBarrier has let into the stage that moves actors.
Released(w) == pc[w] \in {"move", "moving"} \/ (pc[w] = "preStepWait" /\ w \notin Asleep(mPreStepBarrier))

\* A change is queued, or it was made just now and updateSingleAabb follows; what is
\* older than the frame is queued, and gone once the batch of this step was committed.
AabbInv ==
    /\ \A o \in Objects : transform[o] = "old" => mDeferAabbUpdate /\ o \in mUpdateAabb
    /\ \A o \in Objects : transform[o] = "new" => \/ mDeferAabbUpdate /\ o \in mUpdateAabb
                                                  \/ main = "updateSingleAabb" /\ target = o
    /\ \A w \in Workers : Released(w) => \A o \in Objects : transform[o] # "old"

\* Steps that change no object and release no worker.
LEMMA AabbKept ==
    ASSUME AabbInv, UNCHANGED aabbVars,
           UNCHANGED mainVars \/ main # "updateSingleAabb",
           \A w \in Workers : Released(w)' => Released(w)
    PROVE  AabbInv'
BY DEF AabbInv, aabbVars, mainVars

LEMMA WorkerAabb ==
    ASSUME CountsInv, AabbInv, NEW w \in Workers, Worker(w) \/ SpuriousWakeup(w)
    PROVE  AabbInv'
<1>0. StageInv /\ TypeInv /\ BarriersInv /\ pc \in [Workers -> WorkerPCs]
  BY CountFacts DEF TypeInv
<1>1. UNCHANGED mainVars
  BY DEF Worker, SpuriousWakeup, Start, Loop, Wake, WaitPreStep, LeavePreStep, ClaimMove, SkipMoves, Move,
         WaitPostStep, LeavePostStep, ClaimFall, handleFall, LockLOSCache, RefreshLOS, WaitPostSim,
         LeavePostSim, Claim
<1>2. CASE WaitPreStep(w)
  <2>1. CASE PreStep!Arrive(w) /\ Go(w, "preStepWait") /\ UNCHANGED aabbVars
    <3>1. Arrives(mPreStepBarrier, mPreStepBarrier', w)
      BY <1>0, <2>1, PreStepMoves
    <3>2. \A v \in Workers : pc'[v] = IF v = w THEN "preStepWait" ELSE pc[v]
      BY <1>0, <2>1 DEF Go
    <3>3. \A v \in Workers : Released(v)' => Released(v)
      BY <3>1, <3>2 DEF Released, Arrives
    <3>4. QED
      BY <1>1, <2>1, <3>3, AabbKept
  <2>2. CASE PreStep!Open(w) /\ Go(w, "move") /\ afterPreStep
    <3>1. CASE mDeferAabbUpdate
      <4>1. transform' = Committed
        BY <2>2, <3>1 DEF afterPreStep
      <4>2. \A o \in Objects : transform'[o] = IF o \in mUpdateAabb THEN "clean" ELSE transform[o]
        BY <4>1 DEF Committed
      <4>3. \A o \in Objects : transform'[o] # "old"
        BY <4>2 DEF AabbInv
      <4>4. \A o \in Objects : transform'[o] = "new" => main = "updateSingleAabb" /\ target = o
        BY <4>2 DEF AabbInv
      <4>5. QED
        BY <1>1, <4>3, <4>4 DEF AabbInv, mainVars
    <3>2. CASE ~mDeferAabbUpdate
      <4>1. UNCHANGED aabbVars
        BY <2>2, <3>2 DEF afterPreStep
      <4>2. QED
        BY <1>1, <3>2, <4>1 DEF AabbInv, aabbVars, mainVars
    <3>3. QED
      BY <3>1, <3>2
  <2>3. QED
    BY <1>2, <2>1, <2>2 DEF WaitPreStep
<1>3. CASE LeavePreStep(w)
  <2>1. Leaves(mPreStepBarrier, mPreStepBarrier', w) /\ pc[w] = "preStepWait" /\ Go(w, "move") /\ UNCHANGED aabbVars
    BY <1>0, <1>3, PreStepMoves DEF LeavePreStep
  <2>2. \A v \in Workers : pc'[v] = IF v = w THEN "move" ELSE pc[v]
    BY <1>0, <2>1 DEF Go
  <2>3. \A v \in Workers : Released(v)' => Released(v)
    BY <2>1, <2>2 DEF Released, Leaves
  <2>4. QED
    BY <1>1, <2>1, <2>3, AabbKept
<1>4. ASSUME UNCHANGED <<aabbVars, mPreStepBarrier>>, NEW place, pc' = [pc EXCEPT ![w] = place],
             place \in {"move", "moving"} => pc[w] \in {"move", "moving"}, place # "preStepWait"
      PROVE  AabbInv'
  <2>1. \A v \in Workers : Released(v)' => Released(v)
    BY <1>0, <1>4 DEF Released, Asleep
  <2>2. QED
    BY <1>1, <1>4, <2>1, AabbKept
<1>5. CASE Start(w) \/ Loop(w) \/ Wake(w) \/ SpuriousWakeup(w)
  BY <1>4, <1>5 DEF Start, Loop, Wake, SpuriousWakeup, Go, barrierVars
<1>6. CASE ClaimMove(w) \/ ClaimFall(w)
  BY <1>4, <1>6 DEF ClaimMove, ClaimFall, Claim, Go, barrierVars
<1>7. CASE SkipMoves(w) \/ Move(w) \/ handleFall(w) \/ LockLOSCache(w)
  BY <1>4, <1>7 DEF SkipMoves, Move, handleFall, LockLOSCache, Go, barrierVars
<1>8. CASE RefreshLOS(w)
  <2>1. UNCHANGED <<aabbVars, mPreStepBarrier>> /\ (pc' = pc \/ pc' = [pc EXCEPT ![w] = "postSim"])
    BY <1>8 DEF RefreshLOS, Go, barrierVars
  <2>2. \A v \in Workers : Released(v)' => Released(v)
    BY <1>0, <2>1 DEF Released, Asleep
  <2>3. QED
    BY <1>1, <2>1, <2>2, AabbKept
<1>9. CASE WaitPostStep(w) \/ LeavePostStep(w)
  BY <1>4, <1>9 DEF WaitPostStep, LeavePostStep, AfterStep, Go
<1>10. CASE WaitPostSim(w) \/ LeavePostSim(w)
  BY <1>4, <1>10 DEF WaitPostSim, LeavePostSim, Go
<1>11. QED
  BY <1>2, <1>3, <1>5, <1>6, <1>7, <1>8, <1>9, <1>10 DEF Worker

LEMMA MainAabb ==
    ASSUME CountsInv, AabbInv, MainStart \/ MainStep
    PROVE  AabbInv'
<1>0. TypeInv /\ transform \in [Objects -> Transforms]
  BY CountFacts DEF TypeInv, AabbTypes
<1>1. ASSUME UNCHANGED <<barrierVars, pc>> PROVE \A w \in Workers : Released(w)' <=> Released(w)
  BY <1>1 DEF barrierVars, Released, Asleep
<1>2. ASSUME NEW o \in Objects, MoveObject(o) PROVE AabbInv'
  <2>1. \A w \in Workers : Released(w)' <=> Released(w)
    BY <1>1, <1>2 DEF MoveObject, workersUnchanged, workerVars
  <2>2. \A p \in Objects : transform'[p] = IF p = o THEN (IF transform[o] = "old" THEN "old" ELSE "new")
                                           ELSE transform[p]
    BY <1>0, <1>2 DEF MoveObject
  <2>3. main = "idle" /\ main' = "updateSingleAabb" /\ target' = o /\ mUpdateAabb' = mUpdateAabb
    BY <1>2 DEF MoveObject
  <2>4. QED
    BY <2>1, <2>2, <2>3 DEF AabbInv
<1>3. CASE updateSingleAabb
  <2>1. \A w \in Workers : Released(w)' <=> Released(w)
    BY <1>1, <1>3 DEF updateSingleAabb, workersUnchanged, workerVars
  <2>2. CASE mDeferAabbUpdate
    BY <1>3, <2>1, <2>2 DEF updateSingleAabb, AabbInv
  <2>3. CASE ~mDeferAabbUpdate
    <3>1. \A p \in Objects : transform'[p] = IF p = target THEN "clean" ELSE transform[p]
      BY <1>0, <1>3, <2>3 DEF updateSingleAabb
    <3>2. QED
      BY <1>3, <2>1, <2>3, <3>1 DEF updateSingleAabb, AabbInv
  <2>4. QED
    BY <2>2, <2>3
<1>4. ASSUME NEW n \in 0..MaxSteps, NEW data \in FrameData, moveActors(n, data) PROVE AabbInv'
  <2>1. \A p \in Objects : transform'[p] = IF transform[p] = "new" THEN "old" ELSE transform[p]
    BY <1>4 DEF moveActors
  <2>2. main = "moveActors" /\ mUpdateAabb' = mUpdateAabb
    BY <1>4 DEF moveActors
  <2>3. \A w \in Workers : ~Released(w)'
    <3>1. \A w \in Workers : pc'[w] \in {"start", "waiting", "woken", "stopped"}
      BY <1>4 DEF moveActors, ExclusiveFree, HoldsShared, workersUnchanged, workerVars
    <3>2. QED
      BY <3>1 DEF Released
  <2>4. QED
    BY <2>1, <2>2, <2>3 DEF AabbInv
<1>5. ASSUME NEW from, NEW to, notify_all(from, to), from # "updateSingleAabb" PROVE AabbInv'
  <2>1. \A w \in Workers : Released(w)' => Released(w)
    BY <1>5 DEF notify_all, Notified, barrierVars, Released, Asleep
  <2>2. UNCHANGED aabbVars /\ main # "updateSingleAabb"
    BY <1>5 DEF notify_all
  <2>3. QED
    BY <2>1, <2>2, AabbKept
<1>6. ASSUME UNCHANGED <<aabbVars, barrierVars, pc>>, main # "updateSingleAabb" PROVE AabbInv'
  BY <1>1, <1>6, AabbKept
<1>7. CASE (\E a \in Actors : AddActor(a) \/ RemoveActor(a)) \/ (\E p \in Pairs : getLineOfSight(p))
  BY <1>6, <1>7 DEF AddActor, RemoveActor, getLineOfSight, workersUnchanged, workerVars
<1>8. CASE CallMoveActors \/ CallResetSimulation \/ CallDestructor
  BY <1>6, <1>8 DEF CallMoveActors, CallResetSimulation, CallDestructor, Call, workersUnchanged, workerVars
<1>9. CASE resetSimulation \/ Quit \/ Join
  BY <1>6, <1>9 DEF resetSimulation, Quit, Join, workersUnchanged, workerVars
<1>10. QED
  BY <1>2, <1>3, <1>4, <1>5, <1>7, <1>8, <1>9 DEF MainStart, MainStep

\* Changes of objects made before the frame was posted are in the collision world when
\* an actor moves.
THEOREM AabbsInTime == Spec => []AabbsUpdatedBeforeMoves
<1>1. Init => AabbInv
  BY DEF Init, AabbInv, Released
<1>2. CountsInv /\ AabbInv /\ [Next]_vars => AabbInv'
  <2> SUFFICES ASSUME CountsInv, AabbInv, [Next]_vars PROVE AabbInv'
    OBVIOUS
  <2>1. CASE Terminated \/ UNCHANGED vars
    BY <2>1, AabbKept DEF Terminated, vars, aabbVars, mainVars, barrierVars, workerVars, Released, Asleep
  <2>2. QED
    BY <2>1, WorkerAabb, MainAabb DEF Next
<1>3. AabbInv => AabbsUpdatedBeforeMoves
  BY DEF AabbInv, AabbsUpdatedBeforeMoves, Released
<1>4. QED
  BY <1>1, <1>2, <1>3, CountsInvInit, CountsInvStep, PTL DEF Spec

-----------------------------------------------------------------------------
(* The lines of sight of a frame.                                          *)

\* A request that was computed for this frame, or is about to be dropped.
Seen(req) == req.fresh \/ req.mStale

\* Requests are taken in their order; when a worker has found none left all were.
LosInv ==
    /\ mLOSCacheExpiry < 0 => Len(mLOSCache) = 0
    /\ \A i \in 1..Len(mLOSCache) : i <= mNextLOS => Seen(mLOSCache[i])
    /\ \A w \in Workers : pc[w] \in {"postSim", "postSimWait"} => \A i \in 1..Len(mLOSCache) : Seen(mLOSCache[i])
    /\ LinesOfSightFresh

\* Steps that change no request.
LEMMA LosKept ==
    ASSUME LosInv, UNCHANGED <<mLOSCache, mNextLOS, mNewFrame>>,
           \A w \in Workers : pc'[w] \in {"postSim", "postSimWait"} =>
                \/ pc[w] \in {"postSim", "postSimWait"}
                \/ \A i \in 1..Len(mLOSCache) : Seen(mLOSCache[i])
    PROVE  LosInv'
BY DEF LosInv, LinesOfSightFresh

\* One request is refreshed: it is seen, and is still about its pair.
LEMMA RefreshLos ==
    ASSUME TypeInv, LosInv, NEW w \in Workers, RefreshLOS(w)
    PROVE  LosInv'
<1>0. pc \in [Workers -> WorkerPCs] /\ mNextLOS \in Nat /\ mLOSCache \in Seq(LOSRequest)
  BY DEF TypeInv, WorkerTypes, FrameTypes, CacheTypes
<1>1. mNextLOS' = mNextLOS + 1 /\ UNCHANGED mNewFrame
  BY DEF RefreshLOS
<1>2. CASE mNextLOS < Len(mLOSCache)
  <2> DEFINE n == mNextLOS + 1
  <2>1. mLOSCache' = [mLOSCache EXCEPT ![n] = Refreshed(mLOSCache[n])] /\ pc' = pc
    BY <1>0, <1>2 DEF RefreshLOS
  <2>2. n \in 1..Len(mLOSCache) /\ Len(mLOSCache') = Len(mLOSCache)
    BY <1>0, <1>2, <2>1
  <2>3. \A i \in 1..Len(mLOSCache) : mLOSCache'[i] = IF i = n THEN Refreshed(mLOSCache[n]) ELSE mLOSCache[i]
    BY <1>0, <2>1, <2>2
  <2>4. ASSUME NEW req \in LOSRequest
        PROVE  /\ Seen(Refreshed(req)) /\ Refreshed(req).pair = req.pair
               /\ req.fresh => Refreshed(req).fresh
    BY DEF Refreshed, Seen, LOSRequest
  <2>5. mLOSCache[n] \in LOSRequest
    BY <1>0, <2>2
  <2>6. \A i \in 1..Len(mLOSCache) : /\ mLOSCache'[i].pair = mLOSCache[i].pair
                                     /\ mLOSCache[i].fresh => mLOSCache'[i].fresh
                                     /\ i = n \/ Seen(mLOSCache[i]) => Seen(mLOSCache'[i])
    BY <2>3, <2>4, <2>5
  <2>7. \A i \in 1..Len(mLOSCache) : i <= n => i = n \/ i <= mNextLOS
    BY <1>0
  <2>8. (\A i \in 1..Len(mLOSCache) : i <= mNextLOS + 1 => Seen(mLOSCache'[i]))
    BY <2>6, <2>7 DEF LosInv
  <2>9. mLOSCacheExpiry < 0 => Len(mLOSCache') = 0
    BY <2>2 DEF LosInv
  <2>10. \A v \in Workers : pc[v] \in {"postSim", "postSimWait"} => \A i \in 1..Len(mLOSCache) : Seen(mLOSCache'[i])
    BY <2>6 DEF LosInv
  <2>11. LinesOfSightFresh'
    BY <1>1, <2>2, <2>6 DEF LosInv, LinesOfSightFresh
  <2>12. QED
    BY <1>1, <2>1, <2>2, <2>8, <2>9, <2>10, <2>11 DEF LosInv
<1>3. CASE ~(mNextLOS < Len(mLOSCache))
  <2>1. mLOSCache' = mLOSCache
    BY <1>3 DEF RefreshLOS
  <2>2. \A i \in 1..Len(mLOSCache) : Seen(mLOSCache[i])
    BY <1>0, <1>3 DEF LosInv
  <2>3. QED
    BY <1>1, <2>1, <2>2 DEF LosInv, LinesOfSightFresh
<1>4. QED
  BY <1>2, <1>3

\* The frame is done: what is stale is dropped, the rest was computed in it.
LEMMA EraseLos ==
    ASSUME TypeInv, LosInv, NEW w \in Workers, pc[w] = "postSim", afterPostSim
    PROVE  LosInv'
<1>0. pc \in [Workers -> WorkerPCs] /\ mNextLOS \in Nat /\ mLOSCache \in Seq(LOSRequest)
  BY DEF TypeInv, WorkerTypes, FrameTypes, CacheTypes
<1>1. \A i \in 1..Len(mLOSCache) : Seen(mLOSCache[i])
  BY DEF LosInv
<1>2. CASE ~(mLOSCacheExpiry >= 0)
  <2>1. Len(mLOSCache) = 0 /\ mLOSCache' = mLOSCache
    BY <1>2, SceneAssumption DEF afterPostSim, LosInv
  <2>2. QED
    BY <1>1, <2>1 DEF LosInv, LinesOfSightFresh
<1>3. CASE mLOSCacheExpiry >= 0
  <2> DEFINE kept == { i \in 1..Len(mLOSCache) : NotStale(mLOSCache[i]) }
             m == Cardinality(kept)
  <2>1. PICK order \in Increasing(m, kept) : mLOSCache' = [i \in 1..m |-> mLOSCache[order[i]]]
    BY <1>3 DEF afterPostSim, EraseStale
  <2>2. m \in Nat
    <3>1. IsFiniteSet(1..Len(mLOSCache))
      BY <1>0, FS_Interval
    <3>2. IsFiniteSet(kept)
      BY <3>1, FS_Subset
    <3>3. QED
      BY <3>2, FS_CardinalityType
  <2> HIDE DEF m
  <2>3. /\ \A i \in 1..m : order[i] \in kept
        /\ \A i, k \in 1..m : i < k => order[i] < order[k]
    BY <2>1 DEF Increasing
  <2>4. Len(mLOSCache') = m /\ \A i \in 1..m : mLOSCache'[i] = mLOSCache[order[i]]
    BY <2>1, <2>2
  <2>5. \A i \in 1..m : order[i] \in 1..Len(mLOSCache) /\ mLOSCache'[i].fresh
    BY <1>1, <2>3, <2>4 DEF Seen, NotStale
  <2>6. ASSUME NEW i \in 1..m, NEW k \in 1..m, mLOSCache'[i].pair = mLOSCache'[k].pair PROVE i = k
    <3>1. order[i] = order[k]
      BY <2>4, <2>5, <2>6 DEF LosInv, LinesOfSightFresh
    <3>2. order[i] \in Nat
      BY <1>0, <2>5
    <3>3. ~(i < k) /\ ~(k < i)
      BY <2>3, <3>1, <3>2
    <3>4. QED
      BY <2>2, <3>3
  <2>7. LinesOfSightFresh'
    BY <2>4, <2>5, <2>6 DEF LinesOfSightFresh
  <2>8. QED
    BY <1>3, <2>4, <2>5, <2>7, SceneAssumption DEF LosInv, Seen
<1>4. QED
  BY <1>2, <1>3

LEMMA WorkerLos ==
    ASSUME TypeInv, LosInv, NEW w \in Workers, Worker(w) \/ SpuriousWakeup(w)
    PROVE  LosInv'
<1>0. pc \in [Workers -> WorkerPCs]
  BY DEF TypeInv, WorkerTypes
<1>1. ASSUME UNCHANGED <<mLOSCache, mNextLOS, mNewFrame>>, NEW place, pc' = [pc EXCEPT ![w] = place],
             place \in {"postSim", "postSimWait"} => \/ pc[w] \in {"postSim", "postSimWait"}
                                                     \/ mLOSCacheExpiry < 0
      PROVE  LosInv'
  <2>1. mLOSCacheExpiry < 0 => \A i \in 1..Len(mLOSCache) : Seen(mLOSCache[i])
    BY DEF LosInv
  <2>2. QED
    BY <1>0, <1>1, <2>1, LosKept
<1>2. CASE Start(w) \/ Loop(w) \/ Wake(w) \/ SpuriousWakeup(w)
  BY <1>1, <1>2 DEF Start, Loop, Wake, SpuriousWakeup, Go, frameVars
<1>3. CASE WaitPreStep(w) \/ LeavePreStep(w)
  BY <1>1, <1>3 DEF WaitPreStep, LeavePreStep, afterPreStep, Go, frameVars
<1>4. CASE ClaimMove(w)
  BY <1>1, <1>4 DEF ClaimMove, Claim, Go
<1>5. CASE SkipMoves(w) \/ Move(w) \/ handleFall(w) \/ LockLOSCache(w)
  BY <1>1, <1>5 DEF SkipMoves, Move, handleFall, LockLOSCache, Go, frameVars
<1>6. CASE WaitPostStep(w) \/ LeavePostStep(w)
  BY <1>1, <1>6 DEF WaitPostStep, LeavePostStep, afterPostStep, AfterStep, Go, frameVars
<1>7. CASE ClaimFall(w)
  BY <1>1, <1>7, SceneAssumption DEF ClaimFall, Claim, Go
<1>8. CASE RefreshLOS(w)
  BY <1>8, RefreshLos
<1>9. CASE WaitPostSim(w)
  <2>1. CASE PostSim!Arrive(w) /\ Go(w, "postSimWait") /\ UNCHANGED <<frameVars, mLOSCache>>
    BY <1>1, <1>9, <2>1 DEF WaitPostSim, Go, frameVars
  <2>2. CASE PostSim!Open(w) /\ Go(w, "loop") /\ afterPostSim
    BY <1>9, <2>2, EraseLos DEF WaitPostSim
  <2>3. QED
    BY <1>9, <2>1, <2>2 DEF WaitPostSim
<1>10. CASE LeavePostSim(w)
  BY <1>1, <1>10 DEF LeavePostSim, Go, frameVars
<1>11. QED
  BY <1>2, <1>3, <1>4, <1>5, <1>6, <1>7, <1>8, <1>9, <1>10 DEF Worker

\* A request is asked for: it is there already, or it is new and computed at once.
LEMMA AskLos ==
    ASSUME TypeInv, LosInv, NEW p \in Pairs, getLineOfSight(p)
    PROVE  LosInv'
<1>0. mNextLOS \in Nat /\ mLOSCache \in Seq(LOSRequest)
  BY DEF TypeInv, FrameTypes, CacheTypes
<1>1. UNCHANGED <<mNextLOS, mNewFrame, pc>>
  BY DEF getLineOfSight, frameVars, workersUnchanged, workerVars
<1> DEFINE cached == { i \in 1..Len(mLOSCache) : mLOSCache[i].pair = p }
<1>2. CASE cached # {}
  <2>1. mLOSCache' = [i \in 1..Len(mLOSCache) |->
                        IF i \in cached THEN [mLOSCache[i] EXCEPT !.mAge = 0] ELSE mLOSCache[i]]
    BY <1>2 DEF getLineOfSight
  <2>2. Len(mLOSCache') = Len(mLOSCache)
    BY <1>0, <2>1
  <2>3. ASSUME NEW i \in 1..Len(mLOSCache)
        PROVE  /\ mLOSCache'[i].pair = mLOSCache[i].pair /\ mLOSCache'[i].fresh = mLOSCache[i].fresh
               /\ mLOSCache'[i].mStale = mLOSCache[i].mStale
    <3>1. mLOSCache[i] \in LOSRequest
      BY <1>0
    <3>2. mLOSCache'[i] = mLOSCache[i] \/ mLOSCache'[i] = [mLOSCache[i] EXCEPT !.mAge = 0]
      BY <2>1
    <3>3. QED
      BY <3>1, <3>2 DEF LOSRequest
  <2>4. QED
    BY <1>1, <2>2, <2>3 DEF LosInv, LinesOfSightFresh, Seen
<1>3. CASE cached = {} /\ mLOSCacheExpiry >= 0
  <2>1. mLOSCache' = Append(mLOSCache, NewRequest(p))
    BY <1>3 DEF getLineOfSight
  <2>2. /\ Len(mLOSCache') = Len(mLOSCache) + 1
        /\ \A i \in 1..Len(mLOSCache) : mLOSCache'[i] = mLOSCache[i]
        /\ mLOSCache'[Len(mLOSCache) + 1] = NewRequest(p)
    BY <1>0, <2>1
  <2>3. NewRequest(p).fresh /\ Seen(NewRequest(p)) /\ NewRequest(p).pair = p
    BY DEF NewRequest, Seen
  <2>4. \A i \in 1..Len(mLOSCache) : mLOSCache[i].pair # p
    BY <1>3
  <2>5. \A i \in 1..Len(mLOSCache') : i \in 1..Len(mLOSCache) \/ i = Len(mLOSCache) + 1
    BY <1>0, <2>2
  <2>6. LinesOfSightFresh'
    BY <1>1, <2>2, <2>3, <2>4, <2>5 DEF LosInv, LinesOfSightFresh
  <2>7. (\A i \in 1..Len(mLOSCache) : Seen(mLOSCache[i])) => \A i \in 1..Len(mLOSCache') : Seen(mLOSCache'[i])
    BY <2>2, <2>3, <2>5
  <2>8. \A i \in 1..Len(mLOSCache') : i <= mNextLOS => Seen(mLOSCache'[i])
    BY <2>2, <2>3, <2>5 DEF LosInv
  <2>9. QED
    BY <1>1, <1>3, <2>6, <2>7, <2>8, SceneAssumption DEF LosInv
<1>4. CASE cached = {} /\ ~(mLOSCacheExpiry >= 0)
  <2>1. mLOSCache' = mLOSCache
    BY <1>4 DEF getLineOfSight
  <2>2. QED
    BY <1>1, <2>1, LosKept
<1>5. QED
  BY <1>2, <1>3, <1>4

LEMMA MainLos ==
    ASSUME TypeInv, LosInv, MainStart \/ MainStep
    PROVE  LosInv'
<1>0. pc \in [Workers -> WorkerPCs] /\ mLOSCache \in Seq(LOSRequest)
  BY DEF TypeInv, WorkerTypes, CacheTypes
<1>1. ASSUME UNCHANGED <<mLOSCache, mNextLOS, mNewFrame, pc>> PROVE LosInv'
  BY <1>1, LosKept
<1>2. CASE \/ \E a \in Actors : AddActor(a) \/ RemoveActor(a)
           \/ \E o \in Objects : MoveObject(o)
           \/ CallMoveActors \/ CallResetSimulation \/ CallDestructor
  BY <1>1, <1>2
  DEF AddActor, RemoveActor, MoveObject, CallMoveActors, CallResetSimulation, CallDestructor, Call,
      workersUnchanged, workerVars, frameVars
<1>3. CASE updateSingleAabb \/ resetSimulation \/ Quit \/ Join
  BY <1>1, <1>3
  DEF updateSingleAabb, resetSimulation, Quit, Join, workersUnchanged, workerVars, frameVars
<1>4. CASE \E p \in Pairs : getLineOfSight(p)
  BY <1>4, AskLos
<1>5. ASSUME NEW from, NEW to, notify_all(from, to) PROVE LosInv'
  BY <1>5, LosKept DEF notify_all, Notified, frameVars
<1>6. ASSUME NEW n \in 0..MaxSteps, NEW data \in FrameData, moveActors(n, data) PROVE LosInv'
  <2>1. \A w \in Workers : pc'[w] \in {"start", "waiting", "woken", "stopped"}
    BY <1>6 DEF moveActors, ExclusiveFree, HoldsShared, workersUnchanged, workerVars
  <2>2. mNextLOS' = 0 /\ mNewFrame' = TRUE
    BY <1>6 DEF moveActors
  <2>3. mLOSCache' = [i \in 1..Len(mLOSCache) |-> [mLOSCache[i] EXCEPT !.fresh = FALSE]]
    BY <1>6 DEF moveActors
  <2>4. Len(mLOSCache') = Len(mLOSCache)
    BY <1>0, <2>3
  <2>5. ASSUME NEW i \in 1..Len(mLOSCache) PROVE mLOSCache'[i].pair = mLOSCache[i].pair
    <3>1. mLOSCache[i] \in LOSRequest
      BY <1>0
    <3>2. mLOSCache'[i] = [mLOSCache[i] EXCEPT !.fresh = FALSE]
      BY <2>3
    <3>3. QED
      BY <3>1, <3>2 DEF LOSRequest
  <2>6. LinesOfSightFresh'
    BY <2>2, <2>4, <2>5 DEF LosInv, LinesOfSightFresh
  <2>7. \A i \in 1..Len(mLOSCache') : ~(i <= 0)
    BY <1>0, <2>4
  <2>8. mLOSCacheExpiry < 0 => Len(mLOSCache') = 0
    BY <2>4 DEF LosInv
  <2>9. QED
    BY <2>1, <2>2, <2>6, <2>7, <2>8 DEF LosInv
<1>7. QED
  BY <1>2, <1>3, <1>4, <1>5, <1>6 DEF MainStart, MainStep

\* When a frame is done all lines of sight in the cache were computed during that frame
\* or later, and no pair is there twice.
THEOREM FreshLinesOfSight == Spec => []LinesOfSightFresh
<1>1. Init => LosInv
  BY DEF Init, LosInv, LinesOfSightFresh
<1>2. TypeInv /\ LosInv /\ [Next]_vars => LosInv'
  <2> SUFFICES ASSUME TypeInv, LosInv, [Next]_vars PROVE LosInv'
    OBVIOUS
  <2>1. CASE Terminated \/ UNCHANGED vars
    BY <2>1, LosKept DEF Terminated, vars, frameVars, workerVars
  <2>2. QED
    BY <2>1, WorkerLos, MainLos DEF Next
<1>3. LosInv => LinesOfSightFresh
  BY DEF LosInv
<1>4. QED
  BY <1>1, <1>2, <1>3, TypeInvInit, TypeInvStep, PTL DEF Spec

=============================================================================
