--------------------- MODULE AsyncNavMeshUpdater_proofs ---------------------
(***************************************************************************)
(* Proofs about AsyncNavMeshUpdater, for any agents, tiles, threads,       *)
(* settings, arguments of post, and bounds.                                *)
(***************************************************************************)
EXTENDS AsyncNavMeshUpdater, SequenceTheorems, FiniteSetTheorems, TLAPS

-----------------------------------------------------------------------------
(* Facts about the operators.                                              *)

\* What std::deque::insert does to the elements before and after.
LEMMA InsertAtProperties ==
    ASSUME NEW S, NEW s \in Seq(S), NEW i \in 1..(Len(s) + 1), NEW e \in S
    PROVE  /\ InsertAt(s, i, e) \in Seq(S)
           /\ Len(InsertAt(s, i, e)) = Len(s) + 1
           /\ \A k \in 1..(Len(s) + 1) :
                InsertAt(s, i, e)[k] = IF k < i THEN s[k] ELSE IF k = i THEN e ELSE s[k - 1]
<1> DEFINE left == SubSeq(s, 1, i - 1)
           right == SubSeq(s, i, Len(s))
<1>1. /\ left \in Seq(S)
      /\ Len(left) = i - 1
      /\ \A k \in 1..(i - 1) : left[k] = s[k]
  BY SubSeqProperties
<1>2. /\ right \in Seq(S)
      /\ Len(right) = Len(s) - i + 1
      /\ \A k \in 1..(Len(s) - i + 1) : right[k] = s[i + k - 1]
  BY SubSeqProperties
<1> HIDE DEF left, right
<1>3. /\ <<e>> \in Seq(S) /\ Len(<<e>>) = 1 /\ <<e>>[1] = e
  OBVIOUS
<1> DEFINE front == left \o <<e>>
<1>4. /\ front \in Seq(S)
      /\ Len(front) = i
      /\ \A k \in 1..i : front[k] = IF k <= i - 1 THEN left[k] ELSE <<e>>[k - (i - 1)]
  BY <1>1, <1>3, ConcatProperties
<1> HIDE DEF front
<1>5. /\ front \o right \in Seq(S)
      /\ Len(front \o right) = Len(s) + 1
      /\ \A k \in 1..(Len(s) + 1) : (front \o right)[k] = IF k <= i THEN front[k] ELSE right[k - i]
  <2>1. /\ front \o right \in Seq(S)
        /\ Len(front \o right) = Len(front) + Len(right)
        /\ \A k \in 1..(Len(front) + Len(right)) :
             (front \o right)[k] = IF k <= Len(front) THEN front[k] ELSE right[k - Len(front)]
    BY <1>2, <1>4, ConcatProperties
  <2>2. Len(front) = i /\ Len(front) + Len(right) = Len(s) + 1
    BY <1>2, <1>4
  <2> QED
    BY ONLY <2>1, <2>2
<1>6. InsertAt(s, i, e) = front \o right
  BY DEF InsertAt, front, left, right
<1>7. ASSUME NEW k \in 1..(Len(s) + 1)
      PROVE  (front \o right)[k] = IF k < i THEN s[k] ELSE IF k = i THEN e ELSE s[k - 1]
  <2>1. CASE k < i
    BY <2>1, <1>1, <1>4, <1>5
  <2>2. CASE k = i
    BY <2>2, <1>3, <1>4, <1>5
  <2>3. CASE k > i
    <3>2. ~(k < i) /\ k # i /\ ~(k <= i)
      BY <2>3
    <3>1. k - i \in 1..(Len(s) - i + 1) /\ i + (k - i) - 1 = k - 1
      BY <2>3
    <3> QED
      BY <3>2, <3>1, <1>2, <1>5
  <2>4. k < i \/ k = i \/ k > i
    OBVIOUS
  <2> QED
    BY <2>1, <2>2, <2>3, <2>4
<1> QED
  BY <1>5, <1>6, <1>7

LEMMA DistanceIsNat ==
    ASSUME NEW s \in Tiles, NEW t \in Tiles
    PROVE  getManhattanDistance(s, t) \in Nat
<1>1. s[1] \in Int /\ s[2] \in Int /\ t[1] \in Int /\ t[2] \in Int
  BY TilesAssumption
<1> QED
  BY <1>1 DEF getManhattanDistance, Abs

LEMMA ReorderedIsSeq ==
    ASSUME NEW S, NEW s \in Seq(S), NEW p \in Bijection(1..Len(s), 1..Len(s))
    PROVE  Reordered(s, p) \in Seq(S) /\ Len(Reordered(s, p)) = Len(s)
<1>1. \A i \in 1..Len(s) : s[p[i]] \in S
  BY DEF Bijection, Injection
<1> QED
  BY <1>1, IsASeq DEF Reordered

-----------------------------------------------------------------------------
(* Type correctness.                                                       *)

Busy(t) == pc[t] \in {"processJob", "readPlayerTile", "updateNavMesh", "presentTiles",
                      "unlockTile", "repost"}

\* TypeOK, and what it needs to be inductive: a busy thread has a job, one that
\* may be retried has tries left, and post has its arguments.
TypeInv ==
    /\ TypeOK
    /\ \A t \in Threads : Busy(t) => job[t] \in Job
    /\ \A t \in Threads : pc[t] = "repost" => job[t].mTryNumber <= 2
    /\ main \in {"post", "posting"} => call \in Call

LEMMA TypeInvInit == Init => TypeInv
<1> SUFFICES ASSUME Init
             PROVE  TypeInv
  OBVIOUS
<1> USE DEF Init
<1>1. mJobs \in Seq(Job) /\ mPushed \subseteq Keys /\ mPresentTiles \subseteq Keys
  BY DEF Keys
<1>2. mThreadsQueues \in [Threads -> [mJobs : Seq(Job), mPushed : SUBSET Keys]]
  BY DEF Keys
<1>3. /\ mProcessingTiles \in [Keys -> Threads \cup {NoThread}]
      /\ mLastUpdates \in [Keys -> Nat]
      /\ navMesh \in [Keys -> [rev : Nat, present : BOOLEAN]]
      /\ posted \in [Keys -> Nat]
      /\ settled \in [Keys -> Nat]
      /\ item \in [Agents -> Nat]
      /\ mGenerationCounter \in Nat
  OBVIOUS
<1>4. /\ mPlayerTile \in Tiles
      /\ mShouldStop \in BOOLEAN
      /\ now \in Nat
      /\ mesh \in [Tiles -> RecastMesh]
  <2>1. Origin \in Tiles
    BY TilesAssumption
  <2>2. MinUpdateInterval \in Nat /\ InitialMesh \in [Tiles -> RecastMesh]
    BY SettingsAssumption
  <2>3. now \in Nat
    BY <2>2
  <2>4. mPlayerTile \in Tiles /\ mesh \in [Tiles -> RecastMesh]
    BY <2>1, <2>2
  <2>5. mShouldStop \in BOOLEAN
    OBVIOUS
  <2> QED
    BY <2>3, <2>4, <2>5
<1>5. /\ pc \in [Threads -> WorkerPCs]
      /\ job \in [Threads -> Job \cup {NoJob}]
      /\ recastMesh \in [Threads -> RecastMesh]
      /\ playerTile \in [Threads -> Tiles]
      /\ status \in [Threads -> Statuses]
  BY TilesAssumption DEF WorkerPCs, RecastMesh, NoMesh, Statuses
<1>6. /\ main \in MainPCs /\ main \notin {"post", "posting"}
      /\ call \in Call \cup {NoCall}
      /\ waitType \in WaitTypes
      /\ posts \in Nat
  BY DEF MainPCs, WaitTypes
<1>7. \A t \in Threads : ~Busy(t)
  BY DEF Busy
<1> QED
  BY <1>1, <1>2, <1>3, <1>4, <1>5, <1>6, <1>7 DEF TypeInv, TypeOK, Busy

LEMMA RetriedIsJob ==
    ASSUME NEW j \in Job, j.mTryNumber <= 2
    PROVE  Retried(j) \in Job /\ Key(j) \in Keys /\ Key(Retried(j)) = Key(j)
<1>1. j.mTryNumber + 1 \in 0..3
  BY DEF Job
<1>2. Retried(j) \in Job /\ Retried(j).mAgent = j.mAgent /\ Retried(j).mTile = j.mTile
  BY <1>1 DEF Retried, Job
<1> QED
  BY <1>2 DEF Key, Keys, Job

LEMMA SettleIsNat ==
    ASSUME TypeInv, NEW t \in Threads, job[t] \in Job, Settle(t) \/ UNCHANGED settled
    PROVE  settled' \in [Keys -> Nat]
<1>1. Key(job[t]) \in Keys /\ recastMesh[t].rev \in Nat
  BY DEF TypeInv, TypeOK, Key, Keys, Job, RecastMesh
<1> QED
  BY <1>1 DEF TypeInv, TypeOK, Settle

\* A job that was found has an owner: the thread itself or another one.
LEMMA DispatchTypes ==
    ASSUME TypeInv, NEW t \in Threads, NEW j \in Job,
           NEW queues \in [Threads -> [mJobs : Seq(Job), mPushed : SUBSET Keys]],
           Dispatch(t, j, queues)
    PROVE  /\ pc' \in [Threads -> WorkerPCs]
           /\ job' \in [Threads -> Job \cup {NoJob}]
           /\ mThreadsQueues' \in [Threads -> [mJobs : Seq(Job), mPushed : SUBSET Keys]]
           /\ mProcessingTiles' \in [Keys -> Threads \cup {NoThread}]
           /\ \A s \in Threads : Busy(s)' => job'[s] \in Job
           /\ \A s \in Threads : pc'[s] = "repost" => job'[s].mTryNumber <= 2
<1> DEFINE owner == lockTile(t, Key(j))
<1>1. Key(j) \in Keys
  BY DEF Key, Keys, Job
<1>2. owner \in Threads
  BY <1>1 DEF lockTile, TypeInv, TypeOK
<1>3. postThreadJob(queues[owner], j) \in [mJobs : Seq(Job), mPushed : SUBSET Keys]
  <2>1. Append(queues[owner].mJobs, j) \in Seq(Job)
    BY <1>2, AppendProperties
  <2> QED
    BY <1>1, <1>2, <2>1 DEF postThreadJob
<1> HIDE DEF owner
<1> USE DEF TypeInv, TypeOK, Busy, WorkerPCs
<1>4. /\ mThreadsQueues' \in [Threads -> [mJobs : Seq(Job), mPushed : SUBSET Keys]]
      /\ mProcessingTiles' \in [Keys -> Threads \cup {NoThread}]
  BY <1>1, <1>2, <1>3 DEF Dispatch, owner
<1>5. \/ pc' = [pc EXCEPT ![t] = "processJob"] /\ job' = [job EXCEPT ![t] = j]
      \/ pc' = [pc EXCEPT ![t] = "locked"] /\ job' = job
  BY DEF Dispatch
<1>6. /\ pc' \in [Threads -> WorkerPCs]
      /\ job' \in [Threads -> Job \cup {NoJob}]
  <2>1. CASE pc' = [pc EXCEPT ![t] = "processJob"] /\ job' = [job EXCEPT ![t] = j]
    BY <2>1
  <2>2. CASE pc' = [pc EXCEPT ![t] = "locked"] /\ job' = job
    BY <2>2
  <2> QED
    BY <1>5, <2>1, <2>2
<1>7. ASSUME NEW s \in Threads
      PROVE  /\ Busy(s)' => job'[s] \in Job
             /\ pc'[s] = "repost" => job'[s].mTryNumber <= 2
  <2>1. CASE s = t
    BY <1>5, <2>1
  <2>2. CASE s # t
    <3>1. pc'[s] = pc[s] /\ job'[s] = job[s]
      BY <1>5, <2>2
    <3> QED
      BY <3>1
  <2> QED
    BY <2>1, <2>2
<1> QED
  BY <1>4, <1>6, <1>7

LEMMA NewJobIsJob ==
    ASSUME TypeInv, NEW u \in Tiles, NEW c \in ChangeType, main = "posting"
    PROVE  newJob(u, c) \in Job /\ <<call.agent, u>> \in Keys
<1>1. call.agent \in Agents /\ call.item \in Nat /\ mPlayerTile \in Tiles
  BY DEF TypeInv, TypeOK, Call
<1>2. <<call.agent, u>> \in Keys
  BY <1>1 DEF Keys
<1>3. mLastUpdates[<<call.agent, u>>] + MinUpdateInterval \in Nat
  BY <1>2, SettingsAssumption DEF TypeInv, TypeOK
<1>4. processTime(u, c) \in Nat /\ getManhattanDistance(u, mPlayerTile) \in Nat
  BY <1>1, <1>3, DistanceIsNat DEF processTime
<1> QED
  BY <1>1, <1>2, <1>4 DEF newJob, Job, ChangeType

LEMMA TypeInvWorker ==
    ASSUME TypeInv, NEW t \in Threads, Worker(t)
    PROVE  TypeInv'
<1> USE DEF TypeInv, TypeOK, Busy, localVars, threadVars, mainVars, worldVars, history,
            queueVars, tileVars, sharedVars, WorkerPCs, Statuses
<1>1. CASE Loop(t)
  BY <1>1 DEF Loop
<1>2. CASE TakeThreadJob(t)
  <2> DEFINE queue == mThreadsQueues[t]
             j == Head(queue.mJobs)
             queues == [mThreadsQueues EXCEPT
               ![t] = [mJobs |-> Tail(queue.mJobs), mPushed |-> Erased(queue.mPushed, j)]]
  <2>1. j \in Job /\ Tail(queue.mJobs) \in Seq(Job)
    BY <1>2, HeadTailProperties DEF TakeThreadJob
  <2>2. queues \in [Threads -> [mJobs : Seq(Job), mPushed : SUBSET Keys]]
    BY <2>1 DEF Erased
  <2>3. Dispatch(t, j, queues)
    BY <1>2 DEF TakeThreadJob
  <2> HIDE DEF j, queues
  <2>4. /\ pc' \in [Threads -> WorkerPCs]
        /\ job' \in [Threads -> Job \cup {NoJob}]
        /\ mThreadsQueues' \in [Threads -> [mJobs : Seq(Job), mPushed : SUBSET Keys]]
        /\ mProcessingTiles' \in [Keys -> Threads \cup {NoThread}]
        /\ \A s \in Threads : Busy(s)' => job'[s] \in Job
        /\ \A s \in Threads : pc'[s] = "repost" => job'[s].mTryNumber <= 2
    BY <2>1, <2>2, <2>3, DispatchTypes
  <2> QED
    BY <1>2, <2>3, <2>4 DEF TakeThreadJob, Dispatch
<1>3. CASE TakeJob(t)
  <2> DEFINE j == Head(mJobs)
  <2>1. j \in Job /\ mJobs' \in Seq(Job)
    BY <1>3, HeadTailProperties DEF TakeJob, HasCommonJob
  <2>2. mPushed' \subseteq Keys /\ mLastUpdates' \in [Keys -> Nat]
    BY <1>3 DEF TakeJob, Erased
  <2>3. Dispatch(t, j, mThreadsQueues)
    BY <1>3 DEF TakeJob
  <2> HIDE DEF j
  <2>4. /\ pc' \in [Threads -> WorkerPCs]
        /\ job' \in [Threads -> Job \cup {NoJob}]
        /\ mThreadsQueues' \in [Threads -> [mJobs : Seq(Job), mPushed : SUBSET Keys]]
        /\ mProcessingTiles' \in [Keys -> Threads \cup {NoThread}]
        /\ \A s \in Threads : Busy(s)' => job'[s] \in Job
        /\ \A s \in Threads : pc'[s] = "repost" => job'[s].mTryNumber <= 2
    BY <2>1, <2>3, DispatchTypes
  <2> QED
    BY <2>1, <2>2, <2>3, <2>4 DEF Dispatch
<1>4. CASE NoNextJob(t)
  BY <1>4 DEF NoNextJob, NotifyDone, MainPCs
<1>5. CASE cleanupLastUpdates(t)
  BY <1>5 DEF cleanupLastUpdates
<1>6. CASE LockItem(t)
  <2>1. job[t] \in Job
    BY <1>6 DEF LockItem
  <2>2. mesh[job[t].mTile] \in RecastMesh
    BY <2>1 DEF Job
  <2> QED
    BY <1>6, <2>1, <2>2 DEF LockItem
<1>7. CASE ReadPlayerTile(t)
  BY <1>7 DEF ReadPlayerTile
<1>8. CASE RemoveTile(t)
  <2>1. job[t] \in Job /\ settled' \in [Keys -> Nat]
    BY <1>8, SettleIsNat DEF RemoveTile
  <2>2. navMesh' \in [Keys -> [rev : Nat, present : BOOLEAN]]
    BY <1>8 DEF RemoveTile
  <2> QED
    BY <1>8, <2>1, <2>2 DEF RemoveTile, Updated
<1>9. CASE KeepTile(t)
  <2>1. job[t] \in Job /\ settled' \in [Keys -> Nat]
    BY <1>9, SettleIsNat DEF KeepTile, MustAdd
  <2>2. navMesh' \in [Keys -> [rev : Nat, present : BOOLEAN]]
    <3>1. Key(job[t]) \in Keys /\ [rev |-> recastMesh[t].rev, present |-> TRUE] \in [rev : Nat, present : BOOLEAN]
      BY <2>1 DEF Key, Keys, Job, RecastMesh
    <3> QED
      BY <1>9, <3>1 DEF KeepTile
  <2> QED
    BY <1>9, <2>1, <2>2 DEF KeepTile, MustAdd, Updated
<1>10. CASE UpdateTile(t)
  <2>1. job[t] \in Job /\ settled' \in [Keys -> Nat]
    BY <1>10, SettleIsNat DEF UpdateTile, MustAdd
  <2>2. navMesh' \in [Keys -> [rev : Nat, present : BOOLEAN]]
    <3>1. Key(job[t]) \in Keys /\ [rev |-> recastMesh[t].rev, present |-> TRUE] \in [rev : Nat, present : BOOLEAN]
      BY <2>1 DEF Key, Keys, Job, RecastMesh
    <3> QED
      BY <1>10, <3>1 DEF UpdateTile
  <2> QED
    BY <1>10, <2>1, <2>2 DEF UpdateTile, MustAdd, Updated
<1>11. CASE Throw(t)
  <2>1. job[t] \in Job /\ settled' \in [Keys -> Nat]
    BY <1>11, SettleIsNat DEF Throw, MustAdd
  <2>2. EndJob(t, FALSE) /\ Origin \in Tiles
    BY <1>11, TilesAssumption DEF Throw
  <2> QED
    BY <1>11, <2>1, <2>2 DEF Throw, EndJob, RecastMesh, NoMesh
<1>12. CASE UpdatePresentTiles(t)
  BY <1>12 DEF UpdatePresentTiles, PresentTiles, Keys, Key, Job
<1>13. CASE unlockTile(t)
  <2> DEFINE retry == status[t] = "failed" /\ ~mShouldStop /\ job[t].mTryNumber <= 2
  <2>1. job[t] \in Job /\ settled' \in [Keys -> Nat]
    BY <1>13, SettleIsNat DEF unlockTile
  <2>2. EndJob(t, retry) /\ Origin \in Tiles
    BY <1>13, TilesAssumption DEF unlockTile
  <2>3. /\ job' \in [Threads -> Job \cup {NoJob}]
        /\ recastMesh' \in [Threads -> RecastMesh]
        /\ playerTile' \in [Threads -> Tiles]
        /\ status' \in [Threads -> Statuses]
    BY <2>2 DEF EndJob, RecastMesh, NoMesh
  <2>4. \A s \in Threads : Busy(s)' => job'[s] \in Job
    BY <1>13, <2>1, <2>2 DEF unlockTile, EndJob
  <2>5. \A s \in Threads : pc'[s] = "repost" => job'[s].mTryNumber <= 2
    BY <1>13, <2>1, <2>2 DEF unlockTile, EndJob
  <2>6. mProcessingTiles' \in [Keys -> Threads \cup {NoThread}] /\ main' \in MainPCs
    BY <1>13 DEF unlockTile, MainPCs
  <2>7. pc' \in [Threads -> WorkerPCs] /\ (main' \in {"post", "posting"} => call' \in Call)
    BY <1>13 DEF unlockTile
  <2> QED
    BY <1>13, <2>1, <2>3, <2>4, <2>5, <2>6, <2>7 DEF unlockTile
<1>14. CASE repost(t)
  <2>1. job[t] \in Job /\ job[t].mTryNumber <= 2
    BY <1>14 DEF repost
  <2>2. Retried(job[t]) \in Job /\ Key(job[t]) \in Keys
    BY <2>1, RetriedIsJob
  <2>3. mJobs' \in Seq(Job) /\ mPushed' \subseteq Keys
    <3>1. CASE Key(job[t]) \in mPushed
      BY <1>14, <3>1 DEF repost
    <3>2. CASE Key(job[t]) \notin mPushed
      <4>1. Append(mJobs, Retried(job[t])) \in Seq(Job)
        BY <2>2, AppendProperties
      <4> QED
        BY <1>14, <2>2, <3>2, <4>1 DEF repost, WithRetry
    <3> QED
      BY <3>1, <3>2
  <2>4. /\ job' = [job EXCEPT ![t] = NoJob]
        /\ pc' = [pc EXCEPT ![t] = "process"]
        /\ UNCHANGED <<mThreadsQueues, mLastUpdates, tileVars, mPlayerTile, mShouldStop, now,
                       localVars, mainVars, worldVars, history>>
    BY <1>14 DEF repost
  <2> QED
    BY <2>3, <2>4
<1> QED
  BY <1>1, <1>2, <1>3, <1>4, <1>5, <1>6, <1>7, <1>8, <1>9, <1>10, <1>11, <1>12, <1>13, <1>14
  DEF Worker

LEMMA TypeInvMain ==
    ASSUME TypeInv, MainStart \/ MainStep \/ SpuriousWakeup \/ Tick \/ Terminated
    PROVE  TypeInv'
<1> USE DEF TypeInv, TypeOK, Busy, localVars, threadVars, mainVars, worldVars, history,
            queueVars, tileVars, sharedVars, MainPCs, WaitTypes
<1>1. ASSUME NEW u \in Tiles, ChangeMesh(u)
      PROVE  TypeInv'
  BY <1>1 DEF ChangeMesh, RecastMesh
<1>2. ASSUME NEW a \in Agents, AddAgent(a)
      PROVE  TypeInv'
  BY <1>2 DEF AddAgent
<1>3. ASSUME NEW a \in Agents, Reset(a)
      PROVE  TypeInv'
  BY <1>3 DEF Reset
<1>4. ASSUME NEW a \in Agents, NEW arguments \in PostArguments, Post(a, arguments[1], arguments[2])
      PROVE  TypeInv'
  <2>1. arguments[1] \in Tiles /\ arguments[2] \in SUBSET (Tiles \X ChangeType)
    BY SettingsAssumption
  <2> QED
    <3>1. /\ main' \in MainPCs
          /\ call' \in Call \cup {NoCall}
          /\ main' \in {"post", "posting"} => call' \in Call
      <4> DEFINE moved == mPlayerTile # arguments[1]
                 started == [agent |-> a, item |-> item[a], playerTileChanged |-> moved,
                             todo |-> arguments[2]]
      <4>1. moved \in BOOLEAN /\ item[a] \in Nat
        OBVIOUS
      <4> HIDE DEF moved
      <4>2. started \in Call
        BY <2>1, <4>1 DEF Call
      <4>3. \/ main' = "post" /\ call' = started
            \/ main' = "idle" /\ call' = call
        BY <1>4 DEF Post, moved
      <4> HIDE DEF started
      <4> QED
        BY <4>2, <4>3
    <3>2. mPlayerTile' \in Tiles /\ posts' \in Nat
      BY <1>4, <2>1 DEF Post
    <3> QED
      BY <1>4, <3>1, <3>2 DEF Post
<1>5. CASE LockPost
  <2>1. mJobs' \in Seq(Job)
    <3>1. ASSUME NEW i \in 1..Len(mJobs)
          PROVE  [mJobs[i] EXCEPT !.mDistanceToPlayer =
                      getManhattanDistance(mJobs[i].mTile, mPlayerTile)] \in Job
      <4>1. mJobs[i] \in Job
        BY <3>1, ElementOfSeq
      <4>2. getManhattanDistance(mJobs[i].mTile, mPlayerTile) \in Nat
        BY <4>1, DistanceIsNat DEF Job
      <4> QED
        BY <4>1, <4>2 DEF Job
    <3> QED
      BY <1>5, <3>1, IsASeq DEF LockPost
  <2> QED
    BY <1>5, <2>1 DEF LockPost
<1>6. ASSUME NEW u \in Tiles, NEW c \in ChangeType, PostTile(u, c)
      PROVE  TypeInv'
  <2>1. newJob(u, c) \in Job /\ <<call.agent, u>> \in Keys
    BY <1>6, NewJobIsJob DEF PostTile
  <2>2. mJobs' \in Seq(Job)
    <3>1. Append(mJobs, newJob(u, c)) \in Seq(Job)
      BY <2>1, AppendProperties
    <3>2. \A i \in UpperBounds(mJobs, newJob(u, c)) : InsertAt(mJobs, i, newJob(u, c)) \in Seq(Job)
      BY <2>1, InsertAtProperties DEF UpperBounds
    <3> QED
      <4>1. \/ mJobs' = mJobs
            \/ mJobs' = Append(mJobs, newJob(u, c))
            \/ \E i \in UpperBounds(mJobs, newJob(u, c)) : mJobs' = InsertAt(mJobs, i, newJob(u, c))
        BY <1>6 DEF PostTile
      <4> QED
        BY <3>1, <3>2, <4>1
  <2>3. mPushed' \subseteq Keys /\ posted' \in [Keys -> Nat] /\ call' \in Call
    BY <1>6, <2>1 DEF PostTile, RecastMesh, Call
  <2> QED
    BY <1>6, <2>2, <2>3 DEF PostTile
<1>7. CASE EndPost
  <2>1. mJobs' \in Seq(Job)
    BY <1>7, ReorderedIsSeq DEF EndPost
  <2> QED
    BY <1>7, <2>1 DEF EndPost
<1>8. ASSUME NEW type \in WaitTypes \ {"none"}, Wait(type)
      PROVE  TypeInv'
  BY <1>8 DEF Wait
<1>9. CASE WaitPresent
  BY <1>9 DEF WaitPresent
<1>10. CASE CheckDone
  BY <1>10 DEF CheckDone
<1>11. CASE CheckProcessed
  BY <1>11 DEF CheckProcessed
<1>12. CASE SpuriousWakeup
  BY <1>12 DEF SpuriousWakeup
<1>13. CASE Destroy
  BY <1>13 DEF Destroy
<1>14. CASE ClearJobs
  BY <1>14 DEF ClearJobs
<1>15. CASE Join
  BY <1>15 DEF Join
<1>16. CASE Tick
  BY <1>16 DEF Tick
<1>17. CASE Terminated
  BY <1>17 DEF Terminated, vars
<1> QED
  BY <1>1, <1>2, <1>3, <1>4, <1>5, <1>6, <1>7, <1>8, <1>9, <1>10, <1>11, <1>12, <1>13, <1>14,
     <1>15, <1>16, <1>17 DEF MainStart, MainStep

LEMMA TypeInvStep == TypeInv /\ [Next]_vars => TypeInv'
<1> SUFFICES ASSUME TypeInv, [Next]_vars
             PROVE  TypeInv'
  OBVIOUS
<1>1. CASE \E t \in Threads : Worker(t)
  BY <1>1, TypeInvWorker
<1>2. CASE MainStart \/ MainStep \/ SpuriousWakeup \/ Tick \/ Terminated
  BY <1>2, TypeInvMain
<1>3. CASE UNCHANGED vars
  BY <1>3 DEF vars, TypeInv, TypeOK, Busy, localVars, threadVars, mainVars, worldVars, history,
              queueVars, tileVars, sharedVars
<1> QED
  BY <1>1, <1>2, <1>3 DEF Next

\* Every variable keeps its type: no queue holds anything but jobs, distances
\* and times never become negative, a thread at work has a job.
THEOREM TypeCorrect == Spec => []TypeOK
<1>1. Init => TypeInv
  BY TypeInvInit
<1>2. TypeInv /\ [Next]_vars => TypeInv'
  BY TypeInvStep
<1>3. TypeInv => TypeOK
  BY DEF TypeInv
<1> QED
  BY <1>1, <1>2, <1>3, PTL DEF Spec

-----------------------------------------------------------------------------
(* Tile locks.                                                             *)

\* A thread at work on a tile is the one mProcessingTiles names.
LockInv ==
    /\ TypeInv
    /\ Parallel => \A t \in Threads : Processing(t) => mProcessingTiles[Key(job[t])] = t

\* Only the owner of a tile goes on with its job: no other thread that is at work
\* can be on the same tile, and its lock is left alone.
LEMMA LockInvDispatch ==
    ASSUME LockInv, Parallel, NEW t \in Threads, NEW j \in Job, NEW queues,
           Dispatch(t, j, queues), InGetNextJob(t)
    PROVE  \A s \in Threads : Processing(s)' => mProcessingTiles'[Key(job'[s])] = s
<1> DEFINE owner == lockTile(t, Key(j))
<1>1. Key(j) \in Keys
  BY DEF Key, Keys, Job
<1>2. mProcessingTiles' = [mProcessingTiles EXCEPT ![Key(j)] = owner]
  BY DEF Dispatch
<1>3. owner = IF mProcessingTiles[Key(j)] = NoThread THEN t ELSE mProcessingTiles[Key(j)]
  BY DEF lockTile
<1>4. \/ owner = t /\ pc' = [pc EXCEPT ![t] = "processJob"] /\ job' = [job EXCEPT ![t] = j]
      \/ pc' = [pc EXCEPT ![t] = "locked"] /\ job' = job
  BY DEF Dispatch
<1> HIDE DEF owner
<1>5. /\ pc \in [Threads -> WorkerPCs]
      /\ job \in [Threads -> Job \cup {NoJob}]
      /\ mProcessingTiles \in [Keys -> Threads \cup {NoThread}]
  BY DEF LockInv, TypeInv, TypeOK
<1> SUFFICES ASSUME NEW s \in Threads, Processing(s)'
             PROVE  mProcessingTiles'[Key(job'[s])] = s
  OBVIOUS
<1>6. CASE s = t
  <2>1. owner = t /\ job'[s] = j
    BY <1>4, <1>5, <1>6 DEF Processing
  <2> QED
    BY <2>1, <1>1, <1>2, <1>5, <1>6
<1>7. CASE s # t
  <2>1. pc'[s] = pc[s] /\ job'[s] = job[s]
    BY <1>4, <1>5, <1>7
  <2>2. Processing(s) /\ mProcessingTiles[Key(job[s])] = s
    BY <2>1 DEF Processing, LockInv
  <2>3. Key(job[s]) \in Keys
    BY <2>2 DEF LockInv, TypeInv, TypeOK, Busy, Processing, Key, Keys, Job
  <2>4. s # NoThread
    BY ThreadsAssumption
  <2>5. Key(job[s]) = Key(j) => owner = s
    BY <1>3, <2>2, <2>4
  <2> QED
    BY <1>1, <1>2, <1>5, <2>1, <2>2, <2>3, <2>5
<1> QED
  BY <1>6, <1>7

LEMMA LockInvStep == LockInv /\ [Next]_vars => LockInv'
<1> SUFFICES ASSUME LockInv, [Next]_vars
             PROVE  LockInv'
  OBVIOUS
<1>1. TypeInv'
  BY TypeInvStep DEF LockInv
<1> SUFFICES ASSUME Parallel
             PROVE  \A t \in Threads : Processing(t)' => mProcessingTiles'[Key(job'[t])] = t
  BY <1>1 DEF LockInv, Parallel, Processing
<1>t. /\ pc \in [Threads -> WorkerPCs]
      /\ job \in [Threads -> Job \cup {NoJob}]
      /\ mProcessingTiles \in [Keys -> Threads \cup {NoThread}]
      /\ \A t \in Threads : Processing(t) => Key(job[t]) \in Keys
  BY DEF LockInv, TypeInv, TypeOK, Busy, Processing, Key, Keys, Job
<1> DEFINE Goal == \A t \in Threads : Processing(t)' => mProcessingTiles'[Key(job'[t])] = t
           Locked == \A t \in Threads : Processing(t) => mProcessingTiles[Key(job[t])] = t
<1>l. Locked
  BY DEF LockInv
<1>u. ASSUME UNCHANGED <<pc, job, mProcessingTiles>>
      PROVE  Goal
  BY <1>l, <1>u DEF Processing
<1> USE DEF localVars, threadVars, mainVars, worldVars, history, queueVars, tileVars, sharedVars
<1>2. ASSUME NEW t \in Threads, Worker(t)
      PROVE  Goal
  \* The thread stays at work on the job it has, or leaves it; the locks stay.
  <2>k. ASSUME job' = job \/ (job' = [job EXCEPT ![t] = NoJob] /\ pc'[t] = "process"),
               UNCHANGED mProcessingTiles,
               \E p \in WorkerPCs : /\ pc' = [pc EXCEPT ![t] = p]
                                    /\ p = "process" \/ ~Processing(t)' \/ Processing(t)
        PROVE  Goal
    <3> SUFFICES ASSUME NEW s \in Threads, Processing(s)'
                 PROVE  mProcessingTiles'[Key(job'[s])] = s
      OBVIOUS
    <3>1. Processing(s) /\ job'[s] = job[s]
      BY <2>k, <1>t DEF Processing
    <3> QED
      BY <3>1, <2>k, <1>l
  <2> USE DEF WorkerPCs, Processing
  <2>1. CASE Loop(t)
    BY <2>1, <2>k, <1>t DEF Loop
  <2>2. CASE TakeThreadJob(t)
    <3>1. Head(mThreadsQueues[t].mJobs) \in Job
      BY <2>2, HeadTailProperties DEF TakeThreadJob, LockInv, TypeInv, TypeOK
    <3> QED
      BY <2>2, <3>1, LockInvDispatch DEF TakeThreadJob
  <2>3. CASE TakeJob(t)
    <3>1. Head(mJobs) \in Job
      BY <2>3, HeadTailProperties DEF TakeJob, HasCommonJob, LockInv, TypeInv, TypeOK
    <3> QED
      BY <2>3, <3>1, LockInvDispatch DEF TakeJob
  <2>4. CASE NoNextJob(t)
    BY <2>4, <2>k, <1>t DEF NoNextJob
  <2>5. CASE cleanupLastUpdates(t)
    BY <2>5, <2>k, <1>t DEF cleanupLastUpdates
  <2>6. CASE LockItem(t)
    BY <2>6, <2>k, <1>t DEF LockItem
  <2>7. CASE ReadPlayerTile(t)
    BY <2>7, <2>k, <1>t DEF ReadPlayerTile
  <2>8. CASE RemoveTile(t)
    BY <2>8, <2>k, <1>t DEF RemoveTile, Updated
  <2>9. CASE KeepTile(t)
    BY <2>9, <2>k, <1>t DEF KeepTile, MustAdd, Updated
  <2>10. CASE UpdateTile(t)
    BY <2>10, <2>k, <1>t DEF UpdateTile, MustAdd, Updated
  <2>11. CASE Throw(t)
    BY <2>11, <2>k, <1>t DEF Throw, MustAdd, EndJob
  <2>12. CASE UpdatePresentTiles(t)
    BY <2>12, <2>k, <1>t DEF UpdatePresentTiles
  <2>13. CASE unlockTile(t)
    <3> SUFFICES ASSUME NEW s \in Threads, Processing(s)'
                 PROVE  mProcessingTiles'[Key(job'[s])] = s
      OBVIOUS
    <3>1. s # t
      BY <2>13, <1>t DEF unlockTile
    <3>2. pc'[s] = pc[s] /\ job'[s] = job[s]
      BY <2>13, <3>1, <1>t DEF unlockTile, EndJob
    <3>3. Processing(s) /\ Processing(t)
      BY <2>13, <3>2 DEF unlockTile
    <3>4. mProcessingTiles[Key(job[s])] = s /\ mProcessingTiles[Key(job[t])] = t
      BY <3>3, <1>l
    <3> HIDE DEF Processing
    <3>5. Key(job[s]) # Key(job[t]) /\ Key(job[s]) \in Keys
      BY <3>1, <3>3, <3>4, <1>t
    <3>6. mProcessingTiles' = [mProcessingTiles EXCEPT ![Key(job[t])] = NoThread]
      BY <2>13 DEF unlockTile
    <3> QED
      BY <3>2, <3>4, <3>5, <3>6, <1>t
  <2>14. CASE repost(t)
    BY <2>14, <2>k, <1>t DEF repost
  <2> QED
    BY <1>2, <2>1, <2>2, <2>3, <2>4, <2>5, <2>6, <2>7, <2>8, <2>9, <2>10, <2>11, <2>12, <2>13,
       <2>14 DEF Worker
<1>3. CASE MainStart \/ MainStep \/ SpuriousWakeup \/ Tick \/ Terminated \/ UNCHANGED vars
  BY <1>3, <1>u DEF MainStart, MainStep, ChangeMesh, AddAgent, Reset, Post, LockPost, PostTile,
     EndPost, Wait, WaitPresent, CheckDone, CheckProcessed, SpuriousWakeup, Destroy, ClearJobs,
     Join, Tick, Terminated, vars
<1> QED
  BY <1>2, <1>3 DEF Next

\* Whatever is posted, removed or thrown, lockTile and unlockTile keep two threads
\* from building one tile of one agent together.
THEOREM TilesExclusive == Spec => []OneThreadPerTile
<1>1. Init => LockInv
  BY TypeInvInit DEF Init, LockInv, Processing
<1>2. LockInv /\ [Next]_vars => LockInv'
  BY LockInvStep
<1>3. LockInv => OneThreadPerTile
  BY DEF LockInv, OneThreadPerTile, Parallel
<1> QED
  BY <1>1, <1>2, <1>3, PTL DEF Spec

-----------------------------------------------------------------------------
(* The queues and the keys in them.                                        *)

\* getJob: the first job leaves, and its key with it.
LEMMA TailKeys ==
    ASSUME NEW q \in Seq(Job), q # <<>>, NoDuplicates(q)
    PROVE  /\ NoDuplicates(Tail(q))
           /\ KeysOf(Tail(q)) = KeysOf(q) \ {Key(Head(q))}
           /\ \A i \in 1..Len(Tail(q)) : Tail(q)[i] = q[i + 1] /\ i + 1 \in 1..Len(q)
<1>1. /\ Len(q) \in Nat /\ Len(q) >= 1
      /\ Len(Tail(q)) = Len(q) - 1
      /\ Head(q) = q[1]
      /\ \A i \in 1..Len(Tail(q)) : Tail(q)[i] = q[i + 1] /\ i + 1 \in 1..Len(q)
  BY HeadTailProperties, EmptySeq, LenProperties
<1>2. NoDuplicates(Tail(q))
  BY <1>1 DEF NoDuplicates
<1>3. ASSUME NEW k \in KeysOf(Tail(q))
      PROVE  k \in KeysOf(q) \ {Key(Head(q))}
  <2>1. PICK i \in 1..Len(Tail(q)) : k = Key(Tail(q)[i])
    BY DEF KeysOf
  <2>2. i + 1 \in 1..Len(q) /\ k = Key(q[i + 1]) /\ i + 1 # 1 /\ 1 \in 1..Len(q)
    BY <1>1, <2>1
  <2>3. Key(q[i + 1]) # Key(q[1])
    BY <2>2 DEF NoDuplicates
  <2> QED
    BY <1>1, <2>2, <2>3 DEF KeysOf
<1>4. ASSUME NEW k \in KeysOf(q), k # Key(Head(q))
      PROVE  k \in KeysOf(Tail(q))
  <2>1. PICK i \in 1..Len(q) : k = Key(q[i])
    BY DEF KeysOf
  <2>2. i # 1
    BY <1>1, <1>4, <2>1
  <2>3. i - 1 \in 1..Len(Tail(q)) /\ (i - 1) + 1 = i
    BY <1>1, <2>2
  <2>4. Tail(q)[i - 1] = q[i]
    BY <1>1, <2>3
  <2> QED
    BY <2>1, <2>3, <2>4 DEF KeysOf
<1> QED
  BY <1>1, <1>2, <1>3, <1>4

\* A job whose key is not there yet is put anywhere into a queue.
LEMMA InsertAtKeys ==
    ASSUME NEW q \in Seq(Job), NEW j \in Job, NEW i \in 1..(Len(q) + 1),
           NoDuplicates(q), Key(j) \notin KeysOf(q)
    PROVE  /\ NoDuplicates(InsertAt(q, i, j))
           /\ KeysOf(InsertAt(q, i, j)) = KeysOf(q) \cup {Key(j)}
<1> DEFINE r == InsertAt(q, i, j)
<1>1. /\ Len(q) \in Nat
      /\ Len(r) = Len(q) + 1
      /\ \A k \in 1..(Len(q) + 1) :
           r[k] = IF k < i THEN q[k] ELSE IF k = i THEN j ELSE q[k - 1]
  BY InsertAtProperties, LenProperties
<1> HIDE DEF r
<1>2. \A k \in 1..Len(q) : Key(q[k]) # Key(j)
  BY DEF KeysOf
<1>3. \A k \in 1..Len(r) : \/ k < i /\ k \in 1..Len(q) /\ r[k] = q[k]
                           \/ k = i /\ r[k] = j
                           \/ k > i /\ k - 1 \in 1..Len(q) /\ r[k] = q[k - 1]
  BY <1>1
<1>4. NoDuplicates(r)
  <2> DEFINE old(k) == IF k < i THEN k ELSE k - 1
  <2>1. \A k \in 1..Len(r) : k # i => old(k) \in 1..Len(q) /\ Key(r[k]) = Key(q[old(k)])
    BY <1>1
  <2>2. \A k, m \in 1..Len(r) : k # i /\ m # i /\ old(k) = old(m) => k = m
    BY <1>1
  <2>3. Key(r[i]) = Key(j)
    BY <1>1
  <2> HIDE DEF old
  <2> SUFFICES ASSUME NEW k \in 1..Len(r), NEW m \in 1..Len(r), Key(r[k]) = Key(r[m])
               PROVE  k = m
    BY DEF NoDuplicates
  <2>4. CASE k = i /\ m # i
    <3>1. Key(q[old(m)]) = Key(j) /\ old(m) \in 1..Len(q)
      BY <2>1, <2>3, <2>4
    <3> QED
      BY <3>1, <1>2
  <2>5. CASE k # i /\ m = i
    <3>1. Key(q[old(k)]) = Key(j) /\ old(k) \in 1..Len(q)
      BY <2>1, <2>3, <2>5
    <3> QED
      BY <3>1, <1>2
  <2>6. CASE k # i /\ m # i
    <3>1. /\ Key(q[old(k)]) = Key(q[old(m)])
          /\ old(k) \in 1..Len(q)
          /\ old(m) \in 1..Len(q)
      BY <2>1, <2>6
    <3>2. old(k) = old(m)
      BY <3>1 DEF NoDuplicates
    <3> QED
      BY <2>2, <2>6, <3>2
  <2> QED
    BY <2>4, <2>5, <2>6
<1>5. KeysOf(r) \subseteq KeysOf(q) \cup {Key(j)}
  BY <1>3 DEF KeysOf
<1>6. Key(j) \in KeysOf(r)
  <2>1. i \in 1..Len(r) /\ r[i] = j
    BY <1>1
  <2> QED
    BY <2>1 DEF KeysOf
<1>7. ASSUME NEW k \in 1..Len(q)
      PROVE  Key(q[k]) \in KeysOf(r)
  <2>1. CASE k < i
    <3>1. k \in 1..Len(r) /\ r[k] = q[k]
      BY <1>1, <2>1
    <3> QED
      BY <3>1 DEF KeysOf
  <2>2. CASE k >= i
    <3>1. k + 1 \in 1..Len(r) /\ r[k + 1] = q[k]
      BY <1>1, <2>2
    <3> QED
      BY <3>1 DEF KeysOf
  <2> QED
    BY <2>1, <2>2
<1>8. KeysOf(q) \subseteq KeysOf(r)
  BY <1>7 DEF KeysOf
<1> QED
  BY <1>4, <1>5, <1>6, <1>8 DEF r

LEMMA AppendKeys ==
    ASSUME NEW q \in Seq(Job), NEW j \in Job, NoDuplicates(q), Key(j) \notin KeysOf(q)
    PROVE  /\ NoDuplicates(Append(q, j))
           /\ KeysOf(Append(q, j)) = KeysOf(q) \cup {Key(j)}
<1> DEFINE r == Append(q, j)
<1>1. /\ Len(q) \in Nat
      /\ Len(r) = Len(q) + 1
      /\ \A k \in 1..Len(q) : r[k] = q[k]
      /\ r[Len(q) + 1] = j
  BY AppendProperties, LenProperties
<1> HIDE DEF r
<1>2. \A k \in 1..Len(q) : Key(q[k]) # Key(j)
  BY DEF KeysOf
<1>3. \A k \in 1..Len(r) : (k \in 1..Len(q) /\ r[k] = q[k]) \/ (k = Len(q) + 1 /\ r[k] = j)
  BY <1>1
<1>4. NoDuplicates(r)
  BY <1>2, <1>3 DEF NoDuplicates
<1>5. KeysOf(r) \subseteq KeysOf(q) \cup {Key(j)}
  BY <1>3 DEF KeysOf
<1>6. Len(q) + 1 \in 1..Len(r) /\ \A k \in 1..Len(q) : k \in 1..Len(r)
  BY <1>1
<1>7. KeysOf(q) \cup {Key(j)} \subseteq KeysOf(r)
  BY <1>1, <1>6 DEF KeysOf
<1> QED
  BY <1>4, <1>5, <1>7 DEF r

\* std::sort keeps the jobs.
LEMMA ReorderedKeys ==
    ASSUME NEW q \in Seq(Job), NEW p \in Bijection(1..Len(q), 1..Len(q)), NoDuplicates(q)
    PROVE  NoDuplicates(Reordered(q, p)) /\ KeysOf(Reordered(q, p)) = KeysOf(q)
<1> DEFINE r == Reordered(q, p)
<1>1. Len(r) = Len(q) /\ \A i \in 1..Len(q) : r[i] = q[p[i]]
  BY ReorderedIsSeq DEF Reordered
<1> HIDE DEF r
<1>2. /\ \A i \in 1..Len(q) : p[i] \in 1..Len(q)
      /\ \A i, k \in 1..Len(q) : p[i] = p[k] => i = k
      /\ \A k \in 1..Len(q) : \E i \in 1..Len(q) : p[i] = k
  BY DEF Bijection, Injection, Surjection, IsInjective
<1>3. NoDuplicates(r)
  <2> SUFFICES ASSUME NEW i \in 1..Len(r), NEW k \in 1..Len(r), Key(r[i]) = Key(r[k])
               PROVE  i = k
    BY DEF NoDuplicates
  <2>1. i \in 1..Len(q) /\ k \in 1..Len(q)
    BY <1>1
  <2>2. Key(q[p[i]]) = Key(q[p[k]]) /\ p[i] \in 1..Len(q) /\ p[k] \in 1..Len(q)
    BY <1>1, <1>2, <2>1
  <2>3. p[i] = p[k]
    BY <2>2 DEF NoDuplicates
  <2> QED
    BY <1>2, <2>1, <2>3
<1>4. KeysOf(r) \subseteq KeysOf(q)
  <2> SUFFICES ASSUME NEW i \in 1..Len(r)
               PROVE  Key(r[i]) \in KeysOf(q)
    BY DEF KeysOf
  <2>1. p[i] \in 1..Len(q) /\ r[i] = q[p[i]]
    BY <1>1, <1>2
  <2> QED
    BY <2>1 DEF KeysOf
<1>5. KeysOf(q) \subseteq KeysOf(r)
  <2> SUFFICES ASSUME NEW k \in 1..Len(q)
               PROVE  Key(q[k]) \in KeysOf(r)
    BY DEF KeysOf
  <2>1. PICK i \in 1..Len(q) : p[i] = k
    BY <1>2
  <2> QED
    BY <1>1, <2>1 DEF KeysOf
<1> QED
  BY <1>3, <1>4, <1>5 DEF r

\* post refreshes distances, which are no part of a key.
LEMMA RefreshedKeys ==
    ASSUME NEW q \in Seq(Job), NEW r \in Seq(Job), Len(r) = Len(q), NoDuplicates(q),
           \A i \in 1..Len(q) : Key(r[i]) = Key(q[i])
    PROVE  NoDuplicates(r) /\ KeysOf(r) = KeysOf(q)
  BY DEF NoDuplicates, KeysOf

QueueInv ==
    /\ TypeInv
    /\ PushedMatchesJobs
    /\ ThreadJobsDue

\* The common queue, and the queue of a thread.
CommonOK ==
    /\ NoDuplicates(mJobs)
    /\ KeysOf(mJobs) \subseteq mPushed
    /\ main \notin {"join", "destroyed"} => mPushed \subseteq KeysOf(mJobs)
ThreadOK(queue) ==
    /\ NoDuplicates(queue.mJobs)
    /\ KeysOf(queue.mJobs) = queue.mPushed
    /\ \A i \in 1..Len(queue.mJobs) : queue.mJobs[i].mProcessTime <= now

LEMMA QueueInvParts ==
    QueueInv <=> TypeInv /\ CommonOK /\ \A t \in Threads : ThreadOK(mThreadsQueues[t])
  BY DEF QueueInv, PushedMatchesJobs, ThreadJobsDue, CommonOK, ThreadOK

\* A job that is due goes to a thread's queue at most once.
LEMMA PostThreadJobOK ==
    ASSUME NEW queue \in [mJobs : Seq(Job), mPushed : SUBSET Keys], ThreadOK(queue),
           NEW j \in Job, j.mProcessTime <= now
    PROVE  ThreadOK(postThreadJob(queue, j))
<1>1. CASE Key(j) \in queue.mPushed
  BY <1>1 DEF postThreadJob
<1>2. CASE Key(j) \notin queue.mPushed
  <2> DEFINE jobs == Append(queue.mJobs, j)
  <2>1. postThreadJob(queue, j) = [mJobs |-> jobs, mPushed |-> queue.mPushed \cup {Key(j)}]
    BY <1>2 DEF postThreadJob
  <2>2. queue.mJobs \in Seq(Job) /\ NoDuplicates(queue.mJobs) /\ KeysOf(queue.mJobs) = queue.mPushed
    BY DEF ThreadOK
  <2>3. NoDuplicates(jobs) /\ KeysOf(jobs) = queue.mPushed \cup {Key(j)}
    BY <1>2, <2>2, AppendKeys
  <2>4. \A i \in 1..Len(jobs) : (i \in 1..Len(queue.mJobs) /\ jobs[i] = queue.mJobs[i]) \/ jobs[i] = j
    BY <2>2, AppendProperties, LenProperties
  <2>5. \A i \in 1..Len(jobs) : jobs[i].mProcessTime <= now
    BY <2>4 DEF ThreadOK
  <2> HIDE DEF jobs
  <2> QED
    BY <2>1, <2>3, <2>5 DEF ThreadOK
<1> QED
  BY <1>1, <1>2

LEMMA DispatchOK ==
    ASSUME TypeInv, NEW t \in Threads, NEW j \in Job, j.mProcessTime <= now,
           NEW queues \in [Threads -> [mJobs : Seq(Job), mPushed : SUBSET Keys]],
           \A s \in Threads : ThreadOK(queues[s]),
           Dispatch(t, j, queues)
    PROVE  \A s \in Threads : ThreadOK(mThreadsQueues'[s])
<1> DEFINE owner == lockTile(t, Key(j))
<1>1. Key(j) \in Keys
  BY DEF Key, Keys, Job
<1>2. owner \in Threads
  BY <1>1 DEF lockTile, TypeInv, TypeOK
<1>3. \/ mThreadsQueues' = queues
      \/ mThreadsQueues' = [queues EXCEPT ![owner] = postThreadJob(queues[owner], j)]
  BY DEF Dispatch
<1> HIDE DEF owner
<1>4. ThreadOK(postThreadJob(queues[owner], j))
  BY <1>2, PostThreadJobOK
<1> QED
  BY <1>2, <1>3, <1>4

\* getJob from a thread's queue.
LEMMA TakeThreadJobOK ==
    ASSUME QueueInv, NEW t \in Threads, TakeThreadJob(t)
    PROVE  \A s \in Threads : ThreadOK(mThreadsQueues'[s])
<1> DEFINE queue == mThreadsQueues[t]
           j == Head(queue.mJobs)
           rest == [mJobs |-> Tail(queue.mJobs), mPushed |-> Erased(queue.mPushed, j)]
           queues == [mThreadsQueues EXCEPT ![t] = rest]
<1>1. /\ mThreadsQueues \in [Threads -> [mJobs : Seq(Job), mPushed : SUBSET Keys]]
      /\ queue.mJobs # <<>>
      /\ Dispatch(t, j, queues)
      /\ j.mProcessTime <= now
  BY DEF TakeThreadJob, QueueInv, TypeInv, TypeOK
<1>2. queue \in [mJobs : Seq(Job), mPushed : SUBSET Keys] /\ ThreadOK(queue)
  BY <1>1, QueueInvParts
<1>3. j \in Job /\ Tail(queue.mJobs) \in Seq(Job)
  BY <1>1, <1>2, HeadTailProperties
<1>4. rest \in [mJobs : Seq(Job), mPushed : SUBSET Keys]
  BY <1>2, <1>3 DEF Erased
<1>5. /\ NoDuplicates(rest.mJobs)
      /\ KeysOf(rest.mJobs) = rest.mPushed
      /\ \A i \in 1..Len(rest.mJobs) : rest.mJobs[i] = queue.mJobs[i + 1] /\ i + 1 \in 1..Len(queue.mJobs)
  BY <1>1, <1>2, TailKeys DEF ThreadOK, Erased
<1>6. ThreadOK(rest)
  <2> HIDE DEF rest, queue
  <2> QED
    BY <1>2, <1>5 DEF ThreadOK
<1> HIDE DEF rest, j, queue
<1>7. /\ queues \in [Threads -> [mJobs : Seq(Job), mPushed : SUBSET Keys]]
      /\ \A s \in Threads : ThreadOK(queues[s])
  BY <1>1, <1>4, <1>6, QueueInvParts
<1> QED
  BY <1>1, <1>3, <1>7, DispatchOK DEF QueueInv

\* getJob from the common queue.
LEMMA TakeJobOK ==
    ASSUME QueueInv, NEW t \in Threads, TakeJob(t)
    PROVE  CommonOK' /\ \A s \in Threads : ThreadOK(mThreadsQueues'[s])
<1> DEFINE j == Head(mJobs)
<1>1. /\ mJobs \in Seq(Job) /\ mJobs # <<>> /\ j.mProcessTime <= now
      /\ mJobs' = Tail(mJobs)
      /\ mPushed' = mPushed \ {Key(j)}
      /\ Dispatch(t, j, mThreadsQueues)
      /\ main' = main
      /\ mThreadsQueues \in [Threads -> [mJobs : Seq(Job), mPushed : SUBSET Keys]]
  BY DEF TakeJob, HasCommonJob, Erased, Dispatch, mainVars, QueueInv, TypeInv, TypeOK
<1>2. j \in Job
  BY <1>1, HeadTailProperties
<1>3. CommonOK /\ \A s \in Threads : ThreadOK(mThreadsQueues[s])
  BY QueueInvParts
<1>4. NoDuplicates(mJobs') /\ KeysOf(mJobs') = KeysOf(mJobs) \ {Key(j)}
  BY <1>1, <1>3, TailKeys DEF CommonOK
<1> HIDE DEF j
<1>5. CommonOK'
  BY <1>1, <1>3, <1>4 DEF CommonOK, NoDuplicates, KeysOf
<1> QED
  BY <1>1, <1>2, <1>3, <1>5, DispatchOK DEF QueueInv

\* The steps that put a job into the common queue, or rearrange it.
LEMMA CommonOKChanges ==
    ASSUME QueueInv, TypeInv',
           \/ LockPost \/ EndPost \/ ClearJobs
           \/ \E u \in Tiles, c \in ChangeType : PostTile(u, c)
           \/ \E t \in Threads : repost(t)
    PROVE  CommonOK'
<1>1. /\ mJobs \in Seq(Job) /\ mJobs' \in Seq(Job)
      /\ NoDuplicates(mJobs)
      /\ KeysOf(mJobs) \subseteq mPushed
      /\ main \notin {"join", "destroyed"} => mPushed \subseteq KeysOf(mJobs)
  BY DEF QueueInv, PushedMatchesJobs, TypeInv, TypeOK
<1> DEFINE Goal == /\ NoDuplicates(mJobs')
                   /\ KeysOf(mJobs') \subseteq mPushed'
                   /\ main' \notin {"join", "destroyed"} => mPushed' \subseteq KeysOf(mJobs')
<1>2. SUFFICES Goal
  BY DEF CommonOK, NoDuplicates, KeysOf
<1>3. CASE LockPost
  <2>1. Len(mJobs') = Len(mJobs) /\ \A i \in 1..Len(mJobs) : Key(mJobs'[i]) = Key(mJobs[i])
    <3>1. CASE call.playerTileChanged
      <4>1. /\ Len(mJobs) \in Nat
            /\ mJobs' = [i \in 1..Len(mJobs) |-> [mJobs[i] EXCEPT
                  !.mDistanceToPlayer = getManhattanDistance(mJobs[i].mTile, mPlayerTile)]]
        BY <1>1, <1>3, <3>1, LenProperties DEF LockPost
      <4>2. Len(mJobs') = Len(mJobs)
        BY <1>1, <4>1, LenProperties
      <4>3. \A i \in 1..Len(mJobs) : mJobs[i] \in Job
        BY <1>1, ElementOfSeq
      <4>4. \A i \in 1..Len(mJobs) :
              mJobs'[i].mAgent = mJobs[i].mAgent /\ mJobs'[i].mTile = mJobs[i].mTile
        BY <4>1, <4>3 DEF Job
      <4> QED
        BY <4>2, <4>4 DEF Key
    <3>2. CASE ~call.playerTileChanged
      BY <1>3, <3>2 DEF LockPost
    <3> QED
      BY <3>1, <3>2
  <2>2. NoDuplicates(mJobs') /\ KeysOf(mJobs') = KeysOf(mJobs)
    BY <1>1, <2>1, RefreshedKeys
  <2> QED
    BY <1>1, <1>3, <2>2 DEF LockPost
<1>4. CASE EndPost
  <2>1. NoDuplicates(mJobs') /\ KeysOf(mJobs') = KeysOf(mJobs)
    <3>1. CASE call.playerTileChanged
      BY <1>1, <1>4, <3>1, ReorderedKeys DEF EndPost
    <3>2. CASE ~call.playerTileChanged
      BY <1>1, <1>4, <3>2 DEF EndPost
    <3> QED
      BY <3>1, <3>2
  <2> QED
    BY <1>1, <1>4, <2>1 DEF EndPost
<1>5. CASE ClearJobs
  <2>1. mJobs' = <<>> /\ main' = "join"
    BY <1>5 DEF ClearJobs
  <2>2. NoDuplicates(<<>>) /\ KeysOf(<<>>) = {}
    BY DEF NoDuplicates, KeysOf
  <2> QED
    BY <2>1, <2>2
<1>6. ASSUME NEW u \in Tiles, NEW c \in ChangeType, PostTile(u, c)
      PROVE  Goal
  <2> DEFINE j == newJob(u, c)
             k == <<call.agent, u>>
  <2>1. j \in Job /\ Key(j) = k
    BY <1>6, NewJobIsJob DEF PostTile, newJob, Key, QueueInv
  <2>2. main' = main /\ main = "posting"
    BY <1>6 DEF PostTile
  <2>3. CASE k \in mPushed
    <3>1. mJobs' = mJobs /\ mPushed' = mPushed
      BY <1>6, <2>3 DEF PostTile
    <3> QED
      BY <1>1, <2>2, <3>1
  <2>4. CASE k \notin mPushed
    <3>1. /\ mPushed' = mPushed \cup {k}
          /\ \/ mJobs' = Append(mJobs, j)
             \/ \E i \in UpperBounds(mJobs, j) : mJobs' = InsertAt(mJobs, i, j)
      BY <1>6, <2>4 DEF PostTile
    <3>2. Key(j) \notin KeysOf(mJobs)
      BY <1>1, <2>1, <2>4
    <3> HIDE DEF j, k
    <3>3. NoDuplicates(mJobs') /\ KeysOf(mJobs') = KeysOf(mJobs) \cup {k}
      <4>1. CASE mJobs' = Append(mJobs, j)
        BY <1>1, <2>1, <3>2, <4>1, AppendKeys
      <4>2. ASSUME NEW i \in UpperBounds(mJobs, j), mJobs' = InsertAt(mJobs, i, j)
            PROVE  NoDuplicates(mJobs') /\ KeysOf(mJobs') = KeysOf(mJobs) \cup {k}
        <5>1. i \in 1..(Len(mJobs) + 1)
          BY DEF UpperBounds
        <5> QED
          BY <1>1, <2>1, <3>2, <4>2, <5>1, InsertAtKeys
      <4> QED
        BY <3>1, <4>1, <4>2
    <3> QED
      BY <1>1, <2>2, <3>1, <3>3
  <2> QED
    BY <2>3, <2>4
<1>7. ASSUME NEW t \in Threads, repost(t)
      PROVE  Goal
  <2> DEFINE j == Retried(job[t])
  <2>1. job[t] \in Job /\ job[t].mTryNumber <= 2
    BY <1>7 DEF repost, QueueInv, TypeInv, Busy
  <2>2. j \in Job /\ Key(j) = Key(job[t])
    BY <2>1, RetriedIsJob
  <2>3. main' = main
    BY <1>7 DEF repost, mainVars
  <2>4. CASE Key(j) \in mPushed
    <3>1. mJobs' = mJobs /\ mPushed' = mPushed
      BY <1>7, <2>2, <2>4 DEF repost
    <3> QED
      BY <1>1, <2>3, <3>1
  <2>5. CASE Key(j) \notin mPushed
    <3>1. mPushed' = mPushed \cup {Key(j)} /\ mJobs' = Append(mJobs, j)
      BY <1>7, <2>2, <2>5 DEF repost, WithRetry
    <3>2. Key(j) \notin KeysOf(mJobs)
      BY <1>1, <2>5
    <3> HIDE DEF j
    <3>3. NoDuplicates(mJobs') /\ KeysOf(mJobs') = KeysOf(mJobs) \cup {Key(j)}
      BY <1>1, <2>2, <3>1, <3>2, AppendKeys
    <3> QED
      BY <1>1, <2>3, <3>1, <3>3
  <2> QED
    BY <2>4, <2>5
<1> QED
  BY <1>3, <1>4, <1>5, <1>6, <1>7

LEMMA QueueInvStep == QueueInv /\ [Next]_vars => QueueInv'
<1> SUFFICES ASSUME QueueInv, [Next]_vars
             PROVE  QueueInv'
  OBVIOUS
<1>1. TypeInv /\ TypeInv'
  BY TypeInvStep DEF QueueInv
<1>2. CommonOK /\ \A t \in Threads : ThreadOK(mThreadsQueues[t])
  BY QueueInvParts
<1> DEFINE QueuesOK == \A t \in Threads : ThreadOK(mThreadsQueues[t])
<1>3. SUFFICES CommonOK' /\ QueuesOK'
  BY <1>1, QueueInvParts, PTL
<1>4. ASSUME UNCHANGED <<mJobs, mPushed, main>>
      PROVE  CommonOK'
  BY <1>2, <1>4 DEF CommonOK, NoDuplicates, KeysOf
<1>m. ASSUME UNCHANGED <<mJobs, mPushed>>,
             main' \in {"join", "destroyed"} \/ main \notin {"join", "destroyed"}
      PROVE  CommonOK'
  BY <1>2, <1>m DEF CommonOK, NoDuplicates, KeysOf
<1>5. ASSUME UNCHANGED mThreadsQueues, now' \in Nat, now' >= now
      PROVE  QueuesOK'
  <2> SUFFICES ASSUME NEW t \in Threads
               PROVE  ThreadOK(mThreadsQueues[t])'
    OBVIOUS
  <2>1. ThreadOK(mThreadsQueues[t]) /\ mThreadsQueues[t].mJobs \in Seq(Job)
    BY <1>1, <1>2 DEF TypeInv, TypeOK
  <2>2. \A i \in 1..Len(mThreadsQueues[t].mJobs) : mThreadsQueues[t].mJobs[i].mProcessTime \in Nat
    <3>1. \A i \in 1..Len(mThreadsQueues[t].mJobs) : mThreadsQueues[t].mJobs[i] \in Job
      BY <2>1, ElementOfSeq
    <3> QED
      BY <3>1 DEF Job
  <2>3. now \in Nat
    BY <1>1 DEF TypeInv, TypeOK
  <2>4. mThreadsQueues'[t] = mThreadsQueues[t]
    BY <1>5
  <2>5. \A i \in 1..Len(mThreadsQueues[t].mJobs) : mThreadsQueues[t].mJobs[i].mProcessTime <= now'
    BY <1>5, <2>1, <2>2, <2>3 DEF ThreadOK
  <2> QED
    BY <2>1, <2>4, <2>5 DEF ThreadOK, NoDuplicates, KeysOf
<1>6. now \in Nat
  BY <1>1 DEF TypeInv, TypeOK
<1>7. ASSUME UNCHANGED <<mThreadsQueues, now>>
      PROVE  QueuesOK'
  BY <1>5, <1>6, <1>7
<1>d. ASSUME \A t \in Threads : ThreadOK(mThreadsQueues'[t]), now' = now
      PROVE  QueuesOK'
  BY <1>d DEF ThreadOK, NoDuplicates, KeysOf
<1> HIDE DEF QueuesOK
<1> USE DEF localVars, threadVars, mainVars, worldVars, history, queueVars, tileVars, sharedVars
<1>8. ASSUME NEW t \in Threads, TakeThreadJob(t)
      PROVE  CommonOK' /\ QueuesOK'
  BY <1>8, <1>4, <1>d, TakeThreadJobOK DEF TakeThreadJob, Dispatch
<1>9. ASSUME NEW t \in Threads, TakeJob(t)
      PROVE  CommonOK' /\ QueuesOK'
  BY <1>9, <1>d, TakeJobOK DEF TakeJob, Dispatch
<1>10. ASSUME NEW t \in Threads, repost(t)
       PROVE  CommonOK' /\ QueuesOK'
  BY <1>1, <1>10, <1>7, CommonOKChanges DEF repost
<1>11. ASSUME NEW t \in Threads, Loop(t) \/ NoNextJob(t) \/ cleanupLastUpdates(t) \/ LockItem(t)
              \/ ReadPlayerTile(t) \/ RemoveTile(t) \/ KeepTile(t) \/ UpdateTile(t) \/ Throw(t)
              \/ UpdatePresentTiles(t) \/ unlockTile(t)
       PROVE  CommonOK' /\ QueuesOK'
  <2>1. UNCHANGED <<mJobs, mPushed, mThreadsQueues, now>>
    BY <1>11 DEF Loop, NoNextJob, cleanupLastUpdates, LockItem, ReadPlayerTile, RemoveTile,
       KeepTile, UpdateTile, Throw, UpdatePresentTiles, unlockTile, Updated
  <2>2. main' = main \/ main \notin {"join", "destroyed"}
    BY <1>11 DEF Loop, NoNextJob, NotifyDone, cleanupLastUpdates, LockItem, ReadPlayerTile,
       RemoveTile, KeepTile, UpdateTile, Throw, UpdatePresentTiles, unlockTile, Updated
  <2> QED
    BY <1>4, <1>7, <1>m, <2>1, <2>2
<1>12. ASSUME LockPost \/ EndPost \/ ClearJobs \/ \E u \in Tiles, c \in ChangeType : PostTile(u, c)
       PROVE  CommonOK' /\ QueuesOK'
  <2>1. UNCHANGED <<mThreadsQueues, now>>
    BY <1>12 DEF LockPost, EndPost, ClearJobs, PostTile
  <2> QED
    BY <1>1, <1>7, <1>12, <2>1, CommonOKChanges
<1>13. ASSUME WaitPresent \/ CheckDone \/ CheckProcessed \/ Join \/ SpuriousWakeup
       PROVE  CommonOK' /\ QueuesOK'
  <2>1. UNCHANGED <<mJobs, mPushed, mThreadsQueues, now>>
    BY <1>13 DEF WaitPresent, CheckDone, CheckProcessed, Join, SpuriousWakeup
  <2>2. main' \in {"join", "destroyed"} \/ main \notin {"join", "destroyed"}
    BY <1>13 DEF WaitPresent, CheckDone, CheckProcessed, Join, SpuriousWakeup
  <2> QED
    BY <1>7, <1>m, <2>1, <2>2
<1>14. ASSUME MainStart
       PROVE  CommonOK' /\ QueuesOK'
  <2>1. UNCHANGED <<mJobs, mPushed, mThreadsQueues, now>> /\ main = "idle"
    BY <1>14 DEF MainStart, ChangeMesh, AddAgent, Reset, Post, Wait, Destroy
  <2> QED
    BY <1>7, <1>m, <2>1
<1>15. ASSUME Tick
       PROVE  CommonOK' /\ QueuesOK'
  <2>1. now' = now + 1 /\ UNCHANGED <<mJobs, mPushed, mThreadsQueues, main>>
    BY <1>15 DEF Tick
  <2> QED
    BY <1>4, <1>5, <1>6, <2>1
<1>16. ASSUME UNCHANGED vars
       PROVE  CommonOK' /\ QueuesOK'
  BY <1>4, <1>7, <1>16 DEF vars
<1> QED
  BY <1>8, <1>9, <1>10, <1>11, <1>12, <1>13, <1>14, <1>15, <1>16
  DEF Next, Worker, MainStep, Terminated

LEMMA QueueInvInit == Init => QueueInv
<1> SUFFICES ASSUME Init
             PROVE  QueueInv
  OBVIOUS
<1>1. mJobs = <<>> /\ mPushed = {}
      /\ \A t \in Threads : mThreadsQueues[t] = [mJobs |-> <<>>, mPushed |-> {}]
  BY DEF Init
<1>2. NoDuplicates(<<>>) /\ KeysOf(<<>>) = {}
  BY DEF NoDuplicates, KeysOf
<1>3. CommonOK
  BY <1>1, <1>2 DEF CommonOK
<1>4. \A t \in Threads : ThreadOK(mThreadsQueues[t])
  <2> SUFFICES ASSUME NEW t \in Threads
               PROVE  ThreadOK(mThreadsQueues[t])
    OBVIOUS
  <2>1. mThreadsQueues[t].mJobs = <<>> /\ mThreadsQueues[t].mPushed = {}
    BY <1>1
  <2>2. 1..Len(<<>>) = {}
    OBVIOUS
  <2> QED
    BY <1>2, <2>1, <2>2 DEF ThreadOK
<1> QED
  BY <1>3, <1>4, TypeInvInit, QueueInvParts

\* Every mPushed is the set of the keys in its queue, whatever post, getNextJob,
\* repost and the destructor do and in whatever order: the iterator getJob erases
\* is there, and a key that keeps post from adding a job stands for one.
THEOREM PushedIsKeys == Spec => []PushedMatchesJobs
<1>1. QueueInv => PushedMatchesJobs
  BY DEF QueueInv
<1> QED
  BY <1>1, QueueInvInit, QueueInvStep, PTL DEF Spec

\* A thread never finds a job in its own queue that it has to wait for: getNextJob
\* does not spin with mMutex held.
THEOREM HandedOverJobsAreDue == Spec => []ThreadJobsDue
<1>1. QueueInv => ThreadJobsDue
  BY DEF QueueInv
<1> QED
  BY <1>1, QueueInvInit, QueueInvStep, PTL DEF Spec

-----------------------------------------------------------------------------
(* What requiredTilesPresent waits for.                                    *)

\* What the navmesh has, and what a thread is going to say of it: the tile is gone
\* when updateNavMesh returned "removed", else it is there.
PresentInv ==
    /\ \A t \in Threads : pc[t] = "presentTiles" => (navMesh[Key(job[t])].present <=> status[t] # "removed")
    /\ PresentTilesExact

\* Steps that change no tile, and neither begin nor end a change of mPresentTiles.
LEMMA PresentKept ==
    ASSUME PresentInv, UNCHANGED <<navMesh, mPresentTiles>>,
           \A s \in Threads : /\ pc'[s] = "presentTiles" <=> pc[s] = "presentTiles"
                              /\ pc[s] = "presentTiles" => job'[s] = job[s] /\ status'[s] = status[s]
    PROVE  PresentInv'
BY DEF PresentInv, PresentTilesExact

\* updateNavMesh has changed the tile of its job, or found it as it has to be.
LEMMA UpdatedPresent ==
    ASSUME LockInv, PresentInv, NEW t \in Threads, pc[t] = "updateNavMesh", NEW s \in Statuses, Updated(t, s),
           \A k \in Keys : k # Key(job[t]) => navMesh'[k] = navMesh[k],
           IF s \in {"ignored", "failed"}
           THEN navMesh'[Key(job[t])].present = navMesh[Key(job[t])].present
           ELSE navMesh'[Key(job[t])].present <=> s # "removed"
    PROVE  PresentInv'
<1>0. /\ pc \in [Threads -> WorkerPCs] /\ status \in [Threads -> Statuses]
      /\ \A r \in Threads : Processing(r) => Key(job[r]) \in Keys
  BY DEF LockInv, TypeInv, TypeOK, Busy, Processing, Key, Keys, Job
<1> DEFINE place == IF s \in {"ignored", "failed"} THEN "unlockTile" ELSE "presentTiles"
<1>1. /\ status' = [status EXCEPT ![t] = s] /\ pc' = [pc EXCEPT ![t] = place]
      /\ job' = job /\ mPresentTiles' = mPresentTiles
  BY DEF Updated, sharedVars, tileVars
<1>2. \A r \in Threads : /\ status'[r] = IF r = t THEN s ELSE status[r]
                         /\ pc'[r] = IF r = t THEN place ELSE pc[r]
  BY <1>0, <1>1
<1>3. \A r \in Threads \ {t} : pc[r] = "presentTiles" => Key(job[r]) # Key(job[t])
  <2>1. \A r \in Threads \ {t} : Parallel
    BY DEF Parallel
  <2>2. Processing(t)
    BY DEF Processing
  <2>3. \A r \in Threads : pc[r] = "presentTiles" => Processing(r)
    BY DEF Processing
  <2>4. QED
    BY <2>1, <2>2, <2>3 DEF LockInv
<1>4. ASSUME NEW r \in Threads, pc'[r] = "presentTiles"
      PROVE  navMesh'[Key(job[r])].present <=> status'[r] # "removed"
  <2>1. CASE r = t
    BY <1>2, <1>4, <2>1
  <2>2. CASE r # t
    <3>1. pc[r] = "presentTiles" /\ status'[r] = status[r]
      BY <1>2, <1>4, <2>2
    <3>2. Key(job[r]) \in Keys /\ Key(job[r]) # Key(job[t])
      BY <1>0, <1>3, <2>2, <3>1 DEF Processing
    <3>3. navMesh'[Key(job[r])] = navMesh[Key(job[r])]
      BY <3>2
    <3>4. QED
      BY <3>1, <3>3 DEF PresentInv
  <2>3. QED
    BY <2>1, <2>2
<1>5. ASSUME ~MayReset, NEW k \in Keys
      PROVE  \/ navMesh'[k].present <=> k \in mPresentTiles
             \/ \E r \in Threads : pc'[r] = "presentTiles" /\ Key(job[r]) = k
  <2>1. \/ navMesh[k].present <=> k \in mPresentTiles
        \/ \E r \in Threads : pc[r] = "presentTiles" /\ Key(job[r]) = k
    BY <1>5 DEF PresentInv, PresentTilesExact
  <2>2. \A r \in Threads : pc[r] = "presentTiles" => pc'[r] = "presentTiles"
    BY <1>2
  <2>3. CASE k = Key(job[t])
    BY <1>2, <2>1, <2>2, <2>3
  <2>4. CASE k # Key(job[t])
    BY <2>1, <2>2, <2>4
  <2>5. QED
    BY <2>3, <2>4
<1>6. QED
  BY <1>1, <1>4, <1>5 DEF PresentInv, PresentTilesExact

LEMMA PresentStep ==
    ASSUME LockInv, PresentInv, NEW t \in Threads, Worker(t)
    PROVE  PresentInv'
<1>0. /\ pc \in [Threads -> WorkerPCs] /\ status \in [Threads -> Statuses]
      /\ job \in [Threads -> Job \cup {NoJob}]
      /\ navMesh \in [Keys -> [rev : Nat, present : BOOLEAN]]
      /\ \A r \in Threads : Processing(r) => Key(job[r]) \in Keys
  BY DEF LockInv, TypeInv, TypeOK, Busy, Processing, Key, Keys, Job
<1> USE DEF localVars, worldVars, queueVars, tileVars, sharedVars
<1>1. ASSUME UNCHANGED <<navMesh, mPresentTiles>>, pc[t] # "presentTiles", NEW place,
             pc' = [pc EXCEPT ![t] = place], place # "presentTiles",
             \A s \in Threads \ {t} : job'[s] = job[s] /\ status'[s] = status[s]
      PROVE  PresentInv'
  BY <1>0, <1>1, PresentKept
<1>2. CASE Loop(t) \/ NoNextJob(t) \/ cleanupLastUpdates(t)
  BY <1>1, <1>2 DEF Loop, NoNextJob, cleanupLastUpdates, InGetNextJob
<1>3. CASE TakeThreadJob(t) \/ TakeJob(t)
  <2>1. \E j, queues : Dispatch(t, j, queues) /\ InGetNextJob(t)
    BY <1>3 DEF TakeThreadJob, TakeJob
  <2>2. PICK j, queues : Dispatch(t, j, queues) /\ InGetNextJob(t)
    BY <2>1
  <2>3. job' = job \/ job' = [job EXCEPT ![t] = j]
    BY <2>2 DEF Dispatch
  <2>4. /\ UNCHANGED <<navMesh, mPresentTiles, status>>
        /\ pc[t] \in {"locked", "getNextJob"}
        /\ pc' = [pc EXCEPT ![t] = "processJob"] \/ pc' = [pc EXCEPT ![t] = "locked"]
    BY <2>2 DEF Dispatch, InGetNextJob
  <2>5. \A s \in Threads \ {t} : job'[s] = job[s] /\ status'[s] = status[s]
    BY <1>0, <2>3, <2>4
  <2>6. QED
    BY <1>1, <2>4, <2>5
<1>4. CASE LockItem(t)
  BY <1>0, <1>1, <1>4 DEF LockItem
<1>5. CASE ReadPlayerTile(t)
  BY <1>1, <1>5 DEF ReadPlayerTile
<1>6. CASE RemoveTile(t)
  <2>1. pc[t] = "updateNavMesh" /\ Key(job[t]) \in Keys
    BY <1>0, <1>6 DEF RemoveTile, Processing
  <2>2. navMesh' = [navMesh EXCEPT ![Key(job[t])] = [rev |-> 0, present |-> FALSE]]
    BY <1>6 DEF RemoveTile
  <2>3. \A k \in Keys : navMesh'[k] = IF k = Key(job[t]) THEN [rev |-> 0, present |-> FALSE] ELSE navMesh[k]
    BY <1>0, <2>2
  <2>4. CASE navMesh[Key(job[t])].present
    <3>1. Updated(t, "removed")
      BY <1>6, <2>4 DEF RemoveTile
    <3>2. navMesh'[Key(job[t])].present = FALSE
      BY <2>1, <2>3
    <3>3. QED
      BY <2>1, <2>3, <3>1, <3>2, UpdatedPresent DEF Statuses
  <2>5. CASE ~navMesh[Key(job[t])].present
    <3>1. Updated(t, "ignored")
      BY <1>6, <2>5 DEF RemoveTile
    <3>2. navMesh'[Key(job[t])].present = FALSE /\ navMesh[Key(job[t])].present = FALSE
      BY <1>0, <2>1, <2>3, <2>5
    <3>3. QED
      BY <2>1, <2>3, <3>1, <3>2, UpdatedPresent DEF Statuses
  <2>6. QED
    BY <2>4, <2>5
<1>7. CASE KeepTile(t)
  <2>1. pc[t] = "updateNavMesh" /\ Key(job[t]) \in Keys
    BY <1>0, <1>7 DEF KeepTile, MustAdd, Processing
  <2>2. navMesh' = [navMesh EXCEPT ![Key(job[t])] = [rev |-> recastMesh[t].rev, present |-> TRUE]]
    BY <1>7 DEF KeepTile
  <2>3. \A k \in Keys : navMesh'[k] = IF k = Key(job[t]) THEN [rev |-> recastMesh[t].rev, present |-> TRUE]
                                      ELSE navMesh[k]
    BY <1>0, <2>2
  <2>4. navMesh'[Key(job[t])].present = TRUE /\ navMesh[Key(job[t])].present = TRUE
    BY <1>0, <1>7, <2>1, <2>3 DEF KeepTile
  <2>5. Updated(t, "cached") \/ Updated(t, "ignored")
    BY <1>7 DEF KeepTile
  <2>6. QED
    BY <2>1, <2>3, <2>4, <2>5, UpdatedPresent DEF Statuses
<1>8. CASE UpdateTile(t)
  <2>1. pc[t] = "updateNavMesh" /\ Key(job[t]) \in Keys
    BY <1>0, <1>8 DEF UpdateTile, MustAdd, Processing
  <2>2. CASE navMesh' = navMesh /\ Updated(t, "failed")
    BY <2>1, <2>2, UpdatedPresent DEF Statuses
  <2>3. CASE /\ navMesh' = [navMesh EXCEPT ![Key(job[t])] = [rev |-> recastMesh[t].rev, present |-> TRUE]]
             /\ Updated(t, "added")
    <3>1. \A k \in Keys : navMesh'[k] = IF k = Key(job[t]) THEN [rev |-> recastMesh[t].rev, present |-> TRUE]
                                        ELSE navMesh[k]
      BY <1>0, <2>3
    <3>2. navMesh'[Key(job[t])].present = TRUE
      BY <2>1, <3>1
    <3>3. QED
      BY <2>1, <2>3, <3>1, <3>2, UpdatedPresent DEF Statuses
  <2>4. QED
    BY <1>8, <2>2, <2>3 DEF UpdateTile
<1>9. CASE Throw(t)
  BY <1>0, <1>1, <1>9 DEF Throw, MustAdd, EndJob
<1>10. CASE UpdatePresentTiles(t)
  <2>1. /\ pc[t] = "presentTiles" /\ mPresentTiles' = PresentTiles(t)
        /\ pc' = [pc EXCEPT ![t] = "unlockTile"] /\ UNCHANGED <<job, status, navMesh>>
    BY <1>10 DEF UpdatePresentTiles
  <2>2. \A r \in Threads : pc'[r] = IF r = t THEN "unlockTile" ELSE pc[r]
    BY <1>0, <2>1
  <2>3. navMesh[Key(job[t])].present <=> Key(job[t]) \in mPresentTiles'
    BY <2>1 DEF PresentInv, PresentTiles
  <2>4. \A k \in Keys : k # Key(job[t]) => (k \in mPresentTiles' <=> k \in mPresentTiles)
    BY <2>1 DEF PresentTiles
  <2>5. PresentTilesExact'
    BY <2>1, <2>2, <2>3, <2>4 DEF PresentInv, PresentTilesExact
  <2>6. \A r \in Threads : pc'[r] = "presentTiles" => pc[r] = "presentTiles"
    BY <2>2
  <2>7. QED
    BY <2>1, <2>5, <2>6 DEF PresentInv
<1>11. CASE unlockTile(t)
  BY <1>0, <1>1, <1>11 DEF unlockTile, EndJob
<1>12. CASE repost(t)
  BY <1>0, <1>1, <1>12 DEF repost
<1>13. QED
  BY <1>2, <1>3, <1>4, <1>5, <1>6, <1>7, <1>8, <1>9, <1>10, <1>11, <1>12 DEF Worker

LEMMA PresentMain ==
    ASSUME LockInv, PresentInv, MainStart \/ MainStep \/ SpuriousWakeup \/ Tick \/ Terminated \/ UNCHANGED vars
    PROVE  PresentInv'
<1>0. navMesh \in [Keys -> [rev : Nat, present : BOOLEAN]]
  BY DEF LockInv, TypeInv, TypeOK
<1> USE DEF localVars, threadVars, mainVars, worldVars, history, queueVars, tileVars, sharedVars
<1>1. CASE UNCHANGED <<navMesh, mPresentTiles, threadVars>>
  BY <1>1, PresentKept
<1>2. ASSUME NEW a \in Agents, Reset(a) PROVE PresentInv'
  <2>1. UNCHANGED <<mPresentTiles, threadVars>> /\ MayReset /\ ~Held(a)
    BY <1>2 DEF Reset
  <2>2. ASSUME NEW t \in Threads, pc[t] = "presentTiles" PROVE navMesh'[Key(job[t])] = navMesh[Key(job[t])]
    <3>1. Key(job[t]) \in Keys /\ Key(job[t])[1] # a
      BY <2>1, <2>2 DEF Held, LockInv, TypeInv, Busy, Key, Keys, Job
    <3>2. navMesh' = [k \in Keys |-> IF k[1] = a THEN [rev |-> 0, present |-> FALSE] ELSE navMesh[k]]
      BY <1>2 DEF Reset
    <3>3. QED
      BY <3>1, <3>2
  <2>3. PresentTilesExact'
    BY <2>1 DEF PresentTilesExact
  <2>4. QED
    BY <2>1, <2>2, <2>3 DEF PresentInv
<1>3. CASE \/ \E u \in Tiles : ChangeMesh(u)
           \/ \E a \in Agents : AddAgent(a)
           \/ \E a \in Agents, arguments \in PostArguments : Post(a, arguments[1], arguments[2])
           \/ \E type \in WaitTypes \ {"none"} : Wait(type)
           \/ Destroy
  BY <1>1, <1>3 DEF ChangeMesh, AddAgent, Post, Wait, Destroy
<1>4. CASE MainStep
  BY <1>1, <1>4
  DEF MainStep, LockPost, PostTile, EndPost, WaitPresent, CheckDone, CheckProcessed, ClearJobs, Join
<1>5. CASE SpuriousWakeup \/ Tick \/ Terminated \/ UNCHANGED vars
  BY <1>1, <1>5 DEF SpuriousWakeup, Tick, Terminated, vars
<1>6. QED
  BY <1>2, <1>3, <1>4, <1>5 DEF MainStart

\* mPresentTiles says what the navmeshes have, but for the keys a thread is busy with.
THEOREM PresentTilesFollow == Spec => []PresentTilesExact
<1>1. Init => PresentInv
  BY DEF Init, PresentInv, PresentTilesExact, Keys
<1>2. LockInv /\ PresentInv /\ [Next]_vars => PresentInv'
  BY PresentStep, PresentMain DEF Next
<1>3. PresentInv => PresentTilesExact
  BY DEF PresentInv
<1>4. Init => LockInv
  BY TypeInvInit DEF Init, LockInv, Processing
<1>5. QED
  BY <1>1, <1>2, <1>3, <1>4, LockInvStep, PTL DEF Spec

-----------------------------------------------------------------------------
(* Jobs for added and removed objects are taken first.                     *)

FreshPrefix(jobs) == \A i, k \in 1..Len(jobs) : i < k /\ Fresh(jobs[k]) => Fresh(jobs[i])

\* A fresh job never waits; fresh jobs come first unless post has yet to sort.
FreshInv ==
    /\ \A i \in 1..Len(mJobs) : Fresh(mJobs[i]) => mJobs[i].mProcessTime = 0
    /\ (main = "posting" /\ call.playerTileChanged) \/ FreshPrefix(mJobs)

\* In the order of the queue a fresh job is before one that is not.
LEMMA FreshIsLess ==
    ASSUME NEW f \in Job, NEW n \in Job, Fresh(f), f.mProcessTime = 0, ~Fresh(n)
    PROVE  Less(f, n) /\ ~Less(n, f)
<1> DEFINE p == getPriority(f)
           q == getPriority(n)
<1>1. /\ p[1] = 0 /\ p[2] = 0 /\ p[3] \in {0, 1, 2}
      /\ q[1] \in Nat /\ q[2] \in 0..3 /\ q[3] \in 0..3
      /\ q[2] # 0 \/ q[3] = 3
  BY DEF getPriority, Fresh, Update, Job, ChangeType
<1>2. (Less(f, n) <=> \E i \in 1..5 : p[i] < q[i] /\ \A m \in 1..(i - 1) : p[m] = q[m])
  BY DEF Less
<1>3. Less(n, f) <=> \E i \in 1..5 : q[i] < p[i] /\ \A m \in 1..(i - 1) : q[m] = p[m]
  BY DEF Less
<1> HIDE DEF p, q
<1>4. Less(f, n)
  <2>1. CASE q[1] # 0
    <3>1. p[1] < q[1] /\ \A m \in 1..(1 - 1) : p[m] = q[m]
      BY <1>1, <2>1
    <3>2. QED
      BY <1>2, <3>1
  <2>2. CASE q[1] = 0 /\ q[2] # 0
    <3>1. p[2] < q[2] /\ \A m \in 1..(2 - 1) : p[m] = q[m]
      BY <1>1, <2>2
    <3>2. QED
      BY <1>2, <3>1
  <2>3. CASE q[1] = 0 /\ q[2] = 0
    <3>1. p[3] < q[3] /\ \A m \in 1..(3 - 1) : p[m] = q[m]
      BY <1>1, <2>3
    <3>2. QED
      BY <1>2, <3>1
  <2>4. QED
    BY <2>1, <2>2, <2>3
<1>5. ~Less(n, f)
  <2> SUFFICES ASSUME NEW i \in 1..5, q[i] < p[i], \A m \in 1..(i - 1) : q[m] = p[m] PROVE FALSE
    BY <1>3
  <2>1. i # 1 /\ i # 2
    BY <1>1
  <2>2. 1 \in 1..(i - 1) /\ 2 \in 1..(i - 1)
    BY <2>1
  <2>3. q[1] = 0 /\ q[2] = 0 /\ q[3] = 3
    BY <1>1, <2>2
  <2>4. i = 3 => FALSE
    BY <1>1, <2>3
  <2>5. i # 3 => 3 \in 1..(i - 1)
    BY <2>1
  <2>6. QED
    BY <1>1, <2>3, <2>4, <2>5
<1>6. QED
  BY <1>4, <1>5

\* std::upper_bound puts a fresh job behind fresh jobs only, and another one before
\* others only.
LEMMA InsertFresh ==
    ASSUME NEW q \in Seq(Job), NEW j \in Job, NEW n \in UpperBounds(q, j), FreshPrefix(q),
           \A i \in 1..Len(q) : Fresh(q[i]) => q[i].mProcessTime = 0, Fresh(j) => j.mProcessTime = 0
    PROVE  FreshPrefix(InsertAt(q, n, j))
<1>0. Len(q) \in Nat /\ n \in 1..(Len(q) + 1)
  BY LenProperties DEF UpperBounds
<1>1. /\ Len(InsertAt(q, n, j)) = Len(q) + 1
      /\ \A k \in 1..(Len(q) + 1) :
           InsertAt(q, n, j)[k] = IF k < n THEN q[k] ELSE IF k = n THEN j ELSE q[k - 1]
  BY <1>0, InsertAtProperties
<1>2. Fresh(j) => \A i \in 1..Len(q) : i < n => Fresh(q[i])
  <2> SUFFICES ASSUME Fresh(j), NEW i \in 1..Len(q), i < n PROVE Fresh(q[i])
    OBVIOUS
  <2>1. n - 1 \in 1..Len(q) /\ ~Less(j, q[n - 1])
    BY <1>0 DEF UpperBounds
  <2>2. Fresh(q[n - 1])
    BY <2>1, FreshIsLess
  <2>3. i = n - 1 \/ i < n - 1
    BY <1>0
  <2>4. QED
    BY <2>1, <2>2, <2>3 DEF FreshPrefix
<1>3. ~Fresh(j) => \A i \in 1..Len(q) : i >= n => ~Fresh(q[i])
  <2> SUFFICES ASSUME ~Fresh(j), NEW i \in 1..Len(q), i >= n, Fresh(q[i]) PROVE FALSE
    OBVIOUS
  <2>1. n \in 1..Len(q) /\ Less(j, q[n])
    BY <1>0 DEF UpperBounds
  <2>2. Fresh(q[n])
    <3>1. i = n \/ n < i
      BY <1>0
    <3>2. QED
      BY <2>1, <3>1 DEF FreshPrefix
  <2>3. QED
    BY <2>1, <2>2, FreshIsLess
<1>4. ASSUME NEW i \in 1..(Len(q) + 1), NEW k \in 1..(Len(q) + 1), i < k, Fresh(InsertAt(q, n, j)[k])
      PROVE  Fresh(InsertAt(q, n, j)[i])
  <2>1. CASE k < n
    <3>1. i \in 1..Len(q) /\ k \in 1..Len(q) /\ InsertAt(q, n, j)[i] = q[i] /\ InsertAt(q, n, j)[k] = q[k]
      BY <1>0, <1>1, <1>4, <2>1
    <3>2. QED
      BY <1>4, <3>1 DEF FreshPrefix
  <2>2. CASE k = n
    <3>1. i \in 1..Len(q) /\ i < n /\ InsertAt(q, n, j)[i] = q[i] /\ InsertAt(q, n, j)[k] = j
      BY <1>0, <1>1, <1>4, <2>2
    <3>2. QED
      BY <1>2, <1>4, <3>1
  <2>3. CASE k > n
    <3>1. k - 1 \in 1..Len(q) /\ k - 1 >= n /\ InsertAt(q, n, j)[k] = q[k - 1]
      BY <1>0, <1>1, <2>3
    <3>2. Fresh(q[k - 1]) /\ Fresh(j)
      BY <1>3, <1>4, <3>1
    <3>3. CASE i < n
      <4>1. i \in 1..Len(q) /\ i < k - 1 /\ InsertAt(q, n, j)[i] = q[i]
        BY <1>0, <1>1, <3>1, <3>3
      <4>2. QED
        BY <3>1, <3>2, <4>1 DEF FreshPrefix
    <3>4. CASE i = n
      BY <1>1, <3>2, <3>4
    <3>5. CASE i > n
      <4>1. i - 1 \in 1..Len(q) /\ i - 1 < k - 1 /\ InsertAt(q, n, j)[i] = q[i - 1]
        BY <1>0, <1>1, <1>4, <3>5
      <4>2. QED
        BY <3>1, <3>2, <4>1 DEF FreshPrefix
    <3>6. QED
      BY <1>0, <3>3, <3>4, <3>5
  <2>4. QED
    BY <1>0, <2>1, <2>2, <2>3
<1>5. QED
  BY <1>1, <1>4 DEF FreshPrefix

\* A thread wakes the main thread up, and leaves it alone otherwise.
LEMMA WorkerMain ==
    ASSUME NEW t \in Threads, Worker(t)
    PROVE  /\ UNCHANGED <<call, waitType, posts, mShouldStop>>
           /\ \/ main' = main
              \/ main = "waitDone" /\ main' = "checkDone"
              \/ main = "waitProcessed" /\ main' = "checkProcessed"
<1> USE DEF mainVars, sharedVars, queueVars, tileVars
<1>1. CASE NoNextJob(t)
  <2>1. main' = IF NoJobsLeft /\ main = "waitDone" THEN "checkDone" ELSE main
    BY <1>1 DEF NoNextJob, NotifyDone
  <2>2. main' = main \/ (main = "waitDone" /\ main' = "checkDone")
    BY <2>1, Zenon
  <2>3. UNCHANGED <<call, waitType, posts, mShouldStop>>
    BY <1>1 DEF NoNextJob
  <2>4. QED
    BY <2>2, <2>3
<1>2. CASE unlockTile(t)
  <2> DEFINE free == main = "waitProcessed" /\ Parallel /\ NothingProcessed(mProcessingTiles')
  <2>1. main' = IF free THEN "checkProcessed" ELSE main
    BY <1>2 DEF unlockTile
  <2>2. free => main = "waitProcessed"
    OBVIOUS
  <2>3. UNCHANGED <<call, waitType, posts, mShouldStop>>
    BY <1>2 DEF unlockTile
  <2> HIDE DEF free
  <2>4. QED
    BY <2>1, <2>2, <2>3
<1>3. CASE ~NoNextJob(t) /\ ~unlockTile(t)
  BY <1>3
  DEF Worker, Loop, TakeThreadJob, TakeJob, Dispatch, cleanupLastUpdates, LockItem, ReadPlayerTile, RemoveTile,
      KeepTile, UpdateTile, Updated, Throw, UpdatePresentTiles, repost
<1>4. QED
  BY <1>1, <1>2, <1>3

\* std::sort puts fresh jobs first.
LEMMA SortedFresh ==
    ASSUME NEW q \in Seq(Job), Sorted(q), \A i \in 1..Len(q) : Fresh(q[i]) => q[i].mProcessTime = 0
    PROVE  FreshPrefix(q)
<1> SUFFICES ASSUME NEW i \in 1..Len(q), NEW k \in 1..Len(q), i < k, Fresh(q[k]), ~Fresh(q[i]) PROVE FALSE
  BY DEF FreshPrefix
<1>1. q[i] \in Job /\ q[k] \in Job /\ q[k].mProcessTime = 0
  OBVIOUS
<1>2. Less(q[k], q[i])
  BY <1>1, FreshIsLess
<1>3. QED
  BY <1>2 DEF Sorted

LEMMA FreshStep ==
    ASSUME TypeInv, TypeInv', FreshInv, [Next]_vars
    PROVE  FreshInv'
<1>0. mJobs \in Seq(Job) /\ mJobs' \in Seq(Job) /\ Len(mJobs) \in Nat
  BY LenProperties DEF TypeInv, TypeOK
<1> USE DEF localVars, threadVars, mainVars, worldVars, history, queueVars, tileVars, sharedVars
<1>1. ASSUME mJobs' = mJobs, main # "posting", main' # "posting" PROVE FreshInv'
  BY <1>1 DEF FreshInv
<1>2. ASSUME UNCHANGED <<mJobs, main, call>> PROVE FreshInv'
  BY <1>2 DEF FreshInv
<1>3. ASSUME NEW t \in Threads, TakeJob(t) PROVE FreshInv'
  <2>1. mJobs # <<>> /\ mJobs' = Tail(mJobs) /\ UNCHANGED <<main, call>>
    BY <1>3 DEF TakeJob, HasCommonJob, Dispatch
  <2>2. /\ Len(mJobs') = Len(mJobs) - 1
        /\ \A i \in 1..Len(mJobs') : mJobs'[i] = mJobs[i + 1] /\ i + 1 \in 1..Len(mJobs)
    BY <1>0, <2>1, HeadTailProperties, EmptySeq
  <2>3. FreshPrefix(mJobs) => FreshPrefix(mJobs')
    <3> SUFFICES ASSUME FreshPrefix(mJobs), NEW i \in 1..Len(mJobs'), NEW k \in 1..Len(mJobs'), i < k, Fresh(mJobs'[k])
                 PROVE  Fresh(mJobs'[i])
      BY DEF FreshPrefix
    <3>1. i + 1 \in 1..Len(mJobs) /\ k + 1 \in 1..Len(mJobs) /\ i + 1 < k + 1 /\ Fresh(mJobs[k + 1])
      BY <2>2
    <3>2. QED
      BY <2>2, <3>1 DEF FreshPrefix
  <2>4. \A i \in 1..Len(mJobs') : Fresh(mJobs'[i]) => mJobs'[i].mProcessTime = 0
    BY <2>2 DEF FreshInv
  <2>5. QED
    BY <2>1, <2>3, <2>4 DEF FreshInv
<1>4. ASSUME NEW t \in Threads, repost(t) PROVE FreshInv'
  <2>1. UNCHANGED <<main, call>>
    BY <1>4 DEF repost
  <2>2. CASE mJobs' = mJobs
    BY <1>2, <2>1, <2>2
  <2>3. CASE mJobs' = WithRetry(job[t])
    <3> DEFINE j == Retried(job[t])
    <3>1. job[t] \in Job /\ j \in Job
      BY <1>4, RetriedIsJob DEF TypeInv, Busy, repost
    <3>2. ~Fresh(j)
      BY <3>1 DEF Retried, Fresh, Job
    <3>3. mJobs' = Append(mJobs, j)
      BY <2>3 DEF WithRetry
    <3> HIDE DEF j
    <3>4. /\ Len(mJobs') = Len(mJobs) + 1
          /\ \A i \in 1..Len(mJobs) : mJobs'[i] = mJobs[i]
          /\ mJobs'[Len(mJobs) + 1] = j
      BY <1>0, <3>1, <3>3, AppendProperties
    <3>5. \A i \in 1..Len(mJobs') : Fresh(mJobs'[i]) => i \in 1..Len(mJobs)
      BY <1>0, <3>2, <3>4
    <3>6. FreshPrefix(mJobs) => FreshPrefix(mJobs')
      <4> SUFFICES ASSUME FreshPrefix(mJobs), NEW i \in 1..Len(mJobs'), NEW k \in 1..Len(mJobs'), i < k, Fresh(mJobs'[k])
                   PROVE  Fresh(mJobs'[i])
        BY DEF FreshPrefix
      <4>1. k \in 1..Len(mJobs) /\ i \in 1..Len(mJobs)
        BY <1>0, <3>4, <3>5
      <4>2. QED
        BY <3>4, <4>1 DEF FreshPrefix
    <3>7. QED
      BY <2>1, <3>4, <3>5, <3>6 DEF FreshInv
  <2>4. QED
    BY <1>4, <2>2, <2>3 DEF repost
<1>5. CASE \E t \in Threads : Worker(t) /\ ~TakeJob(t) /\ ~repost(t)
  <2>1. PICK t \in Threads : Worker(t) /\ ~TakeJob(t) /\ ~repost(t)
    BY <1>5
  <2>2. mJobs' = mJobs
    BY <2>1
    DEF Worker, Loop, TakeThreadJob, Dispatch, NoNextJob, cleanupLastUpdates, LockItem, ReadPlayerTile, RemoveTile,
        KeepTile, UpdateTile, Updated, Throw, UpdatePresentTiles, unlockTile
  <2>3. QED
    BY <1>1, <1>2, <2>1, <2>2, WorkerMain
<1>6. CASE MainStart
  <2>1. mJobs' = mJobs /\ main = "idle" /\ main' # "posting"
    BY <1>6 DEF MainStart, ChangeMesh, AddAgent, Reset, Post, Wait, Destroy
  <2>2. QED
    BY <1>1, <2>1
<1>7. CASE LockPost
  <2>1. call' = call /\ main # "posting" /\ main' = "posting"
    BY <1>7 DEF LockPost
  <2>2. CASE ~call.playerTileChanged
    BY <1>7, <2>1, <2>2 DEF LockPost, FreshInv
  <2>3. CASE call.playerTileChanged
    <3>1. mJobs' = [i \in 1..Len(mJobs) |-> [mJobs[i] EXCEPT
                       !.mDistanceToPlayer = getManhattanDistance(mJobs[i].mTile, mPlayerTile)]]
      BY <1>7, <2>3 DEF LockPost
    <3>2. Len(mJobs') = Len(mJobs)
      BY <1>0, <3>1
    <3>3. ASSUME NEW i \in 1..Len(mJobs), Fresh(mJobs'[i]) PROVE mJobs'[i].mProcessTime = 0
      <4>1. mJobs[i] \in Job
        BY <1>0
      <4>2. mJobs'[i] = [mJobs[i] EXCEPT !.mDistanceToPlayer = getManhattanDistance(mJobs[i].mTile, mPlayerTile)]
        BY <3>1
      <4>3. /\ mJobs'[i].mProcessTime = mJobs[i].mProcessTime /\ mJobs'[i].mTryNumber = mJobs[i].mTryNumber
            /\ mJobs'[i].mChangeType = mJobs[i].mChangeType
        BY <4>1, <4>2 DEF Job
      <4>4. QED
        BY <3>3, <4>3 DEF FreshInv, Fresh
    <3>4. QED
      BY <2>1, <2>3, <3>2, <3>3 DEF FreshInv
  <2>4. QED
    BY <2>2, <2>3
<1>8. ASSUME NEW u \in Tiles, NEW c \in ChangeType, PostTile(u, c) PROVE FreshInv'
  <2> DEFINE j == newJob(u, c)
  <2>1. /\ main = "posting" /\ main' = main
        /\ call' = [call EXCEPT !.todo = @ \ {<<u, c>>}]
    BY <1>8 DEF PostTile
  <2>2. call'.playerTileChanged = call.playerTileChanged /\ call \in Call
    <3>1. call \in Call
      BY <2>1 DEF TypeInv
    <3>2. QED
      BY <2>1, <3>1 DEF Call
  <2>3. CASE mJobs' = mJobs
    BY <2>1, <2>2, <2>3 DEF FreshInv
  <2>4. CASE mJobs' # mJobs
    <3>1. j \in Job
      BY <2>1, <2>2, NewJobIsJob DEF TypeInv
    <3>2. Fresh(j) => j.mProcessTime = 0
      BY DEF newJob, Fresh, processTime, Update
    <3>3. IF call.playerTileChanged
          THEN mJobs' = Append(mJobs, j)
          ELSE \E i \in UpperBounds(mJobs, j) : mJobs' = InsertAt(mJobs, i, j)
      BY <1>8, <2>4 DEF PostTile
    <3> HIDE DEF j
    <3>4. CASE call.playerTileChanged
      <4>1. \A i \in 1..Len(mJobs') : mJobs'[i] = j \/ (i \in 1..Len(mJobs) /\ mJobs'[i] = mJobs[i])
        BY <1>0, <3>1, <3>3, <3>4, AppendProperties
      <4>2. \A i \in 1..Len(mJobs') : Fresh(mJobs'[i]) => mJobs'[i].mProcessTime = 0
        BY <3>2, <4>1 DEF FreshInv
      <4>3. QED
        BY <2>1, <2>2, <3>4, <4>2 DEF FreshInv
    <3>5. CASE ~call.playerTileChanged
      <4>1. PICK n \in UpperBounds(mJobs, j) : mJobs' = InsertAt(mJobs, n, j)
        BY <3>3, <3>5
      <4>2. n \in 1..(Len(mJobs) + 1)
        BY DEF UpperBounds
      <4>3. /\ Len(mJobs') = Len(mJobs) + 1
            /\ \A k \in 1..(Len(mJobs) + 1) :
                 mJobs'[k] = IF k < n THEN mJobs[k] ELSE IF k = n THEN j ELSE mJobs[k - 1]
        <5>1. /\ Len(InsertAt(mJobs, n, j)) = Len(mJobs) + 1
              /\ \A k \in 1..(Len(mJobs) + 1) :
                   InsertAt(mJobs, n, j)[k] = IF k < n THEN mJobs[k] ELSE IF k = n THEN j ELSE mJobs[k - 1]
          BY <1>0, <3>1, <4>2, InsertAtProperties
        <5>2. QED
          BY <4>1, <5>1
      <4>4. \A i \in 1..Len(mJobs') : mJobs'[i] = j \/ \E k \in 1..Len(mJobs) : mJobs'[i] = mJobs[k]
        <5> SUFFICES ASSUME NEW i \in 1..Len(mJobs'), i # n PROVE \E k \in 1..Len(mJobs) : mJobs'[i] = mJobs[k]
          BY <4>3
        <5>1. CASE i < n
          BY <1>0, <4>2, <4>3, <5>1
        <5>2. CASE i > n
          <6>1. i - 1 \in 1..Len(mJobs) /\ mJobs'[i] = mJobs[i - 1]
            BY <1>0, <4>2, <4>3, <5>2
          <6>2. QED
            BY <6>1
        <5>3. QED
          BY <4>2, <5>1, <5>2
      <4>5. \A i \in 1..Len(mJobs') : Fresh(mJobs'[i]) => mJobs'[i].mProcessTime = 0
        BY <3>2, <4>4 DEF FreshInv
      <4>6. FreshPrefix(mJobs')
        BY <1>0, <3>1, <3>2, <3>5, <4>1, InsertFresh DEF FreshInv
      <4>7. QED
        BY <4>5, <4>6 DEF FreshInv
    <3>6. QED
      BY <3>4, <3>5
  <2>5. QED
    BY <2>3, <2>4
<1>9. CASE EndPost
  <2>1. main' # "posting"
    BY <1>9 DEF EndPost
  <2>2. CASE ~call.playerTileChanged
    BY <1>9, <2>1, <2>2 DEF EndPost, FreshInv
  <2>3. CASE call.playerTileChanged
    <3>1. PICK p \in Bijection(1..Len(mJobs), 1..Len(mJobs)) : /\ Sorted(Reordered(mJobs, p))
                                                               /\ mJobs' = Reordered(mJobs, p)
      BY <1>9, <2>3 DEF EndPost
    <3>2. \A i \in 1..Len(mJobs) : p[i] \in 1..Len(mJobs)
      BY DEF Bijection, Injection
    <3>3. Len(mJobs') = Len(mJobs) /\ \A i \in 1..Len(mJobs) : mJobs'[i] = mJobs[p[i]]
      BY <1>0, <3>1, ReorderedIsSeq DEF Reordered
    <3>4. \A i \in 1..Len(mJobs') : Fresh(mJobs'[i]) => mJobs'[i].mProcessTime = 0
      BY <3>2, <3>3 DEF FreshInv
    <3>5. FreshPrefix(mJobs')
      BY <1>0, <3>1, <3>4, SortedFresh
    <3>6. QED
      BY <3>4, <3>5 DEF FreshInv
  <2>4. QED
    BY <2>2, <2>3
<1>10. CASE ClearJobs
  BY <1>10 DEF ClearJobs, FreshInv, FreshPrefix
<1>11. CASE WaitPresent \/ CheckDone \/ CheckProcessed \/ Join \/ SpuriousWakeup
  <2>1. mJobs' = mJobs /\ main # "posting" /\ main' # "posting"
    BY <1>11 DEF WaitPresent, CheckDone, CheckProcessed, Join, SpuriousWakeup
  <2>2. QED
    BY <1>1, <2>1
<1>12. CASE Tick \/ Terminated \/ UNCHANGED vars
  BY <1>2, <1>12 DEF Tick, Terminated, vars
<1>13. QED
  BY <1>3, <1>4, <1>5, <1>6, <1>7, <1>8, <1>9, <1>10, <1>11, <1>12 DEF Next, MainStep

\* A job that post made for an added or removed object is never behind a job that waits
\* for its time.
THEOREM FreshJobsFirst == Spec => []FreshFirst
<1>1. Init => FreshInv
  BY DEF Init, FreshInv, FreshPrefix
<1>2. TypeInv /\ TypeInv' /\ FreshInv /\ [Next]_vars => FreshInv'
  BY FreshStep
<1>3. FreshInv => FreshFirst
  BY DEF FreshInv, FreshPrefix, FreshFirst
<1>4. QED
  BY <1>1, <1>2, <1>3, TypeInvInit, TypeInvStep, PTL DEF Spec

-----------------------------------------------------------------------------
(* No call of post is lost.                                                *)

\* The weak_ptr of the job can be locked: its agent's item is the one it was
\* made for.
Alive(j, items) == items[j.mAgent] # 0 /\ j.mItem = items[j.mAgent]
AllAlive(jobs, items) == \A i \in 1..Len(jobs) : Alive(jobs[i], items)

AliveInv ==
    /\ AllAlive(mJobs, item)
    /\ \A t \in Threads : AllAlive(mThreadsQueues[t].mJobs, item)
    /\ \A t \in Threads : Busy(t) => Alive(job[t], item)
    /\ main \in {"post", "posting"} => item[call.agent] # 0 /\ call.item = item[call.agent]

LEMMA AliveTail ==
    ASSUME NEW items, NEW q \in Seq(Job), q # <<>>, AllAlive(q, items)
    PROVE  Head(q) \in Job /\ Tail(q) \in Seq(Job) /\ Alive(Head(q), items) /\ AllAlive(Tail(q), items)
<1>1. /\ Len(q) \in Nat \ {0} /\ Tail(q) \in Seq(Job) /\ Len(Tail(q)) = Len(q) - 1 /\ Head(q) = q[1]
      /\ \A i \in 1..Len(Tail(q)) : Tail(q)[i] = q[i + 1]
  BY HeadTailProperties, EmptySeq, LenProperties
<1>2. \A i \in 1..Len(Tail(q)) : i + 1 \in 1..Len(q)
  BY <1>1
<1>3. 1 \in 1..Len(q) /\ q[1] \in Job
  BY <1>1
<1>4. QED
  BY <1>1, <1>2, <1>3 DEF AllAlive

LEMMA AliveAppend ==
    ASSUME NEW items, NEW q \in Seq(Job), NEW j \in Job, AllAlive(q, items), Alive(j, items)
    PROVE  AllAlive(Append(q, j), items)
<1>1. /\ Len(q) \in Nat /\ Len(Append(q, j)) = Len(q) + 1
      /\ \A i \in 1..Len(q) : Append(q, j)[i] = q[i]
      /\ Append(q, j)[Len(q) + 1] = j
  BY AppendProperties, LenProperties
<1>2. \A i \in 1..Len(Append(q, j)) : i \in 1..Len(q) \/ i = Len(q) + 1
  BY <1>1
<1>3. QED
  BY <1>1, <1>2 DEF AllAlive

LEMMA AliveInsert ==
    ASSUME NEW items, NEW q \in Seq(Job), NEW j \in Job, NEW n \in 1..(Len(q) + 1),
           AllAlive(q, items), Alive(j, items)
    PROVE  AllAlive(InsertAt(q, n, j), items)
<1>1. /\ Len(q) \in Nat /\ Len(InsertAt(q, n, j)) = Len(q) + 1
      /\ \A k \in 1..(Len(q) + 1) :
           InsertAt(q, n, j)[k] = IF k < n THEN q[k] ELSE IF k = n THEN j ELSE q[k - 1]
  BY InsertAtProperties, LenProperties
<1>2. ASSUME NEW k \in 1..Len(InsertAt(q, n, j)), k # n
      PROVE  \E i \in 1..Len(q) : InsertAt(q, n, j)[k] = q[i]
  <2>1. CASE k < n
    <3>1. k \in 1..Len(q) /\ InsertAt(q, n, j)[k] = q[k]
      BY <1>1, <2>1
    <3>2. QED
      BY <3>1
  <2>2. CASE k > n
    <3>1. k - 1 \in 1..Len(q) /\ InsertAt(q, n, j)[k] = q[k - 1]
      BY <1>1, <2>2
    <3>2. QED
      BY <3>1
  <2>3. QED
    BY <1>1, <1>2, <2>1, <2>2
<1>3. InsertAt(q, n, j)[n] = j
  BY <1>1
<1>4. QED
  BY <1>2, <1>3 DEF AllAlive

\* A job keeps its item when it is handed over.
LEMMA DispatchAlive ==
    ASSUME TypeInv, AliveInv, NEW t \in Threads, NEW j \in Job, Alive(j, item),
           NEW queues \in [Threads -> [mJobs : Seq(Job), mPushed : SUBSET Keys]],
           \A s \in Threads : AllAlive(queues[s].mJobs, item),
           Dispatch(t, j, queues)
    PROVE  /\ UNCHANGED <<item, main, call>>
           /\ \A s \in Threads : AllAlive(mThreadsQueues'[s].mJobs, item)
           /\ \A s \in Threads : Busy(s)' => Alive(job'[s], item)
<1> DEFINE owner == lockTile(t, Key(j))
<1>1. owner \in Threads
  BY DEF lockTile, TypeInv, TypeOK, Key, Keys, Job
<1>2. /\ UNCHANGED <<item, main, call>>
      /\ \/ /\ pc' = [pc EXCEPT ![t] = "processJob"]
            /\ job' = [job EXCEPT ![t] = j]
            /\ mThreadsQueues' = queues
         \/ /\ pc' = [pc EXCEPT ![t] = "locked"]
            /\ job' = job
            /\ mThreadsQueues' = [queues EXCEPT ![owner] = postThreadJob(queues[owner], j)]
  BY DEF Dispatch, mainVars, worldVars
<1> HIDE DEF owner
<1>3. AllAlive(postThreadJob(queues[owner], j).mJobs, item)
  <2>1. queues[owner] \in [mJobs : Seq(Job), mPushed : SUBSET Keys] /\ AllAlive(queues[owner].mJobs, item)
    BY <1>1
  <2>2. AllAlive(Append(queues[owner].mJobs, j), item)
    BY <2>1, AliveAppend
  <2>3. QED
    BY <2>1, <2>2 DEF postThreadJob
<1>4. \A s \in Threads : AllAlive(mThreadsQueues'[s].mJobs, item)
  BY <1>1, <1>2, <1>3
<1>5. pc \in [Threads -> WorkerPCs] /\ job \in [Threads -> Job \cup {NoJob}]
  BY DEF TypeInv, TypeOK
<1>6. ASSUME NEW s \in Threads, Busy(s)' PROVE Alive(job'[s], item)
  <2>1. CASE s = t
    BY <1>2, <1>5, <1>6, <2>1 DEF Busy
  <2>2. CASE s # t
    <3>1. pc'[s] = pc[s] /\ job'[s] = job[s]
      BY <1>2, <1>5, <2>2
    <3>2. QED
      BY <1>6, <3>1 DEF Busy, AliveInv
  <2>3. QED
    BY <2>1, <2>2
<1>7. QED
  BY <1>2, <1>4, <1>6

\* Without Reset only addAgent changes an item, and only where no job is alive.
LEMMA AliveStep ==
    ASSUME TypeInv, TypeInv', ~MayReset, AliveInv, [Next]_vars
    PROVE  AliveInv'
<1>0. /\ mJobs \in Seq(Job) /\ mThreadsQueues \in [Threads -> [mJobs : Seq(Job), mPushed : SUBSET Keys]]
      /\ pc \in [Threads -> WorkerPCs] /\ job \in [Threads -> Job \cup {NoJob}]
  BY DEF TypeInv, TypeOK
<1> DEFINE Posting == main \in {"post", "posting"} => item[call.agent] # 0 /\ call.item = item[call.agent]
           Kept(t) == Busy(t)' => Busy(t) /\ job'[t] = job[t]
<1>1. ASSUME UNCHANGED <<mJobs, mThreadsQueues, item>>, \A t \in Threads : Kept(t), Posting'
      PROVE  AliveInv'
  BY <1>1 DEF AliveInv
<1>2. Posting
  BY DEF AliveInv
<1> USE DEF localVars, threadVars, mainVars, worldVars, history, queueVars, tileVars, sharedVars
<1>3. ASSUME NEW t \in Threads, TakeThreadJob(t) PROVE AliveInv'
  <2> DEFINE queue == mThreadsQueues[t]
             j == Head(queue.mJobs)
             rest == [mJobs |-> Tail(queue.mJobs), mPushed |-> Erased(queue.mPushed, j)]
             queues == [mThreadsQueues EXCEPT ![t] = rest]
  <2>1. queue.mJobs \in Seq(Job) /\ queue.mJobs # <<>> /\ AllAlive(queue.mJobs, item) /\ queue.mPushed \subseteq Keys
    BY <1>0, <1>3 DEF TakeThreadJob, AliveInv
  <2>2. j \in Job /\ Alive(j, item) /\ Tail(queue.mJobs) \in Seq(Job) /\ AllAlive(Tail(queue.mJobs), item)
    BY <2>1, AliveTail
  <2>3. rest \in [mJobs : Seq(Job), mPushed : SUBSET Keys] /\ AllAlive(rest.mJobs, item)
    BY <2>1, <2>2 DEF Erased
  <2>4. Dispatch(t, j, queues) /\ mJobs' = mJobs
    BY <1>3 DEF TakeThreadJob
  <2> HIDE DEF queue, j, rest
  <2>5. /\ queues \in [Threads -> [mJobs : Seq(Job), mPushed : SUBSET Keys]]
        /\ \A s \in Threads : AllAlive(queues[s].mJobs, item)
    BY <1>0, <2>3 DEF AliveInv
  <2> HIDE DEF queues
  <2>6. /\ UNCHANGED <<item, main, call>>
        /\ \A s \in Threads : AllAlive(mThreadsQueues'[s].mJobs, item)
        /\ \A s \in Threads : Busy(s)' => Alive(job'[s], item)
    BY <2>2, <2>4, <2>5, DispatchAlive
  <2>7. QED
    BY <2>4, <2>6 DEF AliveInv
<1>4. ASSUME NEW t \in Threads, TakeJob(t) PROVE AliveInv'
  <2> DEFINE j == Head(mJobs)
  <2>1. mJobs # <<>> /\ mJobs' = Tail(mJobs) /\ Dispatch(t, j, mThreadsQueues)
    BY <1>4 DEF TakeJob, HasCommonJob
  <2>2. j \in Job /\ Alive(j, item) /\ AllAlive(Tail(mJobs), item)
    BY <1>0, <2>1, AliveTail DEF AliveInv
  <2> HIDE DEF j
  <2>3. \A s \in Threads : AllAlive(mThreadsQueues[s].mJobs, item)
    BY DEF AliveInv
  <2>4. /\ UNCHANGED <<item, main, call>>
        /\ \A s \in Threads : AllAlive(mThreadsQueues'[s].mJobs, item)
        /\ \A s \in Threads : Busy(s)' => Alive(job'[s], item)
    BY <1>0, <2>1, <2>2, <2>3, DispatchAlive
  <2>5. QED
    BY <2>1, <2>2, <2>4 DEF AliveInv
<1>5. ASSUME NEW t \in Threads, repost(t) PROVE AliveInv'
  <2>1. /\ mJobs' = mJobs \/ mJobs' = Append(mJobs, Retried(job[t]))
        /\ UNCHANGED <<mThreadsQueues, item, main, call>>
        /\ pc' = [pc EXCEPT ![t] = "process"] /\ job' = [job EXCEPT ![t] = NoJob]
        /\ Busy(t)
    BY <1>5 DEF repost, WithRetry, Busy
  <2>2. job[t] \in Job /\ Retried(job[t]) \in Job /\ Alive(job[t], item)
    BY <1>5, <2>1, RetriedIsJob DEF TypeInv, AliveInv, repost
  <2>3. Retried(job[t]).mAgent = job[t].mAgent /\ Retried(job[t]).mItem = job[t].mItem
    BY <2>2 DEF Retried, Job
  <2>4. AllAlive(mJobs', item)
    BY <1>0, <2>1, <2>2, <2>3, AliveAppend DEF AliveInv, Alive
  <2>5. \A s \in Threads : Kept(s)
    BY <1>0, <2>1 DEF Busy
  <2>6. QED
    BY <2>1, <2>4, <2>5 DEF AliveInv
<1>6. ASSUME NEW t \in Threads, Worker(t), ~TakeThreadJob(t), ~TakeJob(t), ~repost(t) PROVE AliveInv'
  <2>1. UNCHANGED <<mJobs, mThreadsQueues, item>>
    BY <1>6
    DEF Worker, Loop, NoNextJob, cleanupLastUpdates, LockItem, ReadPlayerTile, RemoveTile, KeepTile, UpdateTile,
        Updated, Throw, UpdatePresentTiles, unlockTile
  <2>2. Posting'
    BY <1>2, <1>6, <2>1, WorkerMain
  <2>3. \A s \in Threads : Kept(s)
    <3> SUFFICES ASSUME NEW s \in Threads PROVE Kept(s)
      OBVIOUS
    <3>1. CASE unlockTile(t)
      BY <1>0, <3>1 DEF unlockTile, EndJob, Busy
    <3>2. CASE Throw(t)
      BY <1>0, <3>2 DEF Throw, EndJob, Busy
    <3>3. CASE RemoveTile(t) \/ KeepTile(t) \/ UpdateTile(t)
      BY <1>0, <3>3 DEF RemoveTile, KeepTile, UpdateTile, MustAdd, Updated, Busy
    <3>4. CASE Loop(t) \/ NoNextJob(t) \/ cleanupLastUpdates(t)
      BY <1>0, <3>4 DEF Loop, NoNextJob, cleanupLastUpdates, Busy
    <3>5. CASE LockItem(t) \/ ReadPlayerTile(t) \/ UpdatePresentTiles(t)
      BY <1>0, <3>5 DEF LockItem, ReadPlayerTile, UpdatePresentTiles, Busy
    <3>6. QED
      BY <1>6, <3>1, <3>2, <3>3, <3>4, <3>5 DEF Worker
  <2>4. QED
    BY <1>1, <2>1, <2>2, <2>3
<1>7. ASSUME UNCHANGED threadVars PROVE \A s \in Threads : Kept(s)
  BY <1>7 DEF Busy
<1>8. ASSUME NEW a \in Agents, AddAgent(a) PROVE AliveInv'
  <2>1. /\ UNCHANGED <<mJobs, mThreadsQueues, pc, job>> /\ main' = "idle"
        /\ item[a] = 0 /\ \A b \in Agents : b # a => item'[b] = item[b]
    BY <1>8 DEF AddAgent, TypeInv, TypeOK
  <2>2. \A j \in Job : Alive(j, item) => Alive(j, item')
    BY <2>1 DEF Alive, Job
  <2>3. \A q \in Seq(Job) : AllAlive(q, item) => AllAlive(q, item')
    BY <2>2 DEF AllAlive
  <2>4. \A s \in Threads : Busy(s) => Alive(job[s], item')
    BY <2>2 DEF AliveInv, TypeInv
  <2>5. AllAlive(mJobs', item') /\ \A s \in Threads : AllAlive(mThreadsQueues'[s].mJobs, item')
    BY <1>0, <2>1, <2>3 DEF AliveInv
  <2>6. QED
    BY <2>1, <2>4, <2>5 DEF AliveInv, Busy
<1>9. ASSUME NEW a \in Agents, NEW arguments \in PostArguments, Post(a, arguments[1], arguments[2]) PROVE AliveInv'
  <2>1. UNCHANGED <<mJobs, mThreadsQueues, item, pc, job>> /\ item[a] # 0
    BY <1>9 DEF Post
  <2>2. \/ main' = "idle"
        \/ call'.agent = a /\ call'.item = item[a]
    BY <1>9 DEF Post
  <2>3. Posting'
    BY <2>1, <2>2
  <2>4. QED
    BY <1>1, <1>7, <2>1, <2>3 DEF Busy
<1>10. CASE \E u \in Tiles : ChangeMesh(u)
  BY <1>1, <1>7, <1>10 DEF ChangeMesh
<1>11. CASE \E type \in WaitTypes \ {"none"} : Wait(type)
  <2>1. UNCHANGED <<mJobs, mThreadsQueues, item, threadVars>> /\ main' \notin {"post", "posting"}
    BY <1>11 DEF Wait
  <2>2. QED
    BY <1>1, <1>7, <2>1
<1>12. CASE Destroy \/ WaitPresent \/ CheckDone \/ CheckProcessed \/ Join \/ SpuriousWakeup
  <2>1. UNCHANGED <<mJobs, mThreadsQueues, item, threadVars>>
    BY <1>12 DEF Destroy, WaitPresent, CheckDone, CheckProcessed, Join, SpuriousWakeup
  <2>2. main' \notin {"post", "posting"}
    BY <1>12 DEF Destroy, WaitPresent, CheckDone, CheckProcessed, Join, SpuriousWakeup
  <2>3. QED
    BY <1>1, <1>7, <2>1, <2>2
<1>13. ASSUME UNCHANGED <<mThreadsQueues, item, pc, job>>, AllAlive(mJobs', item), Posting' PROVE AliveInv'
  BY <1>13 DEF AliveInv, Busy
<1>14. CASE LockPost
  <2>1. UNCHANGED <<mThreadsQueues, item, pc, job, call>> /\ main = "post"
    BY <1>14 DEF LockPost
  <2>2. CASE call.playerTileChanged
    <3>1. mJobs' = [i \in 1..Len(mJobs) |-> [mJobs[i] EXCEPT
                       !.mDistanceToPlayer = getManhattanDistance(mJobs[i].mTile, mPlayerTile)]]
      BY <1>14, <2>2 DEF LockPost
    <3>2. Len(mJobs') = Len(mJobs)
      BY <1>0, <3>1, LenProperties
    <3>3. ASSUME NEW i \in 1..Len(mJobs) PROVE Alive(mJobs'[i], item)
      <4>1. mJobs[i] \in Job /\ Alive(mJobs[i], item)
        BY <1>0 DEF AliveInv, AllAlive
      <4>2. mJobs'[i] = [mJobs[i] EXCEPT !.mDistanceToPlayer = getManhattanDistance(mJobs[i].mTile, mPlayerTile)]
        BY <3>1
      <4>3. mJobs'[i].mAgent = mJobs[i].mAgent /\ mJobs'[i].mItem = mJobs[i].mItem
        BY <4>1, <4>2 DEF Job
      <4>4. QED
        BY <4>1, <4>3 DEF Alive
    <3>4. AllAlive(mJobs', item)
      BY <3>2, <3>3 DEF AllAlive
    <3>5. QED
      BY <1>2, <1>13, <2>1, <3>4
  <2>3. CASE ~call.playerTileChanged
    <3>1. mJobs' = mJobs
      BY <1>14, <2>3 DEF LockPost
    <3>2. QED
      BY <1>2, <1>13, <2>1, <3>1 DEF AliveInv
  <2>4. QED
    BY <2>2, <2>3
<1>15. ASSUME NEW u \in Tiles, NEW c \in ChangeType, PostTile(u, c) PROVE AliveInv'
  <2> DEFINE j == newJob(u, c)
  <2>1. /\ UNCHANGED <<mThreadsQueues, item, pc, job, main>> /\ main = "posting"
        /\ call' = [call EXCEPT !.todo = @ \ {<<u, c>>}]
        /\ \/ mJobs' = mJobs \/ mJobs' = Append(mJobs, j)
           \/ \E i \in UpperBounds(mJobs, j) : mJobs' = InsertAt(mJobs, i, j)
    BY <1>15 DEF PostTile
  <2>2. call \in Call /\ j \in Job
    BY <2>1, NewJobIsJob DEF TypeInv
  <2>3. call'.agent = call.agent /\ call'.item = call.item
    BY <2>1, <2>2 DEF Call
  <2>4. Alive(j, item)
    BY <1>2, <2>1 DEF newJob, Alive
  <2> HIDE DEF j
  <2>5. \A i \in UpperBounds(mJobs, j) : i \in 1..(Len(mJobs) + 1)
    BY DEF UpperBounds
  <2>6. AllAlive(mJobs, item)
    BY DEF AliveInv
  <2>7. AllAlive(mJobs', item)
    BY <1>0, <2>1, <2>2, <2>4, <2>5, <2>6, AliveAppend, AliveInsert
  <2>8. QED
    BY <1>2, <1>13, <2>1, <2>3, <2>7
<1>16. CASE EndPost
  <2>1. UNCHANGED <<mThreadsQueues, item, pc, job>> /\ main' = "idle"
    BY <1>16 DEF EndPost
  <2>2. CASE mJobs' = mJobs
    BY <1>13, <2>1, <2>2 DEF AliveInv
  <2>3. ASSUME NEW p \in Bijection(1..Len(mJobs), 1..Len(mJobs)), mJobs' = Reordered(mJobs, p) PROVE AliveInv'
    <3>1. Len(mJobs') = Len(mJobs) /\ \A i \in 1..Len(mJobs) : mJobs'[i] = mJobs[p[i]] /\ p[i] \in 1..Len(mJobs)
      BY <1>0, <2>3, ReorderedIsSeq DEF Reordered, Bijection, Injection
    <3>2. AllAlive(mJobs', item)
      BY <3>1 DEF AliveInv, AllAlive
    <3>3. QED
      BY <1>13, <2>1, <3>2
  <2>4. QED
    BY <1>16, <2>2, <2>3 DEF EndPost
<1>17. CASE ClearJobs
  <2>1. UNCHANGED <<mThreadsQueues, item, pc, job>> /\ main' = "join" /\ mJobs' = <<>>
    BY <1>17 DEF ClearJobs
  <2>2. AllAlive(mJobs', item)
    BY <2>1 DEF AllAlive
  <2>3. QED
    BY <1>13, <2>1, <2>2
<1>18. CASE Tick \/ Terminated \/ UNCHANGED vars
  BY <1>1, <1>2, <1>7, <1>18 DEF Tick, Terminated, vars
<1>19. \A a \in Agents : ~Reset(a)
  BY DEF Reset
<1>20. QED
  BY <1>3, <1>4, <1>5, <1>6, <1>8, <1>9, <1>10, <1>11, <1>12, <1>14, <1>15, <1>16, <1>17, <1>18, <1>19
  DEF Next, MainStart, MainStep

\* Thread t is going to deal with the posted revision of k, or puts the job back
\* (a failed job without tries left has read that revision: it settles it).
AtWork(t, k) ==
    /\ Key(job[t]) = k
    /\ \/ pc[t] \in {"processJob", "repost"}
       \/ pc[t] \in {"readPlayerTile", "updateNavMesh"} /\ recastMesh[t].rev >= posted[k]
       \/ /\ pc[t] = "unlockTile" /\ status[t] = "failed"
          /\ job[t].mTryNumber <= 2 \/ recastMesh[t].rev >= posted[k]

\* Pending, with the sets of pushed keys for the queues.
StillPending(k) ==
    \/ k \in mPushed
    \/ \E t \in Threads : k \in mThreadsQueues[t].mPushed \/ AtWork(t, k)

PendingInv ==
    /\ main \in {"clear", "join", "destroyed"} => mShouldStop
    /\ \A k \in Keys : posted[k] <= mesh[k[2]].rev
    /\ ~mShouldStop => \A k \in Keys : settled[k] < posted[k] => StillPending(k)

\* Only the destructor gets beyond idle for good.
LEMMA StopStep ==
    ASSUME PendingInv, [Next]_vars
    PROVE  /\ main' \in {"clear", "join", "destroyed"} => mShouldStop'
           /\ mShouldStop => mShouldStop'
<1> USE DEF PendingInv, localVars, threadVars, mainVars, worldVars, history, queueVars, tileVars, sharedVars
<1>1. CASE \E t \in Threads : Worker(t)
  BY <1>1, WorkerMain
<1>2. CASE MainStart
  BY <1>2 DEF MainStart, ChangeMesh, AddAgent, Reset, Post, Wait, Destroy
<1>3. CASE MainStep
  BY <1>3 DEF MainStep, LockPost, PostTile, EndPost, WaitPresent, CheckDone, CheckProcessed, ClearJobs, Join
<1>4. CASE SpuriousWakeup \/ Tick \/ Terminated \/ UNCHANGED vars
  BY <1>4 DEF SpuriousWakeup, Tick, Terminated, vars
<1>5. QED
  BY <1>1, <1>2, <1>3, <1>4 DEF Next

\* The revision of a tile only grows; post asks for the one there is.
LEMMA PostedStep ==
    ASSUME TypeInv, ~MayReset, PendingInv, [Next]_vars
    PROVE  \A k \in Keys : posted'[k] <= mesh'[k[2]].rev
<1> USE DEF localVars, threadVars, mainVars, worldVars, history, queueVars, tileVars, sharedVars
<1>0. posted \in [Keys -> Nat] /\ mesh \in [Tiles -> RecastMesh] /\ \A k \in Keys : k[2] \in Tiles
  BY DEF TypeInv, TypeOK, Keys
<1>1. ASSUME UNCHANGED <<posted, mesh>> PROVE \A k \in Keys : posted'[k] <= mesh'[k[2]].rev
  BY <1>1 DEF PendingInv
<1>2. CASE \E t \in Threads : Worker(t)
  BY <1>1, <1>2
  DEF Worker, Loop, TakeThreadJob, TakeJob, Dispatch, NoNextJob, cleanupLastUpdates, LockItem, ReadPlayerTile,
      RemoveTile, KeepTile, UpdateTile, Updated, Throw, UpdatePresentTiles, unlockTile, repost
<1>3. ASSUME NEW u \in Tiles, ChangeMesh(u) PROVE \A k \in Keys : posted'[k] <= mesh'[k[2]].rev
  <2>1. PICK solid \in BOOLEAN : mesh' = [mesh EXCEPT ![u] = [rev |-> mesh[u].rev + 1, solid |-> solid]]
    BY <1>3 DEF ChangeMesh
  <2>2. \A v \in Tiles : mesh[v].rev \in Nat /\ mesh'[v].rev \in Nat /\ mesh[v].rev <= mesh'[v].rev
    BY <1>0, <2>1 DEF RecastMesh
  <2>3. posted' = posted
    BY <1>3 DEF ChangeMesh
  <2>4. SUFFICES ASSUME NEW k \in Keys PROVE posted[k] <= mesh'[k[2]].rev
    BY <2>3
  <2>5. posted[k] <= mesh[k[2]].rev /\ posted[k] \in Nat /\ k[2] \in Tiles
    BY <1>0 DEF PendingInv
  <2>6. QED
    BY <2>2, <2>5
<1>4. ASSUME NEW u \in Tiles, NEW c \in ChangeType, PostTile(u, c) PROVE \A k \in Keys : posted'[k] <= mesh'[k[2]].rev
  <2>1. posted' = [posted EXCEPT ![<<call.agent, u>>] = mesh[u].rev] /\ mesh' = mesh
    BY <1>4 DEF PostTile
  <2>2. mesh[u].rev \in Nat
    BY <1>0 DEF RecastMesh
  <2>3. QED
    BY <1>0, <2>1, <2>2 DEF PendingInv
<1>5. CASE SpuriousWakeup \/ Tick \/ Terminated \/ UNCHANGED vars
  BY <1>1, <1>5 DEF SpuriousWakeup, Tick, Terminated, vars
<1>6. CASE LockPost \/ EndPost \/ WaitPresent \/ CheckDone \/ CheckProcessed \/ ClearJobs \/ Join
  BY <1>1, <1>6 DEF LockPost, EndPost, WaitPresent, CheckDone, CheckProcessed, ClearJobs, Join
<1>7. CASE MainStart /\ ~\E u \in Tiles : ChangeMesh(u)
  BY <1>1, <1>7 DEF MainStart, AddAgent, Reset, Post, Wait, Destroy
<1>8. QED
  BY <1>2, <1>3, <1>4, <1>5, <1>6, <1>7 DEF Next, MainStep

\* Whoever gets the job that getJob has found, the key of the job stays pending.
LEMMA DispatchPending ==
    ASSUME TypeInv, NEW t \in Threads, NEW j \in Job, NEW k \in Keys,
           NEW queues \in [Threads -> [mJobs : Seq(Job), mPushed : SUBSET Keys]],
           InGetNextJob(t), Dispatch(t, j, queues),
           \/ k = Key(j)
           \/ \E s \in Threads : k \in queues[s].mPushed \/ AtWork(s, k)
    PROVE  \E s \in Threads : k \in mThreadsQueues'[s].mPushed \/ AtWork(s, k)'
<1> DEFINE owner == lockTile(t, Key(j))
<1>1. owner \in Threads
  BY DEF lockTile, TypeInv, TypeOK, Key, Keys, Job
<1>2. /\ UNCHANGED <<recastMesh, status, posted>>
      /\ \/ /\ pc' = [pc EXCEPT ![t] = "processJob"]
            /\ job' = [job EXCEPT ![t] = j]
            /\ mThreadsQueues' = queues
         \/ /\ pc' = [pc EXCEPT ![t] = "locked"]
            /\ job' = job
            /\ mThreadsQueues' = [queues EXCEPT ![owner] = postThreadJob(queues[owner], j)]
  BY DEF Dispatch, localVars, history
<1>3. pc \in [Threads -> WorkerPCs] /\ job \in [Threads -> Job \cup {NoJob}]
  BY DEF TypeInv, TypeOK
<1> HIDE DEF owner
<1>4. ASSUME NEW s \in Threads, AtWork(s, k) PROVE AtWork(s, k)'
  <2>1. s # t
    BY <1>4 DEF AtWork, InGetNextJob
  <2>2. pc'[s] = pc[s] /\ job'[s] = job[s]
    BY <1>2, <1>3, <2>1
  <2>3. QED
    BY <1>2, <1>4, <2>2 DEF AtWork, Key
<1>5. ASSUME NEW s \in Threads, k \in queues[s].mPushed PROVE k \in mThreadsQueues'[s].mPushed
  BY <1>1, <1>2, <1>5 DEF postThreadJob
<1>6. ASSUME k = Key(j) PROVE \E s \in Threads : k \in mThreadsQueues'[s].mPushed \/ AtWork(s, k)'
  <2>1. CASE pc' = [pc EXCEPT ![t] = "processJob"] /\ job' = [job EXCEPT ![t] = j]
    <3>1. pc'[t] = "processJob" /\ Key(job'[t]) = k
      BY <1>3, <1>6, <2>1
    <3>2. QED
      BY <3>1 DEF AtWork, Key
  <2>2. CASE mThreadsQueues' = [queues EXCEPT ![owner] = postThreadJob(queues[owner], j)]
    <3>1. k \in postThreadJob(queues[owner], j).mPushed
      BY <1>6 DEF postThreadJob
    <3>2. k \in mThreadsQueues'[owner].mPushed
      BY <1>1, <2>2, <3>1
    <3>3. QED
      BY <1>1, <3>2
  <2>3. QED
    BY <1>2, <2>1, <2>2
<1>7. QED
  BY <1>4, <1>5, <1>6

\* What a thread settles is at least the revision it has read.
LEMMA SettledGrows ==
    ASSUME TypeInv, NEW t \in Threads, job[t] \in Job, NEW k \in Keys, Settle(t) \/ UNCHANGED settled
    PROVE  /\ settled'[k] >= settled[k]
           /\ Settle(t) /\ Key(job[t]) = k => settled'[k] >= recastMesh[t].rev
<1>1. settled \in [Keys -> Nat] /\ recastMesh[t].rev \in Nat
  BY DEF TypeInv, TypeOK, RecastMesh
<1>2. CASE UNCHANGED settled /\ ~Settle(t)
  BY <1>1, <1>2
<1>3. CASE Settle(t)
  <2>1. \A m \in Keys : settled'[m] = IF m = Key(job[t])
                                      THEN IF recastMesh[t].rev > settled[m] THEN recastMesh[t].rev ELSE settled[m]
                                      ELSE settled[m]
    BY <1>1, <1>3 DEF Settle
  <2>2. QED
    BY <1>1, <2>1
<1>4. QED
  BY <1>2, <1>3

\* The queues and the other threads stay as they are, and t goes on.
LEMMA StillPendingKept ==
    ASSUME NEW t \in Threads, NEW k \in Keys, StillPending(k), UNCHANGED <<mPushed, mThreadsQueues, posted>>,
           \A s \in Threads : s # t => /\ pc'[s] = pc[s] /\ job'[s] = job[s]
                                       /\ recastMesh'[s] = recastMesh[s] /\ status'[s] = status[s],
           AtWork(t, k) => AtWork(t, k)'
    PROVE  StillPending(k)'
<1>1. ASSUME NEW s \in Threads, s # t, AtWork(s, k) PROVE AtWork(s, k)'
  BY <1>1 DEF AtWork, Key
<1>2. QED
  BY <1>1 DEF StillPending

LEMMA StillPendingWorker ==
    ASSUME QueueInv, QueueInv', AliveInv, PendingInv, ~mShouldStop,
           NEW t \in Threads, Worker(t), NEW k \in Keys, settled'[k] < posted'[k]
    PROVE  StillPending(k)'
<1>0. TypeInv /\ TypeInv'
  BY DEF QueueInv
<1>t. /\ mThreadsQueues \in [Threads -> [mJobs : Seq(Job), mPushed : SUBSET Keys]]
      /\ pc \in [Threads -> WorkerPCs] /\ job \in [Threads -> Job \cup {NoJob}]
      /\ recastMesh \in [Threads -> RecastMesh] /\ status \in [Threads -> Statuses]
      /\ posted \in [Keys -> Nat] /\ settled \in [Keys -> Nat] /\ settled' \in [Keys -> Nat]
      /\ mJobs \in Seq(Job)
  BY <1>0 DEF TypeInv, TypeOK
<1>m. mesh \in [Tiles -> RecastMesh] /\ \A u \in Tiles : mesh[u].rev \in Nat
  BY <1>0 DEF TypeInv, TypeOK, RecastMesh
<1>n. \A s \in Threads : recastMesh[s].rev \in Nat
  BY <1>t DEF RecastMesh
<1> DEFINE Others == \A s \in Threads : s # t => /\ pc'[s] = pc[s] /\ job'[s] = job[s]
                                                 /\ recastMesh'[s] = recastMesh[s] /\ status'[s] = status[s]
           Queues == UNCHANGED <<mPushed, mThreadsQueues, posted>>
<1> USE DEF localVars, threadVars, mainVars, worldVars, history, queueVars, tileVars, sharedVars
<1>1. CASE Loop(t) \/ NoNextJob(t) \/ cleanupLastUpdates(t)
  <2>1. Others /\ Queues /\ settled' = settled
    BY <1>t, <1>1 DEF Loop, NoNextJob, cleanupLastUpdates
  <2>2. ~AtWork(t, k)
    BY <1>1 DEF Loop, NoNextJob, InGetNextJob, cleanupLastUpdates, AtWork
  <2>3. StillPending(k)
    BY <2>1 DEF PendingInv
  <2>4. QED
    BY <2>1, <2>2, <2>3, StillPendingKept
<1>2. CASE LockItem(t)
  <2>1. Others /\ Queues /\ settled' = settled /\ job' = job /\ pc[t] = "processJob"
    BY <1>t, <1>2 DEF LockItem
  <2>2. StillPending(k)
    BY <2>1 DEF PendingInv
  <2>3. job[t] \in Job /\ item[job[t].mAgent] = job[t].mItem
    BY <1>0, <2>1 DEF TypeInv, Busy, AliveInv, Alive
  <2>4. pc'[t] = "readPlayerTile" /\ recastMesh'[t] = mesh[job[t].mTile]
    BY <1>t, <1>2, <2>3 DEF LockItem
  <2>5. Key(job[t]) = k => posted[k] <= recastMesh'[t].rev
    BY <2>4 DEF Key, PendingInv
  <2>6. AtWork(t, k) => AtWork(t, k)'
    <3> SUFFICES ASSUME AtWork(t, k) PROVE AtWork(t, k)'
      OBVIOUS
    <3>1. Key(job[t]) = k /\ Key(job'[t]) = k
      BY <2>1 DEF AtWork
    <3>2. recastMesh'[t].rev >= posted'[k]
      BY <1>t, <1>m, <2>1, <2>3, <2>4, <2>5, <3>1 DEF Job
    <3>3. QED
      BY <2>4, <3>1, <3>2 DEF AtWork, Key
  <2>7. QED
    BY <2>1, <2>2, <2>6, StillPendingKept
<1>3. CASE ReadPlayerTile(t)
  <2>1. /\ Others /\ Queues /\ settled' = settled /\ job' = job /\ recastMesh' = recastMesh
        /\ pc[t] = "readPlayerTile" /\ pc'[t] = "updateNavMesh"
    BY <1>t, <1>3 DEF ReadPlayerTile
  <2>2. StillPending(k)
    BY <2>1 DEF PendingInv
  <2>3. AtWork(t, k) => AtWork(t, k)'
    BY <2>1 DEF AtWork, Key
  <2>4. QED
    BY <2>1, <2>2, <2>3, StillPendingKept
<1>4. ASSUME Settle(t), pc[t] = "updateNavMesh", Others, Queues PROVE StillPending(k)'
  <2>1. job[t] \in Job
    BY <1>0, <1>4 DEF TypeInv, Busy
  <2>2. settled'[k] >= settled[k] /\ (Key(job[t]) = k => settled'[k] >= recastMesh[t].rev)
    BY <1>0, <1>4, <2>1, SettledGrows
  <2>3. StillPending(k)
    BY <1>t, <1>4, <2>2 DEF PendingInv
  <2>4. ~AtWork(t, k)
    BY <1>t, <1>n, <1>4, <2>2 DEF AtWork
  <2>5. QED
    BY <1>4, <2>3, <2>4, StillPendingKept
<1>5. CASE RemoveTile(t) \/ KeepTile(t) \/ Throw(t)
  <2>1. Settle(t) /\ pc[t] = "updateNavMesh" /\ Others /\ Queues
    BY <1>t, <1>5 DEF RemoveTile, KeepTile, Throw, MustAdd, Updated, EndJob
  <2>2. QED
    BY <1>4, <2>1
<1>6. CASE UpdateTile(t)
  <2>1. pc[t] = "updateNavMesh" /\ Others /\ Queues /\ job' = job /\ recastMesh' = recastMesh
    BY <1>t, <1>6 DEF UpdateTile, MustAdd, Updated
  <2>2. CASE Settle(t)
    BY <1>4, <2>1, <2>2
  <2>3. CASE ~Settle(t)
    <3>1. settled' = settled /\ pc'[t] = "unlockTile" /\ status'[t] = "failed"
      BY <1>t, <1>6, <2>3 DEF UpdateTile, Updated
    <3>2. StillPending(k)
      BY <2>1, <3>1 DEF PendingInv
    <3>3. AtWork(t, k) => AtWork(t, k)'
      BY <2>1, <3>1 DEF AtWork, Key
    <3>4. QED
      BY <2>1, <3>2, <3>3, StillPendingKept
  <2>4. QED
    BY <2>2, <2>3
<1>7. CASE UpdatePresentTiles(t)
  <2>1. Others /\ Queues /\ settled' = settled
    BY <1>t, <1>7 DEF UpdatePresentTiles
  <2>2. ~AtWork(t, k)
    BY <1>7 DEF UpdatePresentTiles, AtWork
  <2>3. StillPending(k)
    BY <2>1 DEF PendingInv
  <2>4. QED
    BY <2>1, <2>2, <2>3, StillPendingKept
<1>8. CASE unlockTile(t)
  <2> DEFINE retry == status[t] = "failed" /\ ~mShouldStop /\ job[t].mTryNumber <= 2
  <2>1. Others /\ Queues /\ pc[t] = "unlockTile" /\ EndJob(t, retry)
    BY <1>t, <1>8 DEF unlockTile, EndJob
  <2>2. /\ pc' = [pc EXCEPT ![t] = IF retry THEN "repost" ELSE "process"]
        /\ IF status[t] = "failed" /\ ~retry THEN Settle(t) ELSE UNCHANGED settled
    BY <1>8 DEF unlockTile
  <2>3. job[t] \in Job
    BY <1>0, <2>1 DEF TypeInv, Busy
  <2>4. settled'[k] >= settled[k] /\ (Settle(t) /\ Key(job[t]) = k => settled'[k] >= recastMesh[t].rev)
    BY <1>0, <2>2, <2>3, SettledGrows
  <2>5. StillPending(k)
    BY <1>t, <2>1, <2>4 DEF PendingInv
  <2>6. AtWork(t, k) => AtWork(t, k)'
    <3> SUFFICES ASSUME AtWork(t, k) PROVE AtWork(t, k)'
      OBVIOUS
    <3>1. Key(job[t]) = k /\ status[t] = "failed" /\ (job[t].mTryNumber <= 2 \/ recastMesh[t].rev >= posted[k])
      BY <2>1 DEF AtWork
    <3>2. CASE retry
      <4>1. job' = job /\ pc'[t] = "repost"
        BY <1>t, <2>1, <2>2, <3>2 DEF EndJob
      <4>2. QED
        BY <3>1, <4>1 DEF AtWork, Key
    <3>3. CASE ~retry
      <4>1. Settle(t)
        BY <2>2, <3>1, <3>3
      <4>2. recastMesh[t].rev >= posted[k]
        BY <3>1, <3>3
      <4>3. settled'[k] >= posted'[k]
        BY <1>t, <1>n, <2>1, <2>4, <3>1, <4>1, <4>2
      <4>4. QED
        BY <1>t, <2>1, <4>3
    <3>4. QED
      BY <3>2, <3>3
  <2>7. QED
    BY <2>1, <2>5, <2>6, StillPendingKept
<1>9. CASE TakeThreadJob(t)
  <2> DEFINE queue == mThreadsQueues[t]
             j == Head(queue.mJobs)
             rest == [mJobs |-> Tail(queue.mJobs), mPushed |-> queue.mPushed \ {Key(j)}]
             queues == [mThreadsQueues EXCEPT ![t] = rest]
  <2>1. InGetNextJob(t) /\ Dispatch(t, j, queues) /\ mPushed' = mPushed /\ UNCHANGED <<posted, settled>>
    BY <1>9 DEF TakeThreadJob, Dispatch, Erased
  <2>2. j \in Job /\ Tail(queue.mJobs) \in Seq(Job) /\ queue.mPushed \subseteq Keys
    BY <1>t, <1>9, HeadTailProperties DEF TakeThreadJob
  <2>3. queues \in [Threads -> [mJobs : Seq(Job), mPushed : SUBSET Keys]]
    BY <1>t, <2>2
  <2>4. \A s \in Threads : k \in mThreadsQueues[s].mPushed => k \in queues[s].mPushed \/ k = Key(j)
    BY <1>t
  <2> HIDE DEF queue, j, rest, queues
  <2>5. StillPending(k)
    BY <2>1 DEF PendingInv
  <2>6. CASE k \in mPushed
    BY <2>1, <2>6 DEF StillPending
  <2>7. CASE k \notin mPushed
    <3>1. k = Key(j) \/ \E s \in Threads : k \in queues[s].mPushed \/ AtWork(s, k)
      BY <2>4, <2>5, <2>7 DEF StillPending
    <3>2. \E s \in Threads : k \in mThreadsQueues'[s].mPushed \/ AtWork(s, k)'
      BY <1>0, <2>1, <2>2, <2>3, <3>1, DispatchPending
    <3>3. QED
      BY <3>2 DEF StillPending
  <2>8. QED
    BY <2>6, <2>7
<1>10. CASE TakeJob(t)
  <2> DEFINE j == Head(mJobs)
  <2>1. /\ InGetNextJob(t) /\ Dispatch(t, j, mThreadsQueues) /\ mPushed' = mPushed \ {Key(j)}
        /\ UNCHANGED <<posted, settled>>
    BY <1>10 DEF TakeJob, Dispatch, Erased
  <2>2. j \in Job
    BY <1>t, <1>10, HeadTailProperties DEF TakeJob, HasCommonJob
  <2> HIDE DEF j
  <2>3. StillPending(k)
    BY <2>1 DEF PendingInv
  <2>4. CASE k \in mPushed /\ k # Key(j)
    BY <2>1, <2>4 DEF StillPending
  <2>5. CASE ~(k \in mPushed /\ k # Key(j))
    <3>1. k = Key(j) \/ \E s \in Threads : k \in mThreadsQueues[s].mPushed \/ AtWork(s, k)
      BY <2>3, <2>5 DEF StillPending
    <3>2. \E s \in Threads : k \in mThreadsQueues'[s].mPushed \/ AtWork(s, k)'
      BY <1>0, <1>t, <2>1, <2>2, <3>1, DispatchPending
    <3>3. QED
      BY <3>2 DEF StillPending
  <2>6. QED
    BY <2>4, <2>5
<1>11. CASE repost(t)
  <2>1. /\ Others /\ UNCHANGED <<mThreadsQueues, posted, settled>>
        /\ mPushed' = mPushed \cup {Key(job[t])}
    BY <1>t, <1>11 DEF repost
  <2>2. StillPending(k)
    BY <2>1 DEF PendingInv
  <2>3. CASE k \in mPushed \/ k = Key(job[t])
    BY <2>1, <2>3 DEF StillPending
  <2>4. CASE k \notin mPushed /\ k # Key(job[t])
    <3>1. PICK s \in Threads : k \in mThreadsQueues[s].mPushed \/ AtWork(s, k)
      BY <2>2, <2>4 DEF StillPending
    <3>2. AtWork(s, k) => AtWork(s, k)'
      BY <2>1, <2>4 DEF AtWork, Key
    <3>3. QED
      BY <2>1, <3>1, <3>2 DEF StillPending
  <2>5. QED
    BY <2>3, <2>4
<1>12. QED
  BY <1>1, <1>2, <1>3, <1>5, <1>6, <1>7, <1>8, <1>9, <1>10, <1>11 DEF Worker

LEMMA PendingStep ==
    ASSUME QueueInv, QueueInv', AliveInv, ~MayReset, PendingInv, [Next]_vars
    PROVE  PendingInv'
<1>0. TypeInv /\ posted \in [Keys -> Nat]
  BY DEF QueueInv, TypeInv, TypeOK
<1>1. (main \in {"clear", "join", "destroyed"} => mShouldStop)' /\ (mShouldStop => mShouldStop')
  BY StopStep
<1>2. \A k \in Keys : posted'[k] <= mesh'[k[2]].rev
  BY <1>0, PostedStep
<1>3. ASSUME NEW k \in Keys, ~mShouldStop', settled'[k] < posted'[k] PROVE StillPending(k)'
  <2> USE DEF localVars, threadVars, mainVars, worldVars, history, queueVars, tileVars, sharedVars
  <2>0. ~mShouldStop
    BY <1>1, <1>3
  <2>1. ASSUME UNCHANGED <<mPushed, mThreadsQueues, pc, job, recastMesh, status>>,
               UNCHANGED <<posted, settled>>
        PROVE  StillPending(k)'
    <3>1. StillPending(k)
      BY <1>3, <2>0, <2>1 DEF PendingInv
    <3>2. QED
      BY <2>1, <3>1 DEF StillPending, AtWork, Key
  <2>2. CASE \E t \in Threads : Worker(t)
    BY <1>3, <2>0, <2>2, StillPendingWorker
  <2>3. CASE MainStart
    <3>1. \A a \in Agents : ~Reset(a)
      BY DEF Reset
    <3>2. QED
      BY <2>1, <2>3, <3>1 DEF MainStart, ChangeMesh, AddAgent, Post, Wait, Destroy
  <2>4. CASE LockPost \/ EndPost \/ WaitPresent \/ CheckDone \/ CheckProcessed \/ ClearJobs \/ Join
    BY <2>1, <2>4 DEF LockPost, EndPost, WaitPresent, CheckDone, CheckProcessed, ClearJobs, Join
  <2>5. ASSUME NEW u \in Tiles, NEW c \in ChangeType, PostTile(u, c) PROVE StillPending(k)'
    <3>1. /\ UNCHANGED <<mThreadsQueues, pc, job, recastMesh, status, settled>>
          /\ mPushed' = mPushed \cup {<<call.agent, u>>}
          /\ posted' = [posted EXCEPT ![<<call.agent, u>>] = mesh[u].rev]
      BY <2>5 DEF PostTile
    <3>2. CASE k = <<call.agent, u>>
      BY <3>1, <3>2 DEF StillPending
    <3>3. CASE k # <<call.agent, u>>
      <4>1. posted'[k] = posted[k]
        BY <1>0, <3>1, <3>3
      <4>2. StillPending(k)
        BY <1>3, <2>0, <3>1, <4>1 DEF PendingInv
      <4>3. QED
        BY <3>1, <4>1, <4>2 DEF StillPending, AtWork, Key
    <3>4. QED
      BY <3>2, <3>3
  <2>6. CASE SpuriousWakeup \/ Tick \/ Terminated \/ UNCHANGED vars
    BY <2>1, <2>6 DEF SpuriousWakeup, Tick, Terminated, vars
  <2>7. QED
    BY <2>2, <2>3, <2>4, <2>5, <2>6 DEF Next, MainStep
<1>4. QED
  BY <1>1, <1>2, <1>3 DEF PendingInv

\* What was posted is dealt with or still going to be: mPushed, the hand-over between
\* threads, the retries and the drops of repost lose nothing.
THEOREM NothingPostedIsLost == Spec => []NoLostUpdate
<1>1. ~MayReset /\ Init => AliveInv /\ PendingInv
  <2> SUFFICES ASSUME Init PROVE AliveInv /\ PendingInv
    OBVIOUS
  <2>1. AliveInv
    BY DEF Init, AliveInv, AllAlive, Busy
  <2>2. \A k \in Keys : mesh[k[2]].rev \in Nat
    BY SettingsAssumption DEF Init, Keys, RecastMesh
  <2>3. PendingInv
    BY <2>2 DEF Init, PendingInv
  <2>4. QED
    BY <2>1, <2>3
<1>2. ~MayReset /\ QueueInv /\ QueueInv' /\ AliveInv /\ [Next]_vars => AliveInv'
  BY AliveStep DEF QueueInv
<1>3. ~MayReset /\ QueueInv /\ QueueInv' /\ AliveInv /\ PendingInv /\ [Next]_vars => PendingInv'
  BY PendingStep
<1>4. QueueInv /\ PendingInv => NoLostUpdate
  <2> SUFFICES ASSUME QueueInv, PendingInv, ~mShouldStop, NEW k \in Keys, settled[k] < posted[k]
               PROVE  Pending(k)
    BY DEF NoLostUpdate
  <2>1. mPushed \subseteq KeysOf(mJobs) /\ \A t \in Threads : mThreadsQueues[t].mPushed = KeysOf(mThreadsQueues[t].mJobs)
    BY DEF QueueInv, PushedMatchesJobs, PendingInv
  <2>2. StillPending(k)
    BY DEF PendingInv
  <2>3. QED
    BY <2>1, <2>2 DEF StillPending, AtWork, Pending
<1>5. MayReset => NoLostUpdate
  BY DEF NoLostUpdate
<1>6. ASSUME MayReset PROVE Spec => []NoLostUpdate
  <2>1. NoLostUpdate
    BY <1>5, <1>6
  <2>2. QED
    BY <2>1, PTL
<1>7. ASSUME ~MayReset PROVE Spec => []NoLostUpdate
  BY <1>1, <1>2, <1>3, <1>4, <1>7, QueueInvInit, QueueInvStep, PTL DEF Spec
<1>8. QED
  BY <1>6, <1>7

-----------------------------------------------------------------------------
(* What wait(allJobsDone) waits for.                                       *)

\* Every tile has its slot in a navmesh: no job is ever put back after it has been
\* taken (repost is the one way for a job to be in no queue and under no lock).
EnoughSlots == IsFiniteSet(Tiles) /\ Cardinality(Tiles) <= MaxTiles

NoFailure == \A t \in Threads : status[t] # "failed" /\ pc[t] # "repost"

WaitInv ==
    /\ NoFailure
    /\ mShouldStop => main \in {"clear", "join", "destroyed"}
    /\ waitType = "allJobsDone" => main \in {"checkDone", "waitDone", "checkProcessed", "waitProcessed"}
    /\ waitType = "allJobsDone" /\ main \in {"checkProcessed", "waitProcessed"} => NoJobsLeft

\* The tiles of a navmesh but one leave a slot for that one.
LEMMA SlotLeft ==
    ASSUME EnoughSlots, NEW u \in Tiles, NEW others \in SUBSET Tiles, u \notin others
    PROVE  Cardinality(others) < MaxTiles
<1>1. IsFiniteSet(Tiles) /\ Cardinality(Tiles) <= MaxTiles
  BY DEF EnoughSlots
<1>2. IsFiniteSet(others) /\ Cardinality(others) <= Cardinality(Tiles) /\ (Cardinality(Tiles) = Cardinality(others) => Tiles = others)
  BY <1>1, FS_Subset
<1>3. Cardinality(Tiles) \in Nat /\ Cardinality(others) \in Nat
  BY <1>1, <1>2, FS_CardinalityType
<1>4. Cardinality(Tiles) # Cardinality(others)
  BY <1>2
<1>5. MaxTiles \in Nat
  BY SettingsAssumption
<1>6. QED
  BY <1>1, <1>2, <1>3, <1>4, <1>5

LEMMA NoFailureStep ==
    ASSUME TypeInv, EnoughSlots, NoFailure, [Next]_vars
    PROVE  NoFailure'
<1>0. pc \in [Threads -> WorkerPCs] /\ status \in [Threads -> Statuses]
  BY DEF TypeInv, TypeOK
<1>1. ASSUME UNCHANGED <<pc, status>> PROVE NoFailure'
  BY <1>1 DEF NoFailure
<1>2. ASSUME NEW t \in Threads,
             \A s \in Threads : s # t => pc'[s] = pc[s] /\ status'[s] = status[s],
             status'[t] # "failed", pc'[t] # "repost"
      PROVE  NoFailure'
  BY <1>2 DEF NoFailure
<1> USE DEF localVars, threadVars, mainVars, worldVars, history, queueVars, tileVars, sharedVars
<1>3. ASSUME NEW t \in Threads, UpdateTile(t) PROVE NoFailure'
  <2> DEFINE others == { u \in Tiles : u # job[t].mTile /\ navMesh[<<job[t].mAgent, u>>].present }
  <2>1. job[t] \in Job /\ job[t].mTile \in Tiles
    BY <1>3 DEF UpdateTile, MustAdd, TypeInv, Busy, Job
  <2>2. Cardinality(others) < MaxTiles
    BY <2>1, SlotLeft
  <2>3. Updated(t, "added")
    BY <1>3, <2>2 DEF UpdateTile
  <2>4. QED
    BY <1>0, <1>2, <2>3 DEF Updated
<1>4. ASSUME NEW t \in Threads, unlockTile(t) PROVE NoFailure'
  <2>1. status[t] # "failed"
    BY DEF NoFailure
  <2>2. pc' = [pc EXCEPT ![t] = "process"] /\ status' = [status EXCEPT ![t] = "ignored"]
    BY <1>4, <2>1 DEF unlockTile, EndJob
  <2>3. QED
    BY <1>0, <1>2, <2>2
<1>5. ASSUME NEW t \in Threads, Loop(t) \/ NoNextJob(t) \/ cleanupLastUpdates(t) \/ ReadPlayerTile(t) \/ UpdatePresentTiles(t)
      PROVE  NoFailure'
  <2>1. status' = status /\ \E p \in {"stopped", "getNextJob", "cleanupLastUpdates", "process", "updateNavMesh", "unlockTile"} :
                               pc' = [pc EXCEPT ![t] = p]
    BY <1>5 DEF Loop, NoNextJob, cleanupLastUpdates, ReadPlayerTile, UpdatePresentTiles
  <2>2. QED
    BY <1>0, <1>2, <2>1 DEF NoFailure
<1>6. ASSUME NEW t \in Threads, TakeThreadJob(t) \/ TakeJob(t) PROVE NoFailure'
  <2>1. status' = status /\ \E p \in {"processJob", "locked"} : pc' = [pc EXCEPT ![t] = p]
    BY <1>6 DEF TakeThreadJob, TakeJob, Dispatch
  <2>2. QED
    BY <1>0, <1>2, <2>1 DEF NoFailure
<1>7. ASSUME NEW t \in Threads, LockItem(t) PROVE NoFailure'
  <2>1. /\ status' = status \/ status' = [status EXCEPT ![t] = "ignored"]
        /\ \E p \in {"readPlayerTile", "unlockTile"} : pc' = [pc EXCEPT ![t] = p]
    BY <1>7 DEF LockItem
  <2>2. QED
    BY <1>0, <1>2, <2>1 DEF NoFailure
<1>8. ASSUME NEW t \in Threads, RemoveTile(t) \/ KeepTile(t) PROVE NoFailure'
  <2>1. \E s \in {"removed", "ignored", "cached"} : Updated(t, s)
    BY <1>8 DEF RemoveTile, KeepTile
  <2>2. QED
    BY <1>0, <1>2, <2>1 DEF Updated
<1>9. ASSUME NEW t \in Threads, Throw(t) PROVE NoFailure'
  BY <1>0, <1>2, <1>9 DEF Throw, EndJob
<1>10. ASSUME NEW t \in Threads, repost(t) PROVE NoFailure'
  BY <1>10 DEF repost, NoFailure
<1>11. CASE \E t \in Threads : Worker(t)
  BY <1>3, <1>4, <1>5, <1>6, <1>7, <1>8, <1>9, <1>10, <1>11 DEF Worker
<1>12. CASE MainStart \/ MainStep \/ SpuriousWakeup \/ Tick \/ Terminated \/ UNCHANGED vars
  BY <1>1, <1>12 DEF MainStart, MainStep, ChangeMesh, AddAgent, Reset, Post, LockPost, PostTile, EndPost,
     Wait, WaitPresent, CheckDone, CheckProcessed, SpuriousWakeup, Destroy, ClearJobs, Join, Tick, Terminated, vars
<1>13. QED
  BY <1>11, <1>12 DEF Next

\* Where there is no job, a thread makes none.
LEMMA NoJobsStay ==
    ASSUME TypeInv, NoFailure, NoJobsLeft, NEW t \in Threads, Worker(t)
    PROVE  NoJobsLeft'
<1>1. mJobs = <<>> /\ \A s \in Threads : mThreadsQueues[s].mJobs = <<>>
  BY DEF NoJobsLeft, getTotalThreadJobs
<1>2. ~TakeThreadJob(t) /\ ~TakeJob(t) /\ ~repost(t)
  BY <1>1 DEF TakeThreadJob, TakeJob, HasCommonJob, repost, NoFailure
<1>3. UNCHANGED <<mJobs, mThreadsQueues>>
  BY <1>2 DEF Worker, Loop, NoNextJob, cleanupLastUpdates, LockItem, ReadPlayerTile, RemoveTile, KeepTile, UpdateTile,
     Updated, Throw, UpdatePresentTiles, unlockTile, sharedVars, queueVars
<1>4. QED
  BY <1>3 DEF NoJobsLeft, getTotalThreadJobs

LEMMA WaitStep ==
    ASSUME TypeInv, EnoughSlots, WaitInv, [Next]_vars
    PROVE  WaitInv'
<1>0. NoFailure'
  BY NoFailureStep DEF WaitInv
<1> DEFINE Rest == /\ mShouldStop => main \in {"clear", "join", "destroyed"}
                   /\ waitType = "allJobsDone" => main \in {"checkDone", "waitDone", "checkProcessed", "waitProcessed"}
                   /\ waitType = "allJobsDone" /\ main \in {"checkProcessed", "waitProcessed"} => NoJobsLeft
<1>r. Rest
  BY DEF WaitInv
<1> SUFFICES Rest'
  BY <1>0 DEF WaitInv
<1>j. ASSUME UNCHANGED <<mJobs, mThreadsQueues>> PROVE NoJobsLeft' <=> NoJobsLeft
  BY <1>j DEF NoJobsLeft, getTotalThreadJobs
<1> USE DEF localVars, threadVars, mainVars, worldVars, history, queueVars, tileVars, sharedVars
<1>1. ASSUME NEW t \in Threads, Worker(t) PROVE Rest'
  <2>1. /\ UNCHANGED <<waitType, mShouldStop>>
        /\ \/ main' = main
           \/ main = "waitDone" /\ main' = "checkDone"
           \/ main = "waitProcessed" /\ main' = "checkProcessed"
    BY <1>1, WorkerMain
  <2>2. NoJobsLeft => NoJobsLeft'
    BY <1>1, NoJobsStay DEF WaitInv
  <2>3. QED
    BY <1>r, <2>1, <2>2
<1>2. CASE MainStart
  <2>1. main = "idle" /\ waitType # "allJobsDone" /\ ~mShouldStop
    BY <1>r, <1>2 DEF MainStart, ChangeMesh, AddAgent, Reset, Post, Wait, Destroy
  <2>2. ASSUME NEW type, Wait(type) PROVE Rest'
    BY <2>1, <2>2 DEF Wait
  <2>3. CASE ~\E type \in WaitTypes \ {"none"} : Wait(type)
    <3>1. waitType' = waitType
      BY <1>2, <2>3 DEF MainStart, ChangeMesh, AddAgent, Reset, Post, Destroy
    <3>2. mShouldStop' => main' \in {"clear", "join", "destroyed"}
      BY <1>2, <2>1, <2>3 DEF MainStart, ChangeMesh, AddAgent, Reset, Post, Destroy
    <3>3. QED
      BY <2>1, <3>1, <3>2
  <2>4. QED
    BY <2>2, <2>3
<1>3. CASE LockPost \/ EndPost \/ ClearJobs \/ Join \/ \E u \in Tiles, c \in ChangeType : PostTile(u, c)
  <2>1. waitType # "allJobsDone" /\ waitType' = waitType /\ mShouldStop' = mShouldStop
    BY <1>r, <1>3 DEF LockPost, EndPost, ClearJobs, Join, PostTile
  <2>2. mShouldStop => main' \in {"clear", "join", "destroyed"}
    BY <1>r, <1>3 DEF LockPost, EndPost, ClearJobs, Join, PostTile
  <2>3. QED
    BY <2>1, <2>2
<1>4. CASE WaitPresent
  <2>1. /\ main = "waitPresent" /\ mShouldStop' = mShouldStop
        /\ waitType' \in {waitType, "none"}
    BY <1>4 DEF WaitPresent
  <2>2. waitType' # "allJobsDone" /\ ~mShouldStop'
    BY <1>r, <2>1
  <2>3. QED
    BY <2>2
<1>5. CASE CheckDone
  <2>1. /\ main = "checkDone" /\ UNCHANGED <<waitType, mShouldStop, mJobs, mThreadsQueues>>
        /\ main' = IF NoJobsLeft THEN "checkProcessed" ELSE "waitDone"
    BY <1>5 DEF CheckDone
  <2>2. ~mShouldStop
    BY <1>r, <2>1
  <2>3. NoJobsLeft' <=> NoJobsLeft
    BY <1>j, <2>1
  <2>4. QED
    BY <2>1, <2>2, <2>3
<1>6. CASE CheckProcessed
  <2>1. /\ main = "checkProcessed" /\ UNCHANGED <<mShouldStop, mJobs, mThreadsQueues>>
        /\ \/ main' = "idle" /\ waitType' = "none"
           \/ main' = "waitProcessed" /\ waitType' = waitType
    BY <1>6 DEF CheckProcessed
  <2>2. NoJobsLeft' <=> NoJobsLeft
    BY <1>j, <2>1
  <2>3. QED
    BY <1>r, <2>1, <2>2
<1>7. CASE SpuriousWakeup
  <2>1. /\ UNCHANGED <<waitType, mShouldStop, mJobs, mThreadsQueues>>
        /\ \/ main = "waitDone" /\ main' = "checkDone"
           \/ main = "waitProcessed" /\ main' = "checkProcessed"
    BY <1>7 DEF SpuriousWakeup
  <2>2. NoJobsLeft' <=> NoJobsLeft
    BY <1>j, <2>1
  <2>3. QED
    BY <1>r, <2>1, <2>2
<1>8. CASE Tick \/ Terminated \/ UNCHANGED vars
  <2>1. UNCHANGED <<main, waitType, mShouldStop, mJobs, mThreadsQueues>>
    BY <1>8 DEF Tick, Terminated, vars
  <2>2. NoJobsLeft' <=> NoJobsLeft
    BY <1>j, <2>1
  <2>3. QED
    BY <1>r, <2>1, <2>2
<1>9. QED
  BY <1>1, <1>2, <1>3, <1>4, <1>5, <1>6, <1>7, <1>8 DEF Next, MainStep

\* Where no job is queued and no tile is locked, every posted revision is settled.
LEMMA NothingLeft ==
    ASSUME QueueInv, LockInv, PendingInv, NoFailure, Parallel, ~mShouldStop, NoJobsLeft,
           NothingProcessed(mProcessingTiles)
    PROVE  AllSettled
<1>0. TypeInv /\ posted \in [Keys -> Nat] /\ settled \in [Keys -> Nat]
  BY DEF QueueInv, TypeInv, TypeOK
<1>1. SUFFICES ASSUME NEW k \in Keys, settled[k] < posted[k] PROVE FALSE
  BY <1>0 DEF AllSettled
<1>2. StillPending(k)
  BY <1>1 DEF PendingInv
<1>3. mJobs = <<>> /\ \A t \in Threads : mThreadsQueues[t].mJobs = <<>>
  BY DEF NoJobsLeft, getTotalThreadJobs
<1>4. main \notin {"join", "destroyed"}
  BY DEF PendingInv
<1>5. mPushed = {} /\ \A t \in Threads : mThreadsQueues[t].mPushed = {}
  <2>1. KeysOf(<<>>) = {}
    BY DEF KeysOf
  <2>2. QED
    BY <1>3, <1>4, <2>1 DEF QueueInv, PushedMatchesJobs
<1>6. PICK t \in Threads : AtWork(t, k)
  BY <1>2, <1>5 DEF StillPending
<1>7. Processing(t) /\ Key(job[t]) = k
  BY <1>6 DEF AtWork, Processing, NoFailure
<1>8. mProcessingTiles[k] = t
  BY <1>7 DEF LockInv
<1>9. mProcessingTiles[k] = NoThread
  BY DEF NothingProcessed
<1>10. QED
  BY <1>8, <1>9, ThreadsAssumption

\* With several threads, agents that stay and a slot for every tile, wait(allJobsDone)
\* returns only when every posted revision has been dealt with: between the look at the
\* queues and the look at the locks no job is in neither.  Each hypothesis is needed:
\* one thread locks nothing, and a job that failed is for a moment in no queue and
\* under no lock.
THEOREM WaitsForAllJobs ==
    ASSUME Parallel, ~MayReset, EnoughSlots
    PROVE  Spec => WaitAllJobsDone
<1>1. Init => AliveInv /\ PendingInv /\ WaitInv /\ LockInv /\ QueueInv
  <2> SUFFICES ASSUME Init PROVE AliveInv /\ PendingInv /\ WaitInv /\ LockInv /\ QueueInv
    OBVIOUS
  <2>1. AliveInv
    BY DEF Init, AliveInv, AllAlive, Busy
  <2>2. \A k \in Keys : mesh[k[2]].rev \in Nat
    BY SettingsAssumption DEF Init, Keys, RecastMesh
  <2>3. PendingInv
    BY <2>2 DEF Init, PendingInv
  <2>4. WaitInv
    BY DEF Init, WaitInv, NoFailure
  <2>5. LockInv
    BY TypeInvInit DEF Init, LockInv, Processing
  <2>6. QED
    BY <2>1, <2>3, <2>4, <2>5, QueueInvInit
<1>2. LockInv /\ [Next]_vars => LockInv'
  BY LockInvStep
<1>3. QueueInv /\ [Next]_vars => QueueInv'
  BY QueueInvStep
<1>4. QueueInv /\ QueueInv' /\ AliveInv /\ [Next]_vars => AliveInv'
  BY AliveStep DEF QueueInv
<1>5. QueueInv /\ QueueInv' /\ AliveInv /\ PendingInv /\ [Next]_vars => PendingInv'
  BY PendingStep
<1>6. QueueInv /\ WaitInv /\ [Next]_vars => WaitInv'
  BY WaitStep DEF QueueInv
<1>7. ASSUME QueueInv, LockInv, PendingInv, WaitInv, [Next]_vars, waitType = "allJobsDone", waitType' = "none"
      PROVE  AllSettled
  <2> USE DEF mainVars
  <2>0. main \in {"checkDone", "waitDone", "checkProcessed", "waitProcessed"} /\ ~mShouldStop
    BY <1>7 DEF WaitInv
  <2>1. ~\E t \in Threads : Worker(t)
    BY <1>7, WorkerMain
  <2>2. ~MainStart
    BY <2>0 DEF MainStart, ChangeMesh, AddAgent, Reset, Post, Wait, Destroy
  <2>3. CheckProcessed
    BY <1>7, <2>0, <2>1, <2>2 DEF Next, MainStep, LockPost, PostTile, EndPost, WaitPresent, CheckDone, ClearJobs, Join,
       SpuriousWakeup, Tick, Terminated, vars
  <2>4. main = "checkProcessed" /\ NothingProcessed(mProcessingTiles)
    BY <1>7, <2>3 DEF CheckProcessed
  <2>5. NoJobsLeft /\ NoFailure
    BY <1>7, <2>4 DEF WaitInv
  <2>6. QED
    BY <1>7, <2>0, <2>4, <2>5, NothingLeft
<1>8. QueueInv /\ LockInv /\ PendingInv /\ WaitInv /\ [Next]_vars
        => [waitType = "allJobsDone" /\ waitType' = "none" => AllSettled]_vars
  BY <1>7
<1>9. QED
  BY <1>1, <1>2, <1>3, <1>4, <1>5, <1>6, <1>8, PTL DEF Spec, WaitAllJobsDone

=============================================================================
