------------------------ MODULE PhysicsTaskScheduler ------------------------
(***************************************************************************)
(* MWPhysics::PhysicsTaskScheduler with background threads: once per frame *)
(* the main thread collects what the workers have computed and posts the   *)
(* next frame; the workers then move the actors step by step, meeting at   *)
(* three barriers, while the main thread runs scripts, moves objects, asks *)
(* for lines of sight and adds and removes actors.  Workers hold           *)
(* mSimulationMutex shared except while they wait for a frame; the main    *)
(* thread takes it exclusively, and what it does with it is one step.      *)
(***************************************************************************)
EXTENDS Integers, Sequences, FiniteSets

CONSTANTS
    Workers,            \* mThreads: at least one
    NotWaiting,         \* model value: a worker that sleeps at no barrier
    Actors,             \* actors that may be in PhysicsSystem::mActors
    Objects,            \* objects of PhysicsSystem::mObjects
    InitialScene,       \* actors that are in the scene when the model starts
    mLOSCacheExpiry,    \* setting: lineofsight keep inactive cache
    mDeferAabbUpdate,   \* setting: defer aabb update
    WriterPreferring,   \* BOOLEAN: lock_shared waits behind a thread that waits in lock
    EarlyDestructor,    \* BOOLEAN: it may be called before all workers have started
    MaxSteps, MaxFrames \* bounds: steps of a frame, calls of moveActors

\* What LOSRequest identifies by two sorted pointers.
Pairs == { p \in SUBSET Actors : Cardinality(p) = 2 }

ASSUME WorkersAssumption ==
    /\ IsFiniteSet(Workers) /\ Workers # {} /\ NotWaiting \notin Nat
ASSUME SceneAssumption ==
    /\ IsFiniteSet(Actors) /\ InitialScene \subseteq Actors
    /\ mLOSCacheExpiry \in Nat \cup {-1} /\ mDeferAabbUpdate \in BOOLEAN
    /\ WriterPreferring \in BOOLEAN /\ EarlyDestructor \in BOOLEAN /\ MaxSteps \in Nat /\ MaxFrames \in Nat

\* Where a worker is; "waiting" in mHasJob.wait, "woken" before it has the mutex.
WorkerPCs == {"start", "loop", "waiting", "woken", "preStep", "preStepWait", "move", "moving",
              "postStep", "postStepWait", "fall", "falling", "los", "refresh", "postSim",
              "postSimWait", "stopped"}

MainPCs == {"idle", "updateSingleAabb", "moveActors", "notify", "resetSimulation",
            "destroy", "notifyQuit", "join", "destroyed"}

\* An object's transform is committed to its collision object, was changed since
\* the last call of moveActors ("new"), or before it ("old").
Transforms == {"clean", "new", "old"}

LOSRequest == [pair : Pairs, mAge : Nat, mStale : BOOLEAN, fresh : BOOLEAN]

VARIABLES
    mActorsFrameData, mNumJobs, mRemainingSteps,  \* the frame
    mNewFrame, mQuit, mNextJob, mNextLOS,
    mUpdateAabb, transform,  \* objects to commit, their state
    mLOSCache,
    mPreStepBarrier, mPostStepBarrier, mPostSimBarrier,
    pc, job,                 \* of each worker: where it is, its actor
    main, target,            \* the main thread, the object it is moving
    scene, former,           \* PhysicsSystem::mActors; actors removed from it
    frames,                  \* bound: frames posted
    steps, done,             \* history of the frame: steps asked for, finished,
    moved, fell,             \* of each job: times it was moved, fall handled,
    resetEarly               \* frame data cleared under a frame that had not run

frameVars == <<mActorsFrameData, mNumJobs, mRemainingSteps, mNewFrame, mQuit, mNextJob, mNextLOS>>
aabbVars == <<mUpdateAabb, transform>>
barrierVars == <<mPreStepBarrier, mPostStepBarrier, mPostSimBarrier>>
workerVars == <<pc, job>>
mainVars == <<main, target>>
sceneVars == <<scene, former>>
history == <<frames, steps, done, moved, fell, resetEarly>>
vars == <<frameVars, aabbVars, mLOSCache, barrierVars, workerVars, mainVars, sceneVars, history>>

mNumThreads == Cardinality(Workers)

PreStep == INSTANCE Barrier WITH Threads <- Workers, mThreadCount <- mNumThreads, barrier <- mPreStepBarrier
PostStep == INSTANCE Barrier WITH Threads <- Workers, mThreadCount <- mNumThreads, barrier <- mPostStepBarrier
PostSim == INSTANCE Barrier WITH Threads <- Workers, mThreadCount <- mNumThreads, barrier <- mPostSimBarrier

-----------------------------------------------------------------------------
\* A worker that holds mSimulationMutex shared.
HoldsShared(w) == pc[w] \notin {"start", "waiting", "woken", "stopped"}
ExclusiveFree == \A w \in Workers : ~HoldsShared(w)
SharedFree == ~(WriterPreferring /\ main \in {"moveActors", "resetSimulation", "destroy"})

Init ==
    /\ mActorsFrameData = <<>>
    /\ mNumJobs = 0
    /\ mRemainingSteps = 0
    /\ mNewFrame = FALSE
    /\ mQuit = FALSE
    /\ mNextJob = 0
    /\ mNextLOS = 0
    /\ mUpdateAabb = {}
    /\ transform = [o \in Objects |-> "clean"]
    /\ mLOSCache = <<>>
    /\ PreStep!Init /\ PostStep!Init /\ PostSim!Init
    /\ pc = [w \in Workers |-> "start"]
    /\ job = [w \in Workers |-> 0]
    /\ main = "idle"
    /\ target \in Objects
    /\ scene = InitialScene
    /\ former = {}
    /\ frames = 0
    /\ steps = 0
    /\ done = 0
    /\ moved = <<>>
    /\ fell = <<>>
    /\ resetEarly = FALSE

-----------------------------------------------------------------------------
(* The workers: worker().                                                  *)

Go(w, place) == pc' = [pc EXCEPT ![w] = place]

Start(w) ==
    /\ pc[w] = "start"
    /\ SharedFree
    /\ Go(w, "loop")
    /\ UNCHANGED <<frameVars, aabbVars, mLOSCache, barrierVars, job, mainVars, sceneVars, history>>

\* while (!mQuit) { if (!mNewFrame) mHasJob.wait(...)
Loop(w) ==
    /\ pc[w] = "loop"
    /\ Go(w, IF mQuit THEN "stopped" ELSE IF mNewFrame THEN "preStep" ELSE "waiting")
    /\ UNCHANGED <<frameVars, aabbVars, mLOSCache, barrierVars, job, mainVars, sceneVars, history>>

HasJob == mQuit \/ mNewFrame

\* mHasJob may wake a worker for no reason; it matters only if there is a job.
SpuriousWakeup(w) ==
    /\ pc[w] = "waiting"
    /\ HasJob
    /\ Go(w, "woken")
    /\ UNCHANGED <<frameVars, aabbVars, mLOSCache, barrierVars, job, mainVars, sceneVars, history>>

\* The woken worker has the mutex again and looks at the predicate of the wait.
Wake(w) ==
    /\ pc[w] = "woken"
    /\ SharedFree
    /\ Go(w, IF HasJob THEN "preStep" ELSE "waiting")
    /\ UNCHANGED <<frameVars, aabbVars, mLOSCache, barrierVars, job, mainVars, sceneVars, history>>

NothingCommitted == transform                            \* mutant
\* updateAabbs commits the transform of every object in mUpdateAabb.
Committed == [o \in Objects |-> IF o \in mUpdateAabb THEN "clean" ELSE transform[o]]

\* The callback of mPreStepBarrier.  (unstuck is geometry.)
afterPreStep ==
    /\ IF mDeferAabbUpdate THEN transform' = Committed /\ mUpdateAabb' = {}
       ELSE UNCHANGED aabbVars
    /\ UNCHANGED <<frameVars, mLOSCache, history>>

WaitPreStep(w) ==
    /\ pc[w] = "preStep"
    /\ \/ /\ PreStep!Arrive(w)
          /\ Go(w, "preStepWait")
          /\ UNCHANGED <<frameVars, aabbVars, mLOSCache, history>>
       \/ /\ PreStep!Open(w)
          /\ Go(w, "move")
          /\ afterPreStep
    /\ UNCHANGED <<mPostStepBarrier, mPostSimBarrier, job, mainVars, sceneVars>>

LeavePreStep(w) ==
    /\ pc[w] = "preStepWait"
    /\ PreStep!Leave(w)
    /\ Go(w, "move")
    /\ UNCHANGED <<frameVars, aabbVars, mLOSCache, mPostStepBarrier, mPostSimBarrier, job,
                   mainVars, sceneVars, history>>

ClaimOneMore(w, handle, next) ==                         \* mutant
    /\ mNextJob' = mNextJob + 1
    /\ IF mNextJob <= mNumJobs
       THEN Go(w, handle) /\ job' = [job EXCEPT ![w] = mNextJob + 1]
       ELSE Go(w, next) /\ job' = job
    /\ UNCHANGED <<mActorsFrameData, mNumJobs, mRemainingSteps, mNewFrame, mQuit, mNextLOS,
                   aabbVars, mLOSCache, barrierVars, mainVars, sceneVars, history>>

\* mNextJob.fetch_add(1) < mNumJobs, then handle that actor, or go on.
Claim(w, handle, next) ==
    /\ mNextJob' = mNextJob + 1
    /\ IF mNextJob < mNumJobs
       THEN Go(w, handle) /\ job' = [job EXCEPT ![w] = mNextJob + 1]
       ELSE Go(w, next) /\ job' = job
    /\ UNCHANGED <<mActorsFrameData, mNumJobs, mRemainingSteps, mNewFrame, mQuit, mNextLOS,
                   aabbVars, mLOSCache, barrierVars, mainVars, sceneVars, history>>

ClaimMove(w) ==
    /\ pc[w] = "move"
    /\ mRemainingSteps # 0
    /\ Claim(w, "moving", "postStep")

SkipMoves(w) ==
    /\ pc[w] = "move"
    /\ mRemainingSteps = 0
    /\ Go(w, "postStep")
    /\ UNCHANGED <<frameVars, aabbVars, mLOSCache, barrierVars, job, mainVars, sceneVars, history>>

\* One more for job j.  After an early reset the data of j may be gone: whatever
\* the worker finds there is not an actor of the frame.
Count(counts, j) == IF j \in DOMAIN counts THEN [counts EXCEPT ![j] = @ + 1] ELSE counts

Move(w) ==
    /\ pc[w] = "moving"
    /\ moved' = Count(moved, job[w])
    /\ Go(w, "move")
    /\ UNCHANGED <<frameVars, aabbVars, mLOSCache, barrierVars, job, mainVars, sceneVars,
                   frames, steps, done, fell, resetEarly>>

NextJobKept ==                                           \* mutant
    /\ IF mRemainingSteps # 0
       THEN mRemainingSteps' = mRemainingSteps - 1 /\ done' = done + 1
       ELSE UNCHANGED <<mRemainingSteps, done>>
    /\ UNCHANGED <<mActorsFrameData, mNumJobs, mNewFrame, mQuit, mNextJob, mNextLOS, frames, steps,
                   moved, fell, resetEarly>>

\* The callback of mPostStepBarrier.  (updateActorsPositions is ActorPosition's.)
afterPostStep ==
    /\ IF mRemainingSteps # 0
       THEN mRemainingSteps' = mRemainingSteps - 1 /\ done' = done + 1
       ELSE UNCHANGED <<mRemainingSteps, done>>
    /\ mNextJob' = 0
    /\ UNCHANGED <<mActorsFrameData, mNumJobs, mNewFrame, mQuit, mNextLOS, frames, steps, moved,
                   fell, resetEarly>>

FallEveryStep(w, remaining) == Go(w, "fall")             \* mutant
\* if (!mRemainingSteps)
AfterStep(w, remaining) == Go(w, IF remaining = 0 THEN "fall" ELSE "loop")

WaitPostStep(w) ==
    /\ pc[w] = "postStep"
    /\ \/ /\ PostStep!Arrive(w)
          /\ Go(w, "postStepWait")
          /\ UNCHANGED <<frameVars, history>>
       \/ /\ PostStep!Open(w)
          /\ afterPostStep
          /\ AfterStep(w, mRemainingSteps')
    /\ UNCHANGED <<aabbVars, mLOSCache, mPreStepBarrier, mPostSimBarrier, job, mainVars, sceneVars>>

LeavePostStep(w) ==
    /\ pc[w] = "postStepWait"
    /\ PostStep!Leave(w)
    /\ AfterStep(w, mRemainingSteps)
    /\ UNCHANGED <<frameVars, aabbVars, mLOSCache, mPreStepBarrier, mPostSimBarrier, job,
                   mainVars, sceneVars, history>>

ClaimFall(w) ==
    /\ pc[w] = "fall"
    /\ Claim(w, "falling", IF mLOSCacheExpiry >= 0 THEN "los" ELSE "postSim")

handleFall(w) ==
    /\ pc[w] = "falling"
    /\ fell' = Count(fell, job[w])
    /\ Go(w, "fall")
    /\ UNCHANGED <<frameVars, aabbVars, mLOSCache, barrierVars, job, mainVars, sceneVars,
                   frames, steps, done, moved, resetEarly>>

\* refreshLOSCache takes mLOSCacheMutex shared ...
LockLOSCache(w) ==
    /\ pc[w] = "los"
    /\ Go(w, "refresh")
    /\ UNCHANGED <<frameVars, aabbVars, mLOSCache, barrierVars, job, mainVars, sceneVars, history>>

Refreshed(req) ==
    IF req.mAge > mLOSCacheExpiry \/ ~(req.pair \subseteq scene)
    THEN [req EXCEPT !.mAge = @ + 1, !.mStale = TRUE]
    ELSE [req EXCEPT !.mAge = @ + 1, !.fresh = TRUE]

\* ... and handles one request after the other while there are some.
RefreshLOS(w) ==
    /\ pc[w] = "refresh"
    /\ mNextLOS' = mNextLOS + 1
    /\ IF mNextLOS < Len(mLOSCache)
       THEN mLOSCache' = [mLOSCache EXCEPT ![mNextLOS + 1] = Refreshed(@)] /\ pc' = pc
       ELSE Go(w, "postSim") /\ mLOSCache' = mLOSCache
    /\ UNCHANGED <<mActorsFrameData, mNumJobs, mRemainingSteps, mNewFrame, mQuit, mNextJob,
                   aabbVars, barrierVars, job, mainVars, sceneVars, history>>

KeepsStale(req) == TRUE                                  \* mutant
NotStale(req) == ~req.mStale

\* The ways to choose n elements of set S of integers, in their order.
Increasing(n, S) == { f \in [1..n -> S] : \A i, j \in 1..n : i < j => f[i] < f[j] }

\* remove_if and erase: the requests that are not stale, in the same order.
EraseStale ==
    LET kept == { i \in 1..Len(mLOSCache) : NotStale(mLOSCache[i]) }
    IN  \E order \in Increasing(Cardinality(kept), kept) :
          mLOSCache' = [i \in 1..Cardinality(kept) |-> mLOSCache[order[i]]]

\* The callback of mPostSimBarrier.
afterPostSim ==
    /\ mNewFrame' = FALSE
    /\ IF mLOSCacheExpiry >= 0 THEN EraseStale ELSE mLOSCache' = mLOSCache
    /\ UNCHANGED <<mActorsFrameData, mNumJobs, mRemainingSteps, mQuit, mNextJob, mNextLOS>>

WaitPostSim(w) ==
    /\ pc[w] = "postSim"
    /\ \/ /\ PostSim!Arrive(w)
          /\ Go(w, "postSimWait")
          /\ UNCHANGED <<frameVars, mLOSCache>>
       \/ /\ PostSim!Open(w)
          /\ Go(w, "loop")
          /\ afterPostSim
    /\ UNCHANGED <<aabbVars, mPreStepBarrier, mPostStepBarrier, job, mainVars, sceneVars, history>>

LeavePostSim(w) ==
    /\ pc[w] = "postSimWait"
    /\ PostSim!Leave(w)
    /\ Go(w, "loop")
    /\ UNCHANGED <<frameVars, aabbVars, mLOSCache, mPreStepBarrier, mPostStepBarrier, job,
                   mainVars, sceneVars, history>>

Worker(w) ==
    \/ Start(w) \/ Loop(w) \/ Wake(w)
    \/ WaitPreStep(w) \/ LeavePreStep(w)
    \/ ClaimMove(w) \/ SkipMoves(w) \/ Move(w)
    \/ WaitPostStep(w) \/ LeavePostStep(w)
    \/ ClaimFall(w) \/ handleFall(w)
    \/ LockLOSCache(w) \/ RefreshLOS(w)
    \/ WaitPostSim(w) \/ LeavePostSim(w)

-----------------------------------------------------------------------------
(* The main thread.                                                        *)

workersUnchanged == UNCHANGED <<barrierVars, workerVars>>

\* PhysicsSystem::addActor and remove.  A removed actor never returns: the weak
\* pointers left to it keep its memory from being used again.
AddActor(a) ==
    /\ main = "idle"
    /\ a \notin scene \cup former
    /\ scene' = scene \cup {a}
    /\ UNCHANGED <<frameVars, aabbVars, mLOSCache, mainVars, former, history>> /\ workersUnchanged

RemoveActor(a) ==
    /\ main = "idle"
    /\ a \in scene
    /\ scene' = scene \ {a}
    /\ former' = former \cup {a}
    /\ UNCHANGED <<frameVars, aabbVars, mLOSCache, mainVars, history>> /\ workersUnchanged

\* Object::updatePosition, setRotation or setScale; updateSingleAabb follows.
MoveObject(o) ==
    /\ main = "idle"
    /\ transform' = [transform EXCEPT ![o] = IF @ = "old" THEN "old" ELSE "new"]
    /\ main' = "updateSingleAabb"
    /\ target' = o
    /\ UNCHANGED <<frameVars, mUpdateAabb, mLOSCache, sceneVars, history>> /\ workersUnchanged

updateSingleAabb ==
    /\ main = "updateSingleAabb"
    /\ main' = "idle"
    /\ IF mDeferAabbUpdate
       THEN mUpdateAabb' = mUpdateAabb \cup {target} /\ transform' = transform
       ELSE mUpdateAabb' = mUpdateAabb /\ transform' = [transform EXCEPT ![target] = "clean"]
    /\ UNCHANGED <<frameVars, mLOSCache, target, sceneVars, history>> /\ workersUnchanged

NewRequest(p) == [pair |-> p, mAge |-> 0, mStale |-> FALSE, fresh |-> TRUE]

\* mLOSCacheMutex is taken exclusively; nothing to do for actors that are gone.
getLineOfSight(p) ==
    /\ main = "idle"
    /\ p \subseteq scene
    /\ \A w \in Workers : pc[w] # "refresh"
    /\ LET cached == { i \in 1..Len(mLOSCache) : mLOSCache[i].pair = p }
       IN  mLOSCache' = IF cached # {}
                        THEN [i \in 1..Len(mLOSCache) |->
                                IF i \in cached THEN [mLOSCache[i] EXCEPT !.mAge = 0] ELSE mLOSCache[i]]
                        ELSE IF mLOSCacheExpiry >= 0 THEN Append(mLOSCache, NewRequest(p)) ELSE mLOSCache
    /\ UNCHANGED <<frameVars, aabbVars, mainVars, sceneVars, history>> /\ workersUnchanged

\* A call that needs mSimulationMutex exclusively.
Call(place) ==
    /\ main = "idle"
    /\ main' = place
    /\ UNCHANGED <<frameVars, aabbVars, mLOSCache, target, sceneVars, history>> /\ workersUnchanged

CallMoveActors == frames < MaxFrames /\ Call("moveActors")
CallResetSimulation == Call("resetSimulation")
CallDestructor == /\ EarlyDestructor \/ \A w \in Workers : pc[w] # "start"
                  /\ Call("destroy")

\* prepareFrameData: the actors of the scene.  Their order in mActors is that of
\* pointers: any.
FrameData == { data \in [1..Cardinality(scene) -> scene] :
                 \A i, j \in DOMAIN data : data[i] = data[j] => i = j }

\* moveActors with the mutex: collect the last frame, post the next one with n
\* steps (calculateStepConfig: the time passed and the time left decide).
moveActors(n, data) ==
    /\ main = "moveActors"
    /\ ExclusiveFree
    /\ mActorsFrameData' = data
    /\ mNumJobs' = Len(data)
    /\ mRemainingSteps' = n
    /\ mNewFrame' = TRUE
    /\ mNextJob' = 0
    /\ mNextLOS' = 0
    /\ main' = "notify"
    /\ frames' = frames + 1
    /\ steps' = n
    /\ done' = 0
    /\ moved' = [i \in 1..Len(data) |-> 0]
    /\ fell' = [i \in 1..Len(data) |-> 0]
    /\ transform' = [o \in Objects |-> IF transform[o] = "new" THEN "old" ELSE transform[o]]
    /\ mLOSCache' = [i \in 1..Len(mLOSCache) |-> [mLOSCache[i] EXCEPT !.fresh = FALSE]]
    /\ resetEarly' = FALSE
    /\ UNCHANGED <<mQuit, mUpdateAabb, target, sceneVars>> /\ workersUnchanged

NobodyNotified == pc                                     \* mutant
OneNotified ==                                           \* mutant
    [w \in Workers |-> IF /\ pc[w] = "waiting"
                          /\ w = CHOOSE v \in Workers : pc[v] = "waiting"
                       THEN "woken" ELSE pc[w]]
\* mHasJob.notify_all, after the mutex was released.
Notified == [w \in Workers |-> IF pc[w] = "waiting" THEN "woken" ELSE pc[w]]

notify_all(from, to) ==
    /\ main = from
    /\ main' = to
    /\ pc' = Notified
    /\ UNCHANGED <<frameVars, aabbVars, mLOSCache, barrierVars, job, target, sceneVars, history>>

resetSimulation ==
    /\ main = "resetSimulation"
    /\ ExclusiveFree
    /\ mActorsFrameData' = <<>>
    /\ main' = "idle"
    /\ moved' = <<>>
    /\ fell' = <<>>
    /\ resetEarly' = mNewFrame
    /\ UNCHANGED <<mNumJobs, mRemainingSteps, mNewFrame, mQuit, mNextJob, mNextLOS, aabbVars,
                   mLOSCache, target, sceneVars, frames, steps, done>> /\ workersUnchanged

\* ~PhysicsTaskScheduler
Quit ==
    /\ main = "destroy"
    /\ ExclusiveFree
    /\ mQuit' = TRUE
    /\ mNumJobs' = 0
    /\ mRemainingSteps' = 0
    /\ main' = "notifyQuit"
    /\ UNCHANGED <<mActorsFrameData, mNewFrame, mNextJob, mNextLOS, aabbVars, mLOSCache, target,
                   sceneVars, history>> /\ workersUnchanged

Join ==
    /\ main = "join"
    /\ \A w \in Workers : pc[w] = "stopped"
    /\ main' = "destroyed"
    /\ UNCHANGED <<frameVars, aabbVars, mLOSCache, target, sceneVars, history>> /\ workersUnchanged

Terminated == main = "destroyed" /\ UNCHANGED vars

MainStart ==
    \/ \E a \in Actors : AddActor(a) \/ RemoveActor(a)
    \/ \E o \in Objects : MoveObject(o)
    \/ \E p \in Pairs : getLineOfSight(p)
    \/ CallMoveActors \/ CallResetSimulation \/ CallDestructor

MainStep ==
    \/ updateSingleAabb
    \/ \E n \in 0..MaxSteps, data \in FrameData : moveActors(n, data)
    \/ notify_all("notify", "idle")
    \/ resetSimulation
    \/ Quit
    \/ notify_all("notifyQuit", "join")
    \/ Join

Next ==
    \/ MainStart
    \/ MainStep
    \/ \E w \in Workers : Worker(w) \/ SpuriousWakeup(w)
    \/ Terminated

Spec == Init /\ [][Next]_vars

\* Workers run and a call of the main thread goes on; nothing makes the main
\* thread start a call, and no spurious wake-up is owed.
Fairness == (\A w \in Workers : WF_vars(Worker(w))) /\ WF_vars(MainStep)

FairSpec == Spec /\ Fairness

-----------------------------------------------------------------------------
(* Properties.                                                             *)

\* The type invariant of the module.
TypeOK ==
    /\ mActorsFrameData \in Seq(Actors)
    /\ {mNumJobs, mRemainingSteps, mNextJob, mNextLOS} \subseteq Nat
    /\ {mNewFrame, mQuit, resetEarly} \subseteq BOOLEAN
    /\ mUpdateAabb \subseteq Objects
    /\ transform \in [Objects -> Transforms]
    /\ mLOSCache \in Seq(LOSRequest)
    /\ PreStep!TypeOK /\ PostStep!TypeOK /\ PostSim!TypeOK
    /\ pc \in [Workers -> WorkerPCs]
    /\ job \in [Workers -> Nat]
    /\ main \in MainPCs
    /\ target \in Objects
    /\ scene \subseteq Actors /\ former \subseteq Actors
    /\ {frames, steps, done} \subseteq Nat
    /\ moved \in Seq(Nat) /\ fell \in Seq(Nat)

\* Every actor of the frame is moved once in every step, by one worker: no
\* step ends before all are moved, and no worker that is late moves one again.
MovedOncePerStep ==
    ~mQuit => \A j \in 1..Len(moved) : moved[j] \in {done, done + 1}

\* When the workers are done with a frame it has had all its steps, and every
\* actor's fall was handled once (it is taken out of the fall height).
FrameComplete ==
    (~mNewFrame /\ ~mQuit) => /\ done = steps
                              /\ \A j \in 1..Len(moved) : moved[j] = steps /\ fell[j] = 1

\* Changes of objects made before the frame was posted are in the collision world
\* when an actor moves: they are queued in mUpdateAabb "to update them as a batch
\* before the collision detections".
AabbsUpdatedBeforeMoves ==
    (\E w \in Workers : pc[w] = "moving") => \A o \in Objects : transform[o] # "old"

\* When a frame is done all lines of sight in the cache were computed during that
\* frame or later, and no pair is there twice.
LinesOfSightFresh ==
    /\ ~mNewFrame => \A i \in 1..Len(mLOSCache) : mLOSCache[i].fresh
    /\ \A i, k \in 1..Len(mLOSCache) : mLOSCache[i].pair = mLOSCache[k].pair => i = k

\* A worker never reads outside of mActorsFrameData, unless the main thread has
\* cleared it under a frame that no worker had begun.
JobsInFrame ==
    ~resetEarly => \A w \in Workers : pc[w] \in {"moving", "falling"} /\ ~mQuit
                                      => job[w] \in 1..Len(mActorsFrameData)

\* The callbacks of the three barriers run while all other workers sleep there, so
\* they may change the frame without a lock.
BarriersOpenForAll ==
    [][ PreStep!OpenForAll /\ PostStep!OpenForAll /\ PostSim!OpenForAll ]_barrierVars

\* moveActors starts "by finishing previous background computation": it never
\* posts a frame while the one before has not run.  It does not hold: moveActors may
\* take mSimulationMutex before any worker has woken.
NoFrameLost == [][ frames' # frames => ~mNewFrame ]_vars

\* moveActors and resetSimulation return, where a waiting writer lets new readers of
\* mSimulationMutex pass (not WriterPreferring).
CallsReturn == (main \in {"moveActors", "resetSimulation"}) ~> (main = "idle")

\* A posted frame is run by the workers.
FrameIsRun == mNewFrame ~> (~mNewFrame \/ mQuit)

\* The destructor ends: no worker is left at a barrier that others will not reach.
\* (With EarlyDestructor one may be: a worker that starts after mQuit was set
\* leaves at once, and one that waits for a frame already goes to the barrier.)
DestructorEnds == (main = "destroy") ~> (main = "destroyed")

=============================================================================
