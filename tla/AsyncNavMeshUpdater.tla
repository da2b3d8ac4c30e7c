------------------------ MODULE AsyncNavMeshUpdater ------------------------
(***************************************************************************)
(* DetourNavigator::AsyncNavMeshUpdater: the main thread posts (agent,     *)
(* tile) pairs whose navigation mesh has to be rebuilt, waits for them, or *)
(* destroys the updater; background threads take the jobs, build the tile  *)
(* and retry what failed.  One state per point where another thread can    *)
(* interfere: a critical section of mMutex is one step unless the code     *)
(* keeps the mutex across a loop (getNextJob, post).                       *)
(***************************************************************************)
EXTENDS Integers, Sequences, FiniteSets, SequencesExt

CONSTANTS
    Agents,             \* agent half extents
    Tiles,              \* tile positions <<x, y>>
    Threads,            \* mThreads
    NoThread, NoJob,    \* model values: the absence of an owner, of a job
    PostArguments,      \* <<playerTile, changedTiles>>: what post is called with
    MaxTilesNumber,     \* Settings::mMaxTilesNumber
    MaxTiles,           \* dtNavMeshParams::maxTiles, slots of one navmesh: 2, 4, ...
    MinUpdateInterval,  \* Settings::mMinUpdateInterval, in ticks
    WaitUntilMinDistanceToPlayer,
    InitialMesh,        \* what is in the tiles before the first call of post
    MayThrow,           \* BOOLEAN: makeNavMeshTileData may throw
    MayReset,           \* BOOLEAN: agents may be removed while jobs are left
    MaxPosts, MaxRevision, MaxGeneration   \* bounds of the exploration

\* enum class ChangeType: remove, mixed, add, update.
ChangeType == 0..3
Update == 3

Origin == <<0, 0>>

\* What a tile of the navmesh is built from (recast mesh and off-mesh
\* connections): a revision, and whether there is anything to walk on.
RecastMesh == [rev : Nat, solid : BOOLEAN]
NoMesh == [rev |-> 0, solid |-> FALSE]

ASSUME TilesAssumption == Tiles \subseteq Int \X Int /\ Origin \in Tiles
ASSUME ThreadsAssumption == NoThread \notin Threads
ASSUME SettingsAssumption ==
    /\ MaxTilesNumber \in Nat
    /\ MaxTiles \in Nat \ {0, 1}
    /\ MinUpdateInterval \in Nat
    /\ WaitUntilMinDistanceToPlayer \in Nat
    /\ PostArguments \subseteq Tiles \X SUBSET (Tiles \X ChangeType)
    /\ InitialMesh \in [Tiles -> RecastMesh]
    /\ MayThrow \in BOOLEAN
    /\ MayReset \in BOOLEAN
    /\ MaxPosts \in Nat
    /\ MaxRevision \in Nat
    /\ MaxGeneration \in Nat

\* An entry of mPushed, mProcessingTiles, mLastUpdates and mPresentTiles.
Keys == Agents \X Tiles

\* mItem is the generation the weak_ptr mNavMeshCacheItem points to;
\* mDistanceToOrigin is a function of the tile and not kept.
Job == [mAgent : Agents, mItem : Nat, mTile : Tiles, mTryNumber : 0..3,
        mChangeType : ChangeType, mDistanceToPlayer : Nat, mProcessTime : Nat]

Statuses == {"ignored", "removed", "added", "cached", "failed"}

WorkerPCs == {"process", "getNextJob", "locked", "cleanupLastUpdates",
              "processJob", "readPlayerTile", "updateNavMesh", "presentTiles",
              "unlockTile", "repost", "stopped"}

MainPCs == {"idle", "post", "posting", "waitPresent", "checkDone", "waitDone",
            "checkProcessed", "waitProcessed", "clear", "join", "destroyed"}

\* The arguments post works on; todo is what is left of changedTiles.
Call == [agent : Agents, item : Nat, playerTileChanged : BOOLEAN,
         todo : SUBSET (Tiles \X ChangeType)]

NoCall == [todo |-> {}]

WaitTypes == {"none", "allJobsDone", "requiredTilesPresent"}

VARIABLES
    mJobs, mPushed,         \* the common queue, and the keys in it
    mThreadsQueues,         \* per thread: jobs another thread handed over
    mProcessingTiles,       \* who works on a key
    mPresentTiles,          \* keys whose tile was put into a navmesh
    mPlayerTile, mLastUpdates, mShouldStop,
    now,                    \* std::chrono::steady_clock
    pc, job,                \* of each thread: where it is, what it holds
    recastMesh, playerTile, status,  \* of each thread: what processJob has read, done
    main, call, waitType,   \* the main thread, its call of post, of wait
    mesh,                   \* TileCachedRecastMeshManager, per tile
    item, navMesh,          \* per agent: generation of its cache item, its tiles
    mGenerationCounter,     \* NavMeshManager: last generation given out
    posted, settled,        \* history: revisions asked for, and dealt with
    posts                   \* bound: calls of post so far

queueVars == <<mJobs, mPushed, mThreadsQueues, mLastUpdates>>
tileVars == <<mProcessingTiles, mPresentTiles>>
sharedVars == <<queueVars, tileVars, mPlayerTile, mShouldStop>>
localVars == <<recastMesh, playerTile, status>>
threadVars == <<pc, job, localVars>>
mainVars == <<main, call, waitType, posts>>
worldVars == <<mesh, item, mGenerationCounter, navMesh>>
history == <<posted, settled>>
vars == <<sharedVars, now, threadVars, mainVars, worldVars, history>>

-----------------------------------------------------------------------------
Abs(n) == IF n < 0 THEN -n ELSE n

NoAbs(s, t) == s[1] - t[1] + s[2] - t[2]                 \* mutant
getManhattanDistance(s, t) == Abs(s[1] - t[1]) + Abs(s[2] - t[2])

\* std::ceil(pi * distance^2) <= maxTiles, with pi as 355/113: exact for every
\* maxTiles a navmesh can have.
shouldAddTile(tile, player) ==
    LET dx == tile[1] - player[1]
        dy == tile[2] - player[2]
        maxTiles == IF MaxTilesNumber < MaxTiles THEN MaxTilesNumber ELSE MaxTiles
    IN  355 * (dx * dx + dy * dy) <= 113 * maxTiles

Key(j) == <<j.mAgent, j.mTile>>

\* Job::getPriority and its lexicographic operator <.
getPriority(j) == <<j.mProcessTime, j.mTryNumber, j.mChangeType,
                    j.mDistanceToPlayer, getManhattanDistance(j.mTile, Origin)>>

Less(j, k) ==
    LET p == getPriority(j)
        q == getPriority(k)
    IN  \E i \in 1..5 : p[i] < q[i] /\ \A m \in 1..(i - 1) : p[m] = q[m]

AtTheEnd(jobs, j) == {Len(jobs) + 1}                      \* mutant
\* Where std::upper_bound may stop in a queue that repost left unsorted: any
\* place where the order says "not before the left, before the right".
UpperBounds(jobs, j) ==
    { i \in 1..(Len(jobs) + 1) : /\ i > 1 => ~Less(j, jobs[i - 1])
                                 /\ i <= Len(jobs) => Less(j, jobs[i]) }

\* std::sort is not stable: any ordered permutation.
Sorted(jobs) == \A i, k \in 1..Len(jobs) : i < k => ~Less(jobs[k], jobs[i])

Reordered(jobs, p) == [i \in 1..Len(jobs) |-> jobs[p[i]]]

\* More than one thread: only then are tiles locked at all.
Parallel == \E s, t \in Threads : s # t

getTotalThreadJobs == { t \in Threads : mThreadsQueues[t].mJobs # <<>> }
OnlyCommonJobs == mJobs = <<>>                           \* mutant
NoJobsLeft == mJobs = <<>> /\ getTotalThreadJobs = {}
NothingProcessed(processing) == \A k \in Keys : processing[k] = NoThread

\* mMutex is free; "locked" and "posting" keep it between steps.
MutexFree == main # "posting" /\ \A t \in Threads : pc[t] # "locked"

\* Some thread's processJob holds a shared_ptr to the agent's cache item.
Held(a) == \E t \in Threads : /\ pc[t] \in {"readPlayerTile", "updateNavMesh", "presentTiles"}
                              /\ job[t].mAgent = a

-----------------------------------------------------------------------------
Init ==
    /\ mJobs = <<>>
    /\ mPushed = {}
    /\ mThreadsQueues = [t \in Threads |-> [mJobs |-> <<>>, mPushed |-> {}]]
    /\ mProcessingTiles = [k \in Keys |-> NoThread]
    /\ mPresentTiles = {}
    /\ mPlayerTile = Origin
    /\ mLastUpdates = [k \in Keys |-> 0]        \* 0: no entry, or the epoch
    /\ mShouldStop = FALSE
    /\ now = MinUpdateInterval + 1
    /\ pc = [t \in Threads |-> "process"]
    /\ job = [t \in Threads |-> NoJob]
    /\ recastMesh = [t \in Threads |-> NoMesh]
    /\ playerTile = [t \in Threads |-> Origin]
    /\ status = [t \in Threads |-> "ignored"]
    /\ main = "idle"
    /\ call = NoCall
    /\ waitType = "none"
    /\ posts = 0
    /\ mesh = InitialMesh
    /\ item = [a \in Agents |-> 0]
    /\ mGenerationCounter = 0
    /\ navMesh = [k \in Keys |-> [rev |-> 0, present |-> FALSE]]
    /\ posted = [k \in Keys |-> 0]
    /\ settled = [k \in Keys |-> 0]

-----------------------------------------------------------------------------
(* The background threads: process().                                      *)

\* while (!mShouldStop)
ForeverLoop(t) ==                                        \* mutant
    /\ pc[t] = "process"
    /\ pc' = [pc EXCEPT ![t] = "getNextJob"]
    /\ UNCHANGED <<sharedVars, now, job, localVars, mainVars, worldVars, history>>
Loop(t) ==
    /\ pc[t] = "process"
    /\ pc' = [pc EXCEPT ![t] = IF mShouldStop THEN "stopped" ELSE "getNextJob"]
    /\ UNCHANGED <<sharedVars, now, job, localVars, mainVars, worldVars, history>>

\* The thread has mMutex: it keeps it ("locked") or takes it now.
InGetNextJob(t) == pc[t] = "locked" \/ (pc[t] = "getNextJob" /\ MutexFree)

HasAnyJob == mJobs # <<>>                                \* mutant
HasCommonJob == mJobs # <<>> /\ Head(mJobs).mProcessTime <= now

NeverLocked(t, k) == t                                   \* mutant
\* lockTile: the key's owner, which is the caller when nobody has it.
lockTile(t, k) == IF ~Parallel \/ mProcessingTiles[k] = NoThread
                  THEN t ELSE mProcessingTiles[k]

PostThreadJobAnyway(queue, j) ==                         \* mutant
    [mJobs |-> Append(queue.mJobs, j), mPushed |-> queue.mPushed \cup {Key(j)}]
postThreadJob(queue, j) ==
    IF Key(j) \in queue.mPushed THEN queue
    ELSE [mJobs |-> Append(queue.mJobs, j), mPushed |-> queue.mPushed \cup {Key(j)}]

\* The end of getNextJob's loop body: process j, or hand it to the thread that
\* has its tile and go round again with the mutex held.
Dispatch(t, j, queues) ==
    LET owner == lockTile(t, Key(j))
    IN  /\ IF owner = t
           THEN /\ pc' = [pc EXCEPT ![t] = "processJob"]
                /\ job' = [job EXCEPT ![t] = j]
                /\ mThreadsQueues' = queues
           ELSE /\ pc' = [pc EXCEPT ![t] = "locked"]
                /\ job' = job
                /\ mThreadsQueues' = [queues EXCEPT ![owner] = postThreadJob(queues[owner], j)]
        /\ mProcessingTiles' = IF Parallel THEN [mProcessingTiles EXCEPT ![Key(j)] = owner]
                               ELSE mProcessingTiles
        /\ UNCHANGED <<mPresentTiles, mPlayerTile, mShouldStop, now, localVars, mainVars,
                       worldVars, history>>

\* getJob erases the job's key from the queue's mPushed.
StillPushed(pushed, j) == pushed                         \* mutant
Erased(pushed, j) == pushed \ {Key(j)}

\* getJob(threadQueue.mJobs, threadQueue.mPushed, false)
TakeThreadJob(t) ==
    LET queue == mThreadsQueues[t]
        j == Head(queue.mJobs)
    IN  /\ InGetNextJob(t)
        /\ queue.mJobs # <<>>
        /\ j.mProcessTime <= now
        /\ Dispatch(t, j, [mThreadsQueues EXCEPT
               ![t] = [mJobs |-> Tail(queue.mJobs), mPushed |-> Erased(queue.mPushed, j)]])
        /\ UNCHANGED <<mJobs, mPushed, mLastUpdates>>

\* getJob(mJobs, mPushed, true)
TakeJob(t) ==
    LET j == Head(mJobs)
    IN  /\ InGetNextJob(t)
        /\ mThreadsQueues[t].mJobs = <<>>
        /\ HasCommonJob
        /\ mJobs' = Tail(mJobs)
        /\ mPushed' = Erased(mPushed, j)
        /\ mLastUpdates' = IF j.mChangeType = Update
                           THEN [mLastUpdates EXCEPT ![Key(j)] = now] ELSE mLastUpdates
        /\ Dispatch(t, j, mThreadsQueues)

\* mDone.notify_all, if there is nothing left to do.
NobodyNotified == main                                   \* mutant
NotifyDone == IF NoJobsLeft /\ main = "waitDone" THEN "checkDone" ELSE main

\* mHasJob.wait_for times out: wake who waits for mDone, return nothing.
NoNextJob(t) ==
    /\ InGetNextJob(t)
    /\ mThreadsQueues[t].mJobs = <<>>
    /\ ~HasCommonJob
    /\ pc' = [pc EXCEPT ![t] = "cleanupLastUpdates"]
    /\ main' = NotifyDone
    /\ UNCHANGED <<sharedVars, now, job, localVars, call, waitType, posts, worldVars, history>>

cleanupLastUpdates(t) ==
    /\ pc[t] = "cleanupLastUpdates"
    /\ MutexFree
    /\ mLastUpdates' = [k \in Keys |-> IF now - mLastUpdates[k] > MinUpdateInterval
                                       THEN 0 ELSE mLastUpdates[k]]
    /\ pc' = [pc EXCEPT ![t] = "process"]
    /\ UNCHANGED <<mJobs, mPushed, mThreadsQueues, tileVars, mPlayerTile, mShouldStop, now, job,
                   localVars, mainVars, worldVars, history>>

\* processJob: lock the weak_ptr; read the tile's recast mesh if it is alive.
LockItem(t) ==
    /\ pc[t] = "processJob"
    /\ IF item[job[t].mAgent] = job[t].mItem
       THEN /\ pc' = [pc EXCEPT ![t] = "readPlayerTile"]
            /\ recastMesh' = [recastMesh EXCEPT ![t] = mesh[job[t].mTile]]
            /\ status' = status
       ELSE /\ pc' = [pc EXCEPT ![t] = "unlockTile"]
            /\ recastMesh' = recastMesh
            /\ status' = [status EXCEPT ![t] = "ignored"]
    /\ UNCHANGED <<sharedVars, now, job, playerTile, mainVars, worldVars, history>>

ReadPlayerTile(t) ==
    /\ pc[t] = "readPlayerTile"
    /\ pc' = [pc EXCEPT ![t] = "updateNavMesh"]
    /\ playerTile' = [playerTile EXCEPT ![t] = mPlayerTile]
    /\ UNCHANGED <<sharedVars, now, job, recastMesh, status, mainVars, worldVars, history>>

\* The revision the thread has read has been dealt with.
Settle(t) ==
    settled' = [settled EXCEPT ![Key(job[t])] =
                    IF recastMesh[t].rev > @ THEN recastMesh[t].rev ELSE @]

\* updateNavMesh returned s: take mMutex for mPresentTiles if s asks for it.
Updated(t, s) ==
    /\ status' = [status EXCEPT ![t] = s]
    /\ pc' = [pc EXCEPT ![t] = IF s \in {"ignored", "failed"} THEN "unlockTile" ELSE "presentTiles"]
    /\ UNCHANGED <<sharedVars, now, job, recastMesh, playerTile, mainVars, mesh, item,
                   mGenerationCounter, posted>>

\* Nothing to walk on, or too far from the player: NavMeshCacheItem::removeTile.
RemoveTile(t) ==
    LET k == Key(job[t])
    IN  /\ pc[t] = "updateNavMesh"
        /\ ~(recastMesh[t].solid /\ shouldAddTile(job[t].mTile, playerTile[t]))
        /\ navMesh' = [navMesh EXCEPT ![k] = [rev |-> 0, present |-> FALSE]]
        /\ Updated(t, IF navMesh[k].present THEN "removed" ELSE "ignored")
        /\ Settle(t)

MustAdd(t) == /\ pc[t] = "updateNavMesh"
              /\ recastMesh[t].solid
              /\ shouldAddTile(job[t].mTile, playerTile[t])

\* The tile the navmesh has is equal to the new one, which came from
\* NavMeshTilesCache ("cached") or was built again.
KeepTile(t) ==
    /\ MustAdd(t)
    /\ navMesh[Key(job[t])].present
    /\ \E cached \in BOOLEAN : Updated(t, IF cached THEN "cached" ELSE "ignored")
    /\ navMesh' = [navMesh EXCEPT ![Key(job[t])] = [rev |-> recastMesh[t].rev, present |-> TRUE]]
    /\ Settle(t)

\* NavMeshCacheItem::updateTile: the old tile goes, the new one needs a slot.
UpdateTile(t) ==
    LET k == Key(job[t])
        others == { u \in Tiles : u # job[t].mTile /\ navMesh[<<job[t].mAgent, u>>].present }
    IN  /\ MustAdd(t)
        /\ ~(navMesh[k].present /\ navMesh[k].rev = recastMesh[t].rev)
        /\ IF Cardinality(others) < MaxTiles
           THEN /\ navMesh' = [navMesh EXCEPT ![k] = [rev |-> recastMesh[t].rev, present |-> TRUE]]
                /\ Updated(t, "added")
                /\ Settle(t)
           ELSE /\ Updated(t, "failed")
                /\ UNCHANGED <<navMesh, settled>>

\* The locals of processJob and, unless it is to be retried, the job are gone.
EndJob(t, retry) ==
    /\ job' = IF retry THEN job ELSE [job EXCEPT ![t] = NoJob]
    /\ recastMesh' = [recastMesh EXCEPT ![t] = NoMesh]
    /\ playerTile' = [playerTile EXCEPT ![t] = Origin]
    /\ status' = [status EXCEPT ![t] = "ignored"]

\* An exception leaves processJob: process() drops the job, unlockTile is skipped.
Throw(t) ==
    /\ MayThrow
    /\ MustAdd(t)
    /\ pc' = [pc EXCEPT ![t] = "process"]
    /\ EndJob(t, FALSE)
    /\ Settle(t)
    /\ UNCHANGED <<sharedVars, now, mainVars, worldVars, posted>>

\* What becomes of mPresentTiles.
NeverErased(t) == mPresentTiles \cup {Key(job[t])}       \* mutant
PresentTiles(t) == IF status[t] = "removed" THEN mPresentTiles \ {Key(job[t])}
                   ELSE mPresentTiles \cup {Key(job[t])}

UpdatePresentTiles(t) ==
    /\ pc[t] = "presentTiles"
    /\ MutexFree
    /\ mPresentTiles' = PresentTiles(t)
    /\ pc' = [pc EXCEPT ![t] = "unlockTile"]
    /\ UNCHANGED <<queueVars, mProcessingTiles, mPlayerTile, mShouldStop, now, job, localVars,
                   mainVars, worldVars, history>>

\* unlockTile, the wake-up of who waits for mProcessed, and repost's early return.
unlockTile(t) ==
    LET k == Key(job[t])
        retry == status[t] = "failed" /\ ~mShouldStop /\ job[t].mTryNumber <= 2
    IN  /\ pc[t] = "unlockTile"
        /\ mProcessingTiles' = [mProcessingTiles EXCEPT ![k] = NoThread]
        /\ main' = IF main = "waitProcessed" /\ Parallel /\ NothingProcessed(mProcessingTiles')
                   THEN "checkProcessed" ELSE main
        /\ pc' = [pc EXCEPT ![t] = IF retry THEN "repost" ELSE "process"]
        /\ EndJob(t, retry)
        /\ IF status[t] = "failed" /\ ~retry THEN Settle(t) ELSE UNCHANGED settled
        /\ UNCHANGED <<queueVars, mPresentTiles, mPlayerTile, mShouldStop, now, call, waitType,
                       posts, worldVars, posted>>

\* A retry goes to the end of mJobs.
Retried(j) == [j EXCEPT !.mTryNumber = @ + 1]
RetryDropped(j) == mJobs                                 \* mutant
WithRetry(j) == Append(mJobs, Retried(j))

repost(t) ==
    LET j == job[t]
    IN  /\ pc[t] = "repost"
        /\ MutexFree
        /\ IF Key(j) \in mPushed
           THEN UNCHANGED <<mJobs, mPushed>>
           ELSE /\ mPushed' = mPushed \cup {Key(j)}
                /\ mJobs' = WithRetry(j)
        /\ pc' = [pc EXCEPT ![t] = "process"]
        /\ job' = [job EXCEPT ![t] = NoJob]
        /\ UNCHANGED <<mThreadsQueues, mLastUpdates, tileVars, mPlayerTile, mShouldStop, now,
                       localVars, mainVars, worldVars, history>>

Worker(t) ==
    \/ Loop(t)
    \/ TakeThreadJob(t)
    \/ TakeJob(t)
    \/ NoNextJob(t)
    \/ cleanupLastUpdates(t)
    \/ LockItem(t)
    \/ ReadPlayerTile(t)
    \/ RemoveTile(t)
    \/ KeepTile(t)
    \/ UpdateTile(t)
    \/ Throw(t)
    \/ UpdatePresentTiles(t)
    \/ unlockTile(t)
    \/ repost(t)

-----------------------------------------------------------------------------
(* The main thread, and what it changes between two calls.                 *)

\* An object, water or off-mesh connection of the tile is added, moved or removed.
ChangeMesh(u) ==
    /\ main = "idle"
    /\ mesh[u].rev < MaxRevision
    /\ \E solid \in BOOLEAN : mesh' = [mesh EXCEPT ![u] = [rev |-> @.rev + 1, solid |-> solid]]
    /\ UNCHANGED <<sharedVars, now, threadVars, mainVars, item, mGenerationCounter, navMesh,
                   history>>

\* NavMeshManager::addAgent: a new cache item with an empty navmesh.
AddAgent(a) ==
    /\ main = "idle"
    /\ item[a] = 0
    /\ mGenerationCounter < MaxGeneration
    /\ mGenerationCounter' = mGenerationCounter + 1
    /\ item' = [item EXCEPT ![a] = mGenerationCounter']
    /\ UNCHANGED <<sharedVars, now, threadVars, mainVars, mesh, navMesh, history>>

\* NavMeshManager::reset: the item dies unless a thread holds it right now;
\* jobs for it stay in the queues.
Reset(a) ==
    LET forAgent(f, none) == [k \in Keys |-> IF k[1] = a THEN none ELSE f[k]]
    IN  /\ MayReset
        /\ main = "idle"
        /\ item[a] # 0
        /\ ~Held(a)
        /\ item' = [item EXCEPT ![a] = 0]
        /\ navMesh' = forAgent(navMesh, [rev |-> 0, present |-> FALSE])
        /\ posted' = forAgent(posted, 0)
        /\ settled' = forAgent(settled, 0)
        /\ UNCHANGED <<sharedVars, now, threadVars, mainVars, mesh, mGenerationCounter>>

\* post, before it takes mMutex: store the player's tile, return if there is
\* nothing to do.
Post(a, player, changedTiles) ==
    LET moved == mPlayerTile # player
    IN  /\ main = "idle"
        /\ item[a] # 0
        /\ posts < MaxPosts
        /\ posts' = posts + 1
        /\ mPlayerTile' = player
        /\ IF moved \/ changedTiles # {}
           THEN /\ main' = "post"
                /\ call' = [agent |-> a, item |-> item[a], playerTileChanged |-> moved,
                             todo |-> changedTiles]
           ELSE UNCHANGED <<main, call>>
        /\ UNCHANGED <<queueVars, tileVars, mShouldStop, now, threadVars, waitType, worldVars,
                       history>>

\* post takes mMutex and refreshes the distances of the jobs it finds.
LockPost ==
    /\ main = "post"
    /\ MutexFree
    /\ main' = "posting"
    /\ mJobs' = IF call.playerTileChanged
                THEN [i \in 1..Len(mJobs) |-> [mJobs[i] EXCEPT
                        !.mDistanceToPlayer = getManhattanDistance(mJobs[i].mTile, mPlayerTile)]]
                ELSE mJobs
    /\ UNCHANGED <<mPushed, mThreadsQueues, mLastUpdates, tileVars, mPlayerTile, mShouldStop,
                   now, threadVars, call, waitType, posts, worldVars, history>>

processTime(u, changeType) ==
    IF changeType = Update THEN mLastUpdates[<<call.agent, u>>] + MinUpdateInterval ELSE 0

newJob(u, changeType) ==
    [mAgent |-> call.agent, mItem |-> call.item, mTile |-> u, mTryNumber |-> 0,
     mChangeType |-> changeType,
     mDistanceToPlayer |-> getManhattanDistance(u, mPlayerTile),
     mProcessTime |-> processTime(u, changeType)]

\* The loop over the map changedTiles goes in the order of its keys.
IsFirst(u, todo) == \A c \in todo : u[1] < c[1][1] \/ (u[1] = c[1][1] /\ u[2] <= c[1][2])

PostTile(u, changeType) ==
    LET k == <<call.agent, u>>
        j == newJob(u, changeType)
    IN  /\ main = "posting"
        /\ <<u, changeType>> \in call.todo
        /\ IsFirst(u, call.todo)
        /\ call' = [call EXCEPT !.todo = @ \ {<<u, changeType>>}]
        /\ posted' = [posted EXCEPT ![k] = mesh[u].rev]
        /\ IF k \in mPushed
           THEN UNCHANGED <<mJobs, mPushed>>
           ELSE /\ mPushed' = mPushed \cup {k}
                /\ IF call.playerTileChanged
                   THEN mJobs' = Append(mJobs, j)
                   ELSE \E i \in UpperBounds(mJobs, j) : mJobs' = InsertAt(mJobs, i, j)
        /\ UNCHANGED <<mThreadsQueues, mLastUpdates, tileVars, mPlayerTile, mShouldStop, now,
                       threadVars, main, waitType, posts, worldVars, settled>>

\* The end of post: sort if the player's tile has changed; mMutex is released.
EndPost ==
    /\ main = "posting"
    /\ call.todo = {}
    /\ IF call.playerTileChanged
       THEN \E p \in Bijection(1..Len(mJobs), 1..Len(mJobs)) :
               /\ Sorted(Reordered(mJobs, p))
               /\ mJobs' = Reordered(mJobs, p)
       ELSE mJobs' = mJobs
    /\ main' = "idle"
    /\ call' = NoCall
    /\ UNCHANGED <<mPushed, mThreadsQueues, mLastUpdates, tileVars, mPlayerTile, mShouldStop,
                   now, threadVars, waitType, posts, worldVars, history>>

Wait(type) ==
    /\ main = "idle"
    /\ WaitUntilMinDistanceToPlayer > 0
    /\ waitType' = type
    /\ main' = IF type = "allJobsDone" THEN "checkDone" ELSE "waitPresent"
    /\ UNCHANGED <<sharedVars, now, threadVars, call, posts, worldVars, history>>

\* Keys in some queue, and those of them the player waits for.
QueuedKeys == mPushed \cup UNION { mThreadsQueues[t].mPushed : t \in Threads }
NearNotPresent == { k \in QueuedKeys \ mPresentTiles :
                      getManhattanDistance(mPlayerTile, k[2]) < WaitUntilMinDistanceToPlayer }

\* waitUntilJobsDoneForNotPresentTiles: polled every 250 ms until isDone.
WaitPresent ==
    /\ main = "waitPresent"
    /\ MutexFree
    /\ NoJobsLeft \/ NearNotPresent = {}
    /\ main' = IF NoJobsLeft THEN "checkProcessed" ELSE "idle"
    /\ waitType' = IF NoJobsLeft THEN waitType ELSE "none"
    /\ UNCHANGED <<sharedVars, now, threadVars, call, posts, worldVars, history>>

\* mDone.wait: the predicate, evaluated with mMutex held.
CheckDone ==
    /\ main = "checkDone"
    /\ MutexFree
    /\ main' = IF NoJobsLeft THEN "checkProcessed" ELSE "waitDone"
    /\ UNCHANGED <<sharedVars, now, threadVars, call, waitType, posts, worldVars, history>>

\* mProcessingTiles.wait(mProcessed): the predicate; then wait returns.
CheckProcessed ==
    /\ main = "checkProcessed"
    /\ IF NothingProcessed(mProcessingTiles)
       THEN main' = "idle" /\ waitType' = "none"
       ELSE main' = "waitProcessed" /\ waitType' = waitType
    /\ UNCHANGED <<sharedVars, now, threadVars, call, posts, worldVars, history>>

\* A condition variable may wake up for no reason.
SpuriousWakeup ==
    /\ \/ main = "waitDone" /\ main' = "checkDone"
       \/ main = "waitProcessed" /\ main' = "checkProcessed"
    /\ UNCHANGED <<sharedVars, now, threadVars, call, waitType, posts, worldVars, history>>

\* ~AsyncNavMeshUpdater
Destroy ==
    /\ main = "idle"
    /\ mShouldStop' = TRUE
    /\ main' = "clear"
    /\ UNCHANGED <<queueVars, tileVars, mPlayerTile, now, threadVars, call, waitType, posts,
                   worldVars, history>>

ClearJobs ==
    /\ main = "clear"
    /\ MutexFree
    /\ mJobs' = <<>>
    /\ main' = "join"
    /\ UNCHANGED <<mPushed, mThreadsQueues, mLastUpdates, tileVars, mPlayerTile, mShouldStop,
                   now, threadVars, call, waitType, posts, worldVars, history>>

Join ==
    /\ main = "join"
    /\ \A t \in Threads : pc[t] = "stopped"
    /\ main' = "destroyed"
    /\ UNCHANGED <<sharedVars, now, threadVars, call, waitType, posts, worldVars, history>>

Terminated == main = "destroyed" /\ UNCHANGED vars

\* Time passes.  Only differences to now matter: it need not pass when no job is
\* delayed and no entry of mLastUpdates is recent.
Tick ==
    /\ \/ \E i \in 1..Len(mJobs) : mJobs[i].mProcessTime > now
       \/ \E k \in Keys : now - mLastUpdates[k] <= MinUpdateInterval
    /\ now' = now + 1
    /\ UNCHANGED <<sharedVars, threadVars, mainVars, worldVars, history>>

\* What the main thread may start when it is idle, and what it must finish.
MainStart ==
    \/ \E u \in Tiles : ChangeMesh(u)
    \/ \E a \in Agents : AddAgent(a) \/ Reset(a)
    \/ \E a \in Agents, arguments \in PostArguments : Post(a, arguments[1], arguments[2])
    \/ \E type \in WaitTypes \ {"none"} : Wait(type)
    \/ Destroy

MainStep ==
    \/ LockPost
    \/ \E u \in Tiles, c \in ChangeType : PostTile(u, c)
    \/ EndPost
    \/ WaitPresent
    \/ CheckDone
    \/ CheckProcessed
    \/ ClearJobs
    \/ Join

Next ==
    \/ MainStart
    \/ MainStep
    \/ SpuriousWakeup
    \/ \E t \in Threads : Worker(t)
    \/ Tick
    \/ Terminated

Spec == Init /\ [][Next]_vars

\* The threads run, a call that has started goes on, time passes; nothing makes
\* the main thread start a call, and no spurious wake-up is owed.
Fairness ==
    /\ \A t \in Threads : WF_vars(Worker(t))
    /\ WF_vars(MainStep)
    /\ WF_vars(Tick)

FairSpec == Spec /\ Fairness

-----------------------------------------------------------------------------
(* Properties.                                                             *)

\* The type invariant of the module.
TypeOK ==
    /\ mJobs \in Seq(Job)
    /\ mPushed \subseteq Keys
    /\ mThreadsQueues \in [Threads -> [mJobs : Seq(Job), mPushed : SUBSET Keys]]
    /\ mProcessingTiles \in [Keys -> Threads \cup {NoThread}]
    /\ mPresentTiles \subseteq Keys
    /\ mPlayerTile \in Tiles
    /\ mLastUpdates \in [Keys -> Nat]
    /\ mShouldStop \in BOOLEAN
    /\ now \in Nat
    /\ pc \in [Threads -> WorkerPCs]
    /\ job \in [Threads -> Job \cup {NoJob}]
    /\ recastMesh \in [Threads -> RecastMesh]
    /\ playerTile \in [Threads -> Tiles]
    /\ status \in [Threads -> Statuses]
    /\ main \in MainPCs
    /\ call \in Call \cup {NoCall}
    /\ waitType \in WaitTypes
    /\ posts \in Nat
    /\ mesh \in [Tiles -> RecastMesh]
    /\ item \in [Agents -> Nat]
    /\ mGenerationCounter \in Nat
    /\ navMesh \in [Keys -> [rev : Nat, present : BOOLEAN]]
    /\ posted \in [Keys -> Nat]
    /\ settled \in [Keys -> Nat]

-----------------------------------------------------------------------------
\* Keys of the jobs in a queue.
KeysOf(jobs) == { Key(jobs[i]) : i \in 1..Len(jobs) }
NoDuplicates(jobs) == \A i, k \in 1..Len(jobs) : Key(jobs[i]) = Key(jobs[k]) => i = k

\* mPushed is exactly the set of keys in its queue, each there once, for the
\* common queue and every thread's: getJob erases pushed.find(...) without a look,
\* and post and repost trust mPushed to say that a job is there to do the work.
\* The destructor empties mJobs only: then mPushed may hold more.
PushedMatchesJobs ==
    /\ NoDuplicates(mJobs)
    /\ KeysOf(mJobs) \subseteq mPushed
    /\ main \notin {"join", "destroyed"} => mPushed \subseteq KeysOf(mJobs)
    /\ \A t \in Threads : /\ NoDuplicates(mThreadsQueues[t].mJobs)
                          /\ KeysOf(mThreadsQueues[t].mJobs) = mThreadsQueues[t].mPushed

\* Thread t has a job whose tile it has locked.
Processing(t) == pc[t] \in {"processJob", "readPlayerTile", "updateNavMesh", "presentTiles", "unlockTile"}

\* Two threads never build the same tile of the same agent at the same time
\* (lockTile, unlockTile): the later revision would otherwise be overwritten by
\* a thread that has read an earlier one.
OneThreadPerTile ==
    \A s, t \in Threads : (s # t /\ Processing(s) /\ Processing(t)) => Key(job[s]) # Key(job[t])

\* A job handed over to the owner of its tile is due.  getNextJob relies on it:
\* with a thread job that is not due it would go round its loop for ever with
\* mMutex held, since hasJob asks only whether there is a thread job.
ThreadJobsDue ==
    \A t \in Threads : \A i \in 1..Len(mThreadsQueues[t].mJobs) :
        mThreadsQueues[t].mJobs[i].mProcessTime <= now

\* A revision of k that was posted is still going to be dealt with: by a queued
\* job, or by a thread that has yet to read the tile, has read that revision, or
\* is about to put the job back.
Pending(k) ==
    \/ k \in KeysOf(mJobs)
    \/ \E t \in Threads :
        \/ k \in KeysOf(mThreadsQueues[t].mJobs)
        \/ /\ \/ pc[t] \in {"processJob", "repost"}
              \/ pc[t] \in {"readPlayerTile", "updateNavMesh"} /\ recastMesh[t].rev >= posted[k]
              \/ pc[t] = "unlockTile" /\ status[t] = "failed"
           /\ Key(job[t]) = k

\* No call of post is lost: mPushed drops a job only when another one that has
\* yet to read the tile is there to do its work.  (Not for an agent that is
\* removed and added again: a job of the old agent stands in for the new one.)
NoLostUpdate ==
    (~mShouldStop /\ ~MayReset) => \A k \in Keys : settled[k] < posted[k] => Pending(k)

\* A job that post made for an added or removed object is never behind a job
\* that waits for its time: fresh jobs of this kind form a prefix of mJobs, also
\* when repost has left the rest unsorted (std::upper_bound needs order).
Fresh(j) == j.mTryNumber = 0 /\ j.mChangeType # Update
FreshFirst ==
    main # "posting" => \A i, k \in 1..Len(mJobs) : i < k /\ Fresh(mJobs[k]) => Fresh(mJobs[i])

\* mPresentTiles, which requiredTilesPresent waits for, says what the navmeshes
\* have, but for the keys a thread is busy with.
PresentTilesExact ==
    ~MayReset => \A k \in Keys : \/ navMesh[k].present <=> k \in mPresentTiles
                                 \/ \E t \in Threads : pc[t] = "presentTiles" /\ Key(job[t]) = k

\* What allJobsDone waits for, or requiredTilesPresent: the posted revision of
\* every tile, or of every tile near the player, has been dealt with.
AllSettled == \A k \in Keys : posted[k] <= settled[k]
NearSettled == \A k \in Keys :
    getManhattanDistance(mPlayerTile, k[2]) < WaitUntilMinDistanceToPlayer => posted[k] <= settled[k]

\* wait(allJobsDone) returns only when the tiles of all earlier posts are updated.
WaitAllJobsDone ==
    [][ waitType = "allJobsDone" /\ waitType' = "none" => AllSettled ]_vars

\* wait(requiredTilesPresent) returns only when those near the player are.  It does
\* not hold: a near tile that a thread is building is not waited for.
WaitRequiredTilesPresent ==
    [][ waitType = "requiredTilesPresent" /\ waitType' = "none" => NearSettled ]_vars

\* A call of wait returns, whatever the threads do.
WaitReturns == (waitType # "none") ~> (waitType = "none")

\* What was posted is dealt with in the end, unless the updater is destroyed.
PostedIsSettled ==
    \A k \in Keys : (posted[k] > settled[k]) ~> (posted[k] <= settled[k] \/ mShouldStop)

\* The destructor ends: no thread sleeps through mShouldStop.
DestructorEnds == (main = "clear") ~> (main = "destroyed")

=============================================================================
