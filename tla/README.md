# Formal models of ArenaMW

ArenaMW is a fork of OpenMW 0.47: a single-player engine (`apps/openmw`), a content
editor (`apps/opencs`), a few tools, and the library they share (`components`).
This directory holds TLA+ models of the parts whose correctness depends on the order
in which several actors do things: background threads, the main loop that posts work
to them and waits for them, the scripts that change the same objects meanwhile, and a
player who dies, saves, loads and earns in any order.
The rest of the program is sequential rules, file formats and graphics; it is listed
below with the reason why it is not modelled.

Every definition that models code has an entry in `PROJECT.json` ("map") with the file
and lines it stands for. Names are the source's names wherever TLA+ allows.

    tlc -workers 2 -config navmesh_live.cfg MCAsyncNavMeshUpdater.tla
    tlapm AsyncNavMeshUpdater_proofs.tla

## 1. Inventory

### 1.1 Navigation meshes (`components/detournavigator`)

| part | state | operations | talks to |
|---|---|---|---|
| `AsyncNavMeshUpdater` | `mJobs`, `mPushed`, `mThreadsQueues`, `mProcessingTiles`, `mPresentTiles`, `mPlayerTile`, `mLastUpdates`, `mShouldStop` | main thread: `post`, `wait`, destructor; threads: `getNextJob`, `processJob`, `unlockTile`, `repost`, `cleanupLastUpdates` | called by NavMeshManager, calls `updateNavMesh` |
| `NavMeshCacheItem` | the tiles of one agent's `dtNavMesh`, versions | `updateTile`, `removeTile`, `markAsEmpty` | under a `GuardedNavMeshCacheItem` lock, by every thread |
| `NavMeshTilesCache` | LRU lists, use counts, size | `get`, `set`, release of items | shared by the threads |
| `NavMeshManager` | agents' cache items, `mGenerationCounter`, last player tile and revision, changed tiles | `addAgent`, `reset`, `addObject`/..., `update`, `wait` | main thread only; posts jobs |
| `TileCachedRecastMeshManager` | recast meshes by tile, object to tiles | add, update, remove objects and water, `getMesh` | written by the main thread, read by the threads |

Hard: jobs of one tile taken by two threads, retries and delayed updates in one sorted
queue, a wait that looks at three places without one lock, agents removed while their
jobs are queued, exceptions. Correct means: no posted change is forgotten, no two
threads build one tile, `wait` waits, the destructor ends.

### 1.2 Physics (`apps/openmw/mwphysics`)

| part | state | operations | talks to |
|---|---|---|---|
| `PhysicsTaskScheduler` | frame data of the actors, `mRemainingSteps`, `mNextJob`, `mNumJobs`, `mNewFrame`, `mQuit`, the set `mUpdateAabb`, the line-of-sight cache | main thread: `moveActors`, `resetSimulation`, `updateSingleAabb`, `getLineOfSight`, destructor; workers: `worker` | main loop once per frame; workers run while the frame is rendered and scripts run |
| `Misc::Barrier` | rendezvous count, generation | `wait(callback)` | three of them join the workers |
| `Actor`, `Object`, `Projectile` | position, previous and simulated position, offsets, pending transforms | `updatePosition`, `adjustPosition`, `setPosition`, `commitPositionChange` | scripts and World (main thread), workers |

Hard: a mutex held shared by the workers for whole frames and taken exclusively by the
main thread; callbacks run by the last thread at a barrier; weak pointers to actors that
the main thread deletes; positions written by scripts and workers. Correct means: every
live actor is moved once per step by one worker, bounding boxes are up to date before
anything moves, a frame that is collected has been simulated, scripted moves survive.

### 1.3 Other concurrent parts

| part | state | operations | hard |
|---|---|---|---|
| `SceneUtil::WorkQueue`, `WorkItem` (`components/sceneutil/workqueue.cpp`) | queue, `mIsReleased`, `mDone`, abort flags | add, remove, `signalDone`, `waitTillDone`, destructor | items dropped by the destructor, an item someone waits for |
| `CellPreloader` (`mwworld/cellpreloader.cpp`) | preload entries with time stamps, terrain item, min and max size | `preload`, `notifyLoaded`, `clear`, `updateCache`, `abortTerrainPreloadExcept`, `syncTerrainLoad` | eviction while the item runs, abort and restart, views older than the world |
| `UnrefQueue` | objects to release in the background | `push`, `flush` | flush while the last one runs |
| OpenCS `Operation`, `OperationHolder`, `Saving`, `Document`, `Runner`, `ViewManager` (`opencs/model/doc`, `opencs/view/doc`) | stages, current stage and step, error state, running, undo stack and dirty flag, files on the disk, watchers, message boxes | start, abort, `executeStage`, done; save, run, verify, close | queued signals between two threads, abort racing start, stages that must run after a failure, a save that ends while the user is asked about it |
| OpenCS `Loader`, `DocumentManager` (`opencs/model/doc`) | documents to load, stages of each | load, abort loading | a wake-up lost between two threads |
| `OpenAL_Output` streaming thread (`mwsound`) | list of streams | add, remove, update | a stream removed while it is updated |

### 1.4 Sequential parts with state worth a model

| part | state | correct means |
|---|---|---|
| `AiSequence` (`mwmechanics`) | stack of packages, repeat, last | combat, pursue and follow stack and unwind in order; an ended package is never executed |
| `XPLeveling` (`mwmechanics/xpleveling.cpp`), with `engine.cpp` and `npcstats.cpp` | level, experience, skill points, what was rewarded; a recovery in static variables; the respawn timer | nothing is paid twice, points add up, penalties only take, a dead player comes back |
| Journal, quests (`mwdialogue`) | entries, quest index and finished | index follows entries, an entry is added once |
| `StateManager`, `Character` (`mwstate`) | state of the program, characters and slots | a failed save or load leaves what was there, or says so |
| `CellStore` moved references (`mwworld`) | moved-to and moved-here maps | a reference is in one cell, whatever the order of moves |
| `InventoryStore` (`mwworld`) | slots, selection, pending effects | slots point to items of the store |
| OpenCS records and undo commands (`opencs/model/world`) | base, modified, state | undo restores |
| GUI mode stack (`mwgui`) | stack of modes | modes pop in order |

### 1.5 Not modelled

Rendering, animation, terrain and particle code (`mwrender`, `sceneutil`, `nifosg`,
`terrain`, `shader`): results are pictures built through OpenSceneGraph. Readers and
writers of formats (`esm`, `bsa`, `nif`, `vfs`, `files`, `settings`, `to_utf8`): pure
functions of bytes. Path search, movement solver and shapes: floating point geometry.
User interface (`mwgui`, `mwinput`, `opencs/view`, launcher, wizard): widget code.
Command line tools: sequential. `extern`, build files, documents: not the program.

## 2. Plan

The order is that of the damage a wrong interleaving does. The first seven blocks are done.

| module | composes | status |
|---|---|---|
| `AsyncNavMeshUpdater` | | written, checked; all safety properties proved |
| `Barrier` | | written, proved |
| `PhysicsTaskScheduler` | three instances of `Barrier` | written, checked; all safety properties proved, implements `Barrier` (proved) |
| `ActorPosition` | | written, checked, its three properties proved |
| `WorkItems`, `WorkQueue`, `CellPreloader` | `CellPreloader` on top of `WorkQueue`, which implements `WorkItems` | written, checked; all safety properties and both refinements proved |
| `Task`, `Operation`, `Saving` (OpenCS documents) | the stages of `Saving` run by `Operation`, which implements `Task` | written, checked; all safety properties and both refinements proved |
| `XPLeveling` | | written, checked; all safety properties proved |
| `Loader` (OpenCS) | its own thread, `Task`-like | next |
| `NavMeshTilesCache`, `NavMeshManager` | posts to `AsyncNavMeshUpdater` | next |
| `AiSequence`, `StateManager`, `CellStore` | | sequential, last |

Abstract specifications: `WorkItems` (an item is begun in the order of the queue, worked on
once, and whoever waits for it goes on when it is done), `Task` (an operation is idle, running
or ended, and one end is reported for each run) and `Barrier`. Worth stating with the modules
that are left: a tile cache is a map that forgets only what nobody uses; a moved reference is
in one cell.

Every invariant and every action property of the passing runs is a theorem (section 6); what is
left to the model checker is liveness. The theorems that come next are those of the next
modules: that `Loader` implements its `Task`, and that the tile cache forgets only what nobody
uses.

## 3. How the models are cut

* **One state per place where another thread can interfere.** A critical section is one
  step, its condition being that the mutex is free. Only where the code keeps a mutex
  through a loop (`getNextJob`, `post`) does the model keep it between steps ("locked",
  "posting"; `MutexFree`).
* **Condition variables.** `wait` is three places: the predicate is evaluated, the thread
  sleeps, it has been woken and needs the mutex again. `notify_all` moves sleepers to the
  third place; spurious wake-ups are an action of their own. A timed wait whose time-out
  only leads round the loop again (`mHasJob.wait_for` in `getNextJob`, the poll of
  `waitUntilJobsDoneForNotPresentTiles`) is a step that may be taken whenever its
  predicate allows.
* **Time.** `now` counts ticks. `Tick` is enabled only while some job is delayed or some
  entry of `mLastUpdates` is recent: only differences to `now` are ever looked at.
* **Data.** A recast mesh is a revision and whether there is ground; a position is the set
  of scripted changes it reflects; frame data is a sequence of actors in any order;
  a transform is clean, changed since the last frame, or changed before it.
  A view of the terrain is whether it was created after the last change of the references;
  a file is the set of versions of the document written into it, and whether it was closed.
* **History variables** (`posted`, `settled`; `steps`, `done`, `moved`, `fell`, `fresh`;
  `racy`, `recent`; `excused`; `foreign` and the ghosts of `player`) are read by no guard.
* **Mutants.** A definition whose comment says "mutant" or "seeded change" is used by nothing:
  it is the definition next to it with a plausible bug, kept to show that a property notices.
* **Integers** do not overflow at the sizes that occur; there is no arithmetic modulo 2^w.

### 3.1 `AsyncNavMeshUpdater`

| code | model |
|---|---|
| `process` | `Loop`, then the chain below, then `unlockTile`, `repost` or `Throw` |
| `getNextJob` | `TakeThreadJob`, `TakeJob`, `NoNextJob`; with `Dispatch` for `lockTile` and `postThreadJob` |
| `cleanupLastUpdates` | `cleanupLastUpdates` |
| `processJob` | `LockItem` (weak pointer, recast mesh), `ReadPlayerTile`, one of `RemoveTile`, `KeepTile`, `UpdateTile`, then `UpdatePresentTiles` |
| `post` | `Post` (before the mutex), `LockPost`, `PostTile` for each tile, `EndPost` |
| `wait` | `Wait`, then `WaitPresent`, or `CheckDone`; then `CheckProcessed` |
| destructor | `Destroy`, `ClearJobs`, `Join` |
| `NavMeshManager::addAgent`, `reset`, changes of the world | `AddAgent`, `Reset`, `ChangeMesh` |

`std::upper_bound` on a queue that `repost` left unsorted may stop at any place that is
consistent with its neighbours, and `std::sort` may return any ordered permutation.
`MaxTilesNumber`, `MaxTiles` and `shouldAddTile` are exact, so that a tile may be refused for
want of a slot as in the code. The time of an entry of `mLastUpdates` that is not there is 0,
as `processTime` computes.

### 3.2 `PhysicsTaskScheduler` and `Barrier`

`Barrier` is `Misc::Barrier::wait` cut where its mutex is released: `Arrive`, `Open` (the
last thread, with its callback) and `Leave`. The scheduler has three of them, `PreStep`,
`PostStep` and `PostSim`, and adds the callback to `Open`: `afterPreStep`, `afterPostStep`,
`afterPostSim`.

`mSimulationMutex` is held shared by a worker wherever it is, except at "start", "waiting",
"woken" and "stopped" (`HoldsShared`). The main thread takes it exclusively in `moveActors`,
`resetSimulation` and `~PhysicsTaskScheduler`: what it does with it is one step, since
nobody else can look. `notify_all` comes after the mutex has been released and is a step of
its own. `WriterPreferring` says which of the two admissible behaviours
`std::shared_mutex` has. `job = mNextJob.fetch_add(1)` and the comparison with `mNumJobs`
are one step (`ClaimMove`, `ClaimFall`), moving the actor or handling its fall another.

Without background threads (`mNumThreads = 0`) nothing runs concurrently; that case is in
`ActorPosition` (`syncComputation`) only.

### 3.3 `ActorPosition`

One actor, the workers as one (another worker never touches the same actor, which is
`MovedOncePerStep`): `setPosition`, `readPosition`, `collide` are the steps of
`updateActorsPositions` where `mPositionMutex` or `mCollisionWorldMutex` is released.
Scripts are `moveObjectBy` (an offset) and `moveObject` (a teleport, with or without a change
of cell, followed by `updateSingleAabb`). `moveActors` here is what
`PhysicsTaskScheduler::moveActors` does to one actor.

### 3.4 `WorkQueue` and `CellPreloader`

`WorkQueue` has the threads (`removeWorkItem`, `doWork`, `signalDone`, `NotifyAll`), cut
between setting `mDone` and `notify_all`, since `signalDone` notifies after it has released
the mutex; and the main thread (`addWorkItem`, `waitTillDone`, `CheckDone`, `Release`). An
item is one of `Item` while somebody refers to it, and stands for a new one after that.

`CellPreloader` adds what the main thread does with the queue and what the items are. `main`
is the place of the main thread: a frame goes "idle", `updateCache` ("views"), `updateViews`
("preload"), any number of `preload` and one `preloadTerrainPositions` ("flush"), `flush`
("idle"); between frames come `notifyLoaded`, `clear`, `reloadTerrain`, `preloadTerrain` with
its wait and its loop (`loadTerrain`, `syncTerrainLoad`), and once `destroy` and what follows.

| code | model |
|---|---|
| `CellPreloader::preload`, `notifyLoaded`, `clear`, `updateCache` | the actions of these names; `updateViews` is the second half of the last |
| `setTerrainPreloadPositions`, `storeViews`, `contains` | operators of these names, `Positioned`, `Starts`, `Refuses` |
| `abortTerrainPreloadExcept` | `Spared`, `Await` |
| `Scene::preloadTerrain`, `syncTerrainLoad` | `preloadTerrain`, `loadTerrain`, `syncTerrainLoad` |
| `RenderingManager`: `pagingUnlockCache`, `reloadTerrain` | `unlocked`, `reloadTerrain` |
| `UnrefQueue::push`, `flush`, `UnrefWorkItem` | `Pushed`, `flush`, `doWork` |
| `~CellPreloader`, `~WorkQueue` | `destroy`, `destroyTerrain`, `destroyCells`, `destroyQueue`, `join` |

`MCCellPreloader!InsideAndOutside` has two kinds of place: inside, cells behind doors are
preloaded and two seconds pass per frame (so that what is cached may be evicted and expire);
outside, terrain at one position or two. An item that is not told to abort does all its work.
Views that were stored do not expire in the model.

Positions are compared in two ways, which are two relations of `Position`: `contains` takes for
the `Same` what is closer than a unit, `abortTerrainPreloadExcept` spares what is `Near`, closer
than `REAL_SIZE`, both on one grid. Neither need be transitive; the proofs use that they are
reflexive and that one is within the other. `call.near` remembers that the position of
`preloadTerrain` was refused for a load that ran.

### 3.5 `Operation` and `Saving`

`Operation` is the thread with its event loop: `run`, `executeStage`, `operationDone`, the slot
`Abort`, `Leave`; and the GUI thread's `start`, `abort`, `doneSlot`. Posted signals are
`aborts` and `dones`. `Saving` gives it the five stages of a save: the project file, opening
the temporary file, writing (the stages that write records being one of two steps), closing,
and the final stage. That one removes the old file and renames the new one in two steps
(`RemoveContent`, `RenameTmp`), as the disk sees them. Around it is the document with its undo
stack, `mDirty` and views (`Edit`, `Save`, `abortOperation`, `verify`, `modificationStateChanged`,
`operationDone2`), the runner (`startRunning`, `stopRunning`, `saveDone` of the watchers) and
the two boxes of `ViewManager` (`notifySaveOnClose`, `Answer...`, and `onExitWarningHandler` in
`stateChangedWhen`).

A view shows the state it was last told (`shown`), and menu entries follow that; the document
itself checks `mRunning`. `excused` records two things that make an exception: an edit while an
aborted save still runs, and a final stage that fails.

### 3.6 `XPLeveling`

One player, one skill with its attribute, one quest, one book. `Rewards` has one action per
caller of `awardX`; `Bank` is the loop that turns experience into levels. `Frame` is the part
of a frame of `engine.cpp` that deals with a dead player, one unit of time; `finishDeathRecovery`
the same for a living one. A saved game is the player, without the recovery, whose state is
static in `xpleveling.cpp` (`sDeathRecovery`). Experience is in whole units, attribute progress in quarters. The
chance of a travel reward is a choice; failed rolls count as rolls. Saved games are made only
`Early`, which bounds them.

`Increment`, `Requirement` and `Threshold` are the loop of `xpRequirementForLevel`, one value
for each level of the curve. What was paid for skill points is counted, not computed along
the way: `DuePoints` has one pair for each skill point due for a bought point of skill, at the price
that the header and the changelog promise (`Weight`), so `PricedByClass` compares two
independent accounts. It is checked and proved of Major skills (`PointsAccounted`), and is wrong
of the others (section 5). `Importance` is a constant, since a game keeps its class. `Excused` names the two cases of section
5 in which a recovery gives experience back; everything else that penalises is held to
`PenaltiesOnlyTake`, jail at every level.

## 4. Runs

    tlc -workers 2 -config navmesh_agents.cfg MCAsyncNavMeshUpdater.tla
    tlc -workers 2 -config physics_frames.cfg MCPhysicsTaskScheduler.tla
    tlc -workers 2 -config actor_position.cfg ActorPosition.tla
    tlc -workers 2 -config preload.cfg MCCellPreloader.tla
    tlc -workers 2 -config opencs_save.cfg Saving.tla
    tlc -workers 2 -config xp_leveling.cfg XPLeveling.tla

| run | module | shows |
|---|---|---|
| `navmesh_agents` | `MCAsyncNavMeshUpdater` | two threads, one tile, an agent that is removed and added again with jobs left, exceptions: queues and `mPushed` agree (`PushedMatchesJobs`), a tile is built by one thread (`OneThreadPerTile`), what is handed over is due (`ThreadJobsDue`) |
| `navmesh_retry` | | three tiles, two slots, a walking player, delayed updates, retries: `TypeOK`, `NoLostUpdate`, `FreshFirst`, `PresentTilesExact` |
| `navmesh_live` | | under fairness: `WaitReturns`, `PostedIsSettled`, `DestructorEnds`; `WaitAllJobsDone` with two threads and no exception |
| `navmesh_wait_one_thread` | | violation, finding 1 |
| `physics_frames` | `MCPhysicsTaskScheduler` | two workers, two frames, everything the main thread may do: `MovedOncePerStep`, `FrameComplete`, `AabbsUpdatedBeforeMoves`, `LinesOfSightFresh`, `JobsInFrame`, `BarriersOpenForAll` |
| `physics_live` | | under fairness: `CallsReturn`, `FrameIsRun`, `DestructorEnds` |
| `actor_position` | `ActorPosition` | with and without workers: `QuietChangesSurvive`, `TeleportSurvivesFrame`, `CollisionObjectFollows` |
| `preload` | `MCCellPreloader` | cells and terrain asked for, evicted, aborted, awaited, rebuilt and destroyed: `PreloadedIsWhole`, `NoPartialView`, `TerrainLoaded`, `DeletedInBackground`, the refinement `ImplementsWorkItems`, and under fairness `CallsReturn` |
| `opencs_save` | `Saving` | a document edited, saved, aborted, run and closed, any stage failing: `CleanMeansSaved`, `TmpCleanedUp`, `ReplacedByWhole`, `RunsSavedContent`, the refinement `ImplementsTask`, and under fairness `DelayedRunDecided` |
| `opencs_close` | | violation, finding 2 |
| `xp_leveling` | `XPLeveling` | rewards, levels, spending, death, jail, save and load: `BankedAtOnce`, `NothingPaidTwice`, `PointsAccounted`, `PenaltiesOnlyTake`, and under fairness `Revived` |
| `xp_cooldown` | | violation, finding 3 |

Deadlock is checked in every run. A state with everything joined or closed is left by a step
that changes nothing (`Terminated` and its like). Every module states its type invariant
`TypeOK`, also where no run lists it; several are theorems or lemmas (section 6).

**Bounds, and why they are enough.**

* Navmesh. Two threads, since every guarantee is about a thread and another one; the proofs
  cover any number. One tile for the queues (all conflicts are about one key), two to tell near
  from far, three with two slots to have a tile refused, retried and accepted when another goes.
  Three posts reach an update behind an update, a retry behind a delayed update and a fresh post
  in front of both.
* Physics. Two frames of up to two steps have a second step in a frame, a frame without steps,
  and a frame after a frame, which is where barriers and `mNextJob` are used again; two actors
  make one pair for a line of sight and one actor too many or too few for two workers.
* Positions. Four scripted changes and two steps put a change before, between and after the
  parts of `updateActorsPositions`, with a teleport after an offset; the proofs cover any number.
* Preloading. Two cells and room for one make an eviction; three positions, two of
  them near each other, make terrain that covers another, terrain that is spared but does not,
  and terrain that is aborted; four items are enough for one that is being worked
  on, one that waits, one that holds references to be dropped and one that is made. One thread:
  two threads change only the order in which items end, and the theorems about the queue are
  for any number.
* Save. One change after the first version tells the old file from the new one; one abort on
  its way reaches a save that has ended or the next one; one watcher. Saves themselves are not
  bounded: the model has cycles in which a save follows an aborted, failed or overtaken one.
* Experience. Three levels can be reached, one after another or two at once (`KillXp`); the
  curve has its step and its threshold in them. One death and one load meet in either order.
  Skill 89 makes the price change at 90, where books stop teaching, too. Games are saved
  before anything was paid for (`EarlySaves`), so that no save of the run has keys; the theorems
  have no such bound, and with `EarlySaves = FALSE`, three levels of the curve and kills worth 5
  TLC checks the safety properties as well (a million states).

**Fairness.** Worker threads are run by the operating system's scheduler: weak fairness of
every worker, of the threads of the work queue and of the thread of an operation (`Work`,
`AbortSlot`: its timer and its queued signals). A call of the main thread that has started goes
on (`MainStep`, `Continue`), but nothing obliges it to start one, and no spurious wake-up is
owed. Time passes (`Tick`). The event loop of the editor delivers what was posted
(`GuiEvents`); its user owes nothing, so a message box may stay open for ever. Frames of the game
come (`Frame`) as long as the player does not stay in the main menu, which pauses it. Weak fairness
is enough although many steps need a mutex: in the navmesh updater it is not free only in
"locked" and "posting", which end after finitely many steps and are entered finitely often (a
job is handed over once, posts are bounded), and `mSimulationMutex` becomes and stays free for
the main thread when the workers have finished their frame. A real `std::shared_mutex` may
starve a writer; no liveness property here depends on it being preferred.

## 5. Findings

1. `navmesh_wait_one_thread`. With one thread (the default) `lockTile` keeps no locks, so
   `waitUntilAllJobsDone` finds `mProcessingTiles` empty and `wait` returns while the last
   tile is being built.
2. `opencs_close`. Closing a modified document and answering "Save", or "Wait" during a save,
   exits the application when the save is no longer running, also when it has failed: the
   changes are lost. `onExitWarningHandler` (`viewmanager.cpp:396`) does not ask how it ended.
3. `xp_cooldown`. README.md, `xpleveling.hpp` and the settings say that who dies with experience
   loses it instead of waiting longer. The delay is computed every frame after that frame has
   drained experience, so that from the moment all of it is gone the level counts, and the
   longer delay is waited for as well.

Seen while modelling, without a run of their own. Where constants are named, TLC shows it
with them.

Navmesh:

* An exception in `processJob` skips `unlockTile`: the tile stays locked and `wait` does not
  return (two threads, `MayThrow = TRUE`, `WaitReturns`).
* `wait(requiredTilesPresent)` counts queued tiles near the player only: it returns while the
  tile under the player is being built if a far tile is queued (two tiles, one thread,
  `WaitRequiredTilesPresent`).
* With two threads, a failed tile is neither queued nor locked between `unlockTile` and
  `repost`; `wait` may return there. `navmesh_live` has no tile that fails.
* `repost` appends: the retry of an added object's tile waits behind delayed updates.
  `FreshFirst` is about first tries for that reason.
* An agent that is removed and added again while a job of the old one is queued: its first
  post of that tile is dropped (the key is in `mPushed`), the old job is ignored (its weak
  pointer is dead). `NoLostUpdate` is stated without resets (`~MayReset`).
* `mPresentTiles` keeps entries of removed agents (`PresentTilesExact`, likewise).

Physics:

* `moveActors` takes for granted that the workers have had `mSimulationMutex` since the last
  call. If none has woken, the frame is collected as it was posted and replaced: its movement
  is lost (`NoFrameLost`).
* Where `std::shared_mutex` lets no new reader pass a waiting writer, a worker that wakes late
  cannot join the barrier at which another sleeps with the mutex shared, while `moveActors`
  waits for that one (`WriterPreferring = TRUE`, `CallsReturn`). With glibc's default, which
  prefers readers, this does not happen: `physics_live`.
* `Actor::setPosition` applies an offset registered during the simulation and overwrites the
  result in the next line (`ScriptedChangesSurvive`).
* A scheduler destroyed before all workers have started may leave one of them alone at
  `mPreStepBarrier`: `DestructorEnds` is checked with `EarlyDestructor = FALSE`.
* `resetSimulation` of a frame that no worker has begun clears `mActorsFrameData` but not
  `mNumJobs`: workers would then read outside of it. The game resets in a call of
  `applyQueuedMovement` that follows one in an earlier frame, so it takes a worker that
  sleeps through a whole frame; `JobsInFrame` names the case (`resetEarly`).

Preloading:

* Items for the front of the queue (resource caches, references to drop) come every frame and
  may keep those at its end from being begun; a call that waits stops them, so it returns.
* `preloadTerrain(p, true)` may return without terrain of `p`: a load of a place nearby is spared
  (`cellpreloader.cpp:448`, closer than a cell), `p` is refused because that load runs (`:482`),
  and `syncTerrainLoad` is content with its views. `ViewDataMap` uses a view again within 150
  units only (`viewdata.hpp:83`), so the view of `p` may have to be built in the frame that
  needs it. `TerrainLoaded` promises no more than that for such a call (`call.near`); with
  `Same` alone TLC finds it violated in nine states.
* `preload` throws out a cell without pushing it to the `UnrefQueue`: the main thread may drop
  the last reference. `DeletedInBackground` is about the other three, where a comment
  promises it.
* A change of the paging settings calls `rebuildViews` without `reloadTerrain`
  (`renderingmanager.cpp:2353`): terrain that is being loaded is not started again. Not modelled.
* `docs/source/reference/modding/settings/cells.rst:111` says that at least the minimum number of
  cells is kept; `cellpreloader.cpp:345` lets one more go.

OpenCS:

* `abort` clears `mRunning` at once. `save` is accepted while the thread still works,
  `QThread::start` does nothing then, and the end of the old save is taken for that of the new
  one (`operationholder.cpp:48`). `CleanMeansSaved` holds all the same, because the aborted
  save leaves the document modified.
* `start` while the thread is about to leave its event loop is lost: the document stays
  "saving" (`operationholder.cpp:43`).
* An abort before the first `executeStage` is lost: `prepareStages` clears the error.
* "Close Now" deletes a `QThread` that runs (`viewmanager.cpp:355`); the temporary file stays.
  A box of a save that has ended meanwhile is closed by the handler, which counts as "Close Now",
  also when the save has failed.
* `stopRunning` leaves the `SaveWatcher`: the game starts later, when the save ends.
* `startRunning` on an unmodified document during a save starts the game while the file is
  being replaced.
* A rename that fails after the removal leaves no file under the name of the document
  (`excused`, "failedFinal"); the project file is written in place.

Experience:

* A level reached while dead gives back experience that was drained, and experience earned
  while dead is overwritten by the next frame (`Excused`).
* `sDeathRecovery` is not reset by loading a game: a recovery goes on in another player's game
  (`foreign`, `stale`).
* `applyDeathPenalty` never has anything left to take.
* The way to the shrine may roll for a travel reward.
* Jail halves the experience (`applyJailPenalty`); README.md:111, CHANGELOG.md:71 and a comment
  in `jailscreen.cpp:91` say that it is wiped.
* `xpleveling.hpp:26` ("Final class-aware price: Major x1, Minor x2, Misc x3") and
  CHANGELOG.md:56 promise a price weighted by class. The function is declared and never defined;
  `spendSkillPoints` (`xpleveling.cpp:747`) and the window (`statswindow.cpp:816`, `:861`) use the
  price without the weight, so Minor and Misc skills cost a half and a third of it. With
  `Importance = "minor"` or `"misc"` TLC finds `PricedByClass` violated by the first point spent.

Hazards of parts without a model: the wake-up that OpenCS's `Loader` may lose
(`loader.cpp:36`), a saved game that fails in the middle of being written
(`statemanagerimp.cpp:295`).

## 6. Proofs

    tlapm Barrier_proofs.tla
    tlapm PhysicsTaskScheduler_proofs.tla
    tlapm AsyncNavMeshUpdater_proofs.tla
    tlapm ActorPosition_proofs.tla
    tlapm WorkQueue_proofs.tla
    tlapm CellPreloader_proofs.tla
    tlapm Saving_proofs.tla
    tlapm XPLeveling_proofs.tla

The theorems hold for all values of the constants that satisfy the named assumptions:
`TilesAssumption`, `ThreadsAssumption`, `SettingsAssumption` (tiles are pairs of integers,
settings are naturals, nobody is called `NoThread`); `WorkersAssumption`, `SceneAssumption`
(finitely many workers, at least one; finitely many actors); `BarrierAssumption`, which is
proved of the three instances (`WorkersMeet`); `BoundsAssumption` of `ActorPosition`; 
`ItemAssumption` (the null reference is no item), a hypothesis of the theorems about
`WorkQueue` and an assumption of `CellPreloader`, with `WorldsAssumption`,
`PositionsAssumption` (what is the same is near, and each position the same as itself) and
`SettingsAssumption` there (settings are naturals; the delay of the expiry is at least the
second after which a frame looks again, since ages are capped beyond it); `BoundsAssumption`
and `FilesAssumption` of `Saving` (a file that is absent is none that is there);
`CurveAssumption`, `AmountsAssumption`, `ImportanceAssumption` and `TimesAssumption` of
`XPLeveling` (a skill is Major, Minor or Misc; the settings are
read as what they are made to be: the base of the curve positive, the rest non-negative).
`Operation` needs none. TLC evaluates all of them in the runs.

Where a theorem needs more than that it says so: `WaitsForAllJobs` assumes several threads, no
removed agent and a slot for every tile (`EnoughSlots`), as `navmesh_live` has them. None of the
three can go: with one thread finding 1 is a counterexample, with `MayReset = TRUE` TLC finds one
in the configuration of `navmesh_live`, and with a slot too few in that of `navmesh_retry`
(section 5).

| theorem | for any | argument |
|---|---|---|
| `Barrier_proofs!BarrierCorrect` | threads | `IInv`: the counter is the number of threads asleep in the current generation. Counting "who sleeps" without the generation would not be inductive: a thread that has not left the last round sleeps too. |
| `PhysicsTaskScheduler_proofs!ImplementsBarriers` | workers, actors, frames | every step of the scheduler is a step of at most one barrier, or leaves it alone (refinement) |
| `...!BarriersOpen` | | `Barrier`'s invariant, carried over by that refinement |
| `...!TypeCorrect` | | `TypeInv`: types and the barriers' invariants |
| `...!WorkersStayInFrame` | | `FrameInv`: a worker in a frame implies that the frame is not done (`PhaseInv`). The only step that ends a frame is `PostSim!Open`; by `OpenForAll` all others sleep there, and by `SleepInv` such a worker is at "postSimWait" and has no job. New data (`DataInv`) comes only when no worker holds the mutex. |
| `...!OncePerStep` | | `StageInv`: all workers are between the same two barriers; `JobInv`: no two have claimed one actor, a worker found none left only when all were claimed, and `moved` is one more for the actors that were claimed and are no longer in hand. Sums over workers are not needed: each actor has its own count. |
| `...!FramesComplete` | | the same invariant: `done + mRemainingSteps = steps`, and the last stage begins with no step left |
| `...!AabbsInTime` | | `AabbInv`: what was changed is queued, or `updateSingleAabb` follows; no worker past the first barrier coexists with a change older than the frame |
| `...!FreshLinesOfSight` | | `LosInv`: requests up to `mNextLOS` were computed for this frame; a worker at the last barrier implies that all were. With `StageInv` no request of the last frame is left. |
| `AsyncNavMeshUpdater_proofs!TypeCorrect` | agents, tiles, threads, settings | `TypeInv`: a busy thread has a job, one that is put back has tries left, `post` has arguments |
| `...!TilesExclusive` | | `LockInv`: a thread at work owns its tile in `mProcessingTiles`. The table has one owner per key, so two threads cannot be at work on one. |
| `...!PushedIsKeys` | | `QueueInv`: each of the queue operations (`Tail`, `InsertAt`, `Append`, a permutation, refreshed distances) has a lemma on the keys it leaves |
| `...!HandedOverJobsAreDue` | | the same invariant: jobs are handed over only when due, and time does not go back |
| `...!PresentTilesFollow` | | `PresentInv`, with `LockInv`: a thread about to change `mPresentTiles` has put the tile into the navmesh or removed it, as its status says, and only the owner of a key changes its tile and its entry |
| `...!FreshJobsFirst` | | `FreshInv`: fresh jobs are a prefix of `mJobs` and are due at time 0, so that wherever `upper_bound` stops no job that waits is passed by a fresh one behind it. A statement that the queue is sorted would be false after `repost`. |
| `...!NothingPostedIsLost` | | `PendingInv`: an unsettled revision has a job in a queue (`k \in mPushed`), or a thread that has yet to read it, has read it, or is about to put it back. It needs `QueueInv` (mPushed tells what is queued) and `AliveInv` (the weak pointer of every queued job can be locked, since agents stay). A failed job counts only while it has tries left or has read that revision. |
| `...!WaitsForAllJobs` | | `WaitInv`: no job fails, so once the queues were seen empty nothing is put back; then an unsettled revision can only be with a thread at work, which by `LockInv` has its key in `mProcessingTiles` |
| `ActorPosition_proofs!QuietChanges` | steps, changes | `QuietInv`: what was done while nothing was simulated is in each position of the actor, and in the result that is going to be collected unless that is skipped; a pending offset counts only while the workers are idle, since they drop one that comes later |
| `...!TeleportSurvives` | | `RecentInv`: a teleport of this frame is in the position shown next, and `mSkipSimulation` is up |
| `...!CollisionObject` | | `ColInv`: the property, also between two steps of a frame |
| `WorkQueue_proofs!ItemsOnce` | threads, items | the property with the types and what a thread has at each place: an item that is held is neither queued nor, before `signalDone`, done |
| `...!WorkQueueImplements` | | each step maps to one of `WorkItems` or to none. That who waits is never forgotten by the destructor comes from `Release` being the main thread's. |
| `CellPreloader_proofs!UsesQueue` | cells, items, threads, settings | `RefInv`: what the preloader refers to is queued, worked on or done, so that the items it makes are new ones and those it awaits are known |
| `...!PreloaderImplements` | | the two theorems about the queue, carried over by `UsesQueue` |
| `...!PreloadedWhole`, `WholeViews` | cells, settings, threads | `ItemInv`: an item that has worked did all of it or was told to abort (`WorkInv`); none that was told to abort is found under a cell (`CellInv`), and that of the terrain is replaced by the next step of the main thread (`TerrainInv`) |
| `...!TerrainIsLoaded` | | `StoredInv`: where there is no terrain item what is to be loaded was stored; `CallInv`: what is to be loaded has the position of the call, or one near it if that was refused |
| `...!DeletesInBackground` | | `KindInv`: an item that nobody refers to is no cell, with what the steps of the main thread let go of |
| `Saving_proofs!OperationImplements` | stages, failures, starts, aborts | `DoneInv`: at most one end is on its way, and while it is the thread is alive and its timer off. Without the second part a `start` could run the stages again before the end is reported. |
| `...!SavingImplements` | bounds | every step of `Saving` is one of `Operation` or leaves it alone (`StepOperates`) |
| `...!CleanSaved` | | `SavingInv`: what the files are when each stage is next (`StageInv`), that an error leads to the last stage, and that an end on its way that reports success leaves all of the current version on the disk, unless `excused`. The property alone is not inductive: a clean undo stack is set before the file is replaced. |
| `...!TmpRemoved`, `ContentReplacedByWhole`, `SavedContentRun` | | the same invariant |
| `XPLeveling_proofs!TypeCorrect` | curve, rewards, start | `BankResult`: a level that the total buys is there and inside the curve; each reward is a case of `RewardedResult`, each penalty has a lemma on what it leaves |
| `...!PaidAtMostOnce` | | `PaidInv`: everything that was paid for has its key among the player's keys, or its slot behind it, in the saved player too |
| `...!LevelsBankedAtOnce` | | `BankedInv`: also for the saved player, and for what a recovery set out from; the requirement grows with the level (`RequirementGrows`) |
| `...!PointsAddUp` | | `AccountInv`: learnt points lie between the skill at the beginning and now; a bought one of a Major skill adds its price to `DuePoints` (`DueGrows`) |
| `...!PenaltiesTakeOnly` | | `DrainInv`: what a recovery is going to set is no more than what is there, while the level is that of the death |

**Recursion.** The curve is defined by recursion on the level. That a recursive function exists
with the values its definition gives is proved (`IncrementExists`, `RequirementIs`,
`ThresholdIs`, from `RecursionExists`), and what holds of every level follows from the least
level at which it would not (`Least`, from `WFMin`; `RangeInduction`, `SetInduction`): the
induction is on a set, not on an operator, which the provers could not instantiate. That `Bank`
has a level to choose is proved in the same way (`BankLevel`).

**Only model-checked.** All liveness properties (`WaitReturns`, `PostedIsSettled`,
`DestructorEnds` of the updater; `CallsReturn`, `FrameIsRun`, `DestructorEnds` of the scheduler;
`CallsReturn` of the preloader; `DelayedRunDecided`; `Revived`): they need fairness and ENABLED,
which the proof system does not handle. Not proved nor checked: that data structures of the
standard library, Qt, OpenSceneGraph and Bullet do what they promise.

## 7. What is not modelled of the modelled parts

`AsyncNavMeshUpdater`: statistics, log, writing of debug files; `NavMeshTilesCache` is only
"may have the tile". `PhysicsTaskScheduler`: the frame budget (`calculateStepConfig` may
choose any number of steps up to the bound), debug drawing, projectiles (moved by the main
thread through the same mutexes), Bullet itself. `Actor`: rotation and scale, standing
surfaces, water and the stuck counter. `CellPreloader`: which meshes an item loads, which cells
and positions `Scene` asks for, expiry of stored views. `Saving`: undo, the contents of the
project file, what each stage writes, messages and progress, several documents; `Loader`. A
message box is answered before anything else is done. `XPLeveling`: health and luck of a level,
notifications, multipliers and chances, migration of saves from before, training, the main menu.
