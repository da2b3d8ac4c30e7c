---------------------------- MODULE CellPreloader ----------------------------
(***************************************************************************)
(* MWWorld::CellPreloader on top of WorkQueue and UnrefQueue: the main     *)
(* thread has cells and terrain near the player loaded in the background,  *)
(* throws out what is not wanted any more, hands references to be dropped  *)
(* to a background thread, and waits for the terrain when the player gets  *)
(* to where it must be.  main is where Scene, which calls all this, is.    *)
(* A work item is one of Item as long as somebody refers to it.            *)
(***************************************************************************)
EXTENDS Naturals, Sequences, FiniteSets, SequencesExt

CONSTANTS
    Item, Thread, NoItem,   \* as in WorkQueue; Item bounds the items alive at a time
    Cell,                   \* cells that may be preloaded
    Position,               \* PositionCellGrid
    Same, Near,             \* pairs of positions on one grid: closer than a unit, than REAL_SIZE
    mMinCacheSize, mMaxCacheSize, mExpiryDelay, \* settings: preload cell cache min, max, expiry delay
    Worlds                  \* what preloadCells asks for: see world

Threshold == 1              \* seconds: threshold in preload, and in updateCache
MaxAge == 1 + mExpiryDelay  \* bound: older is not told apart

ASSUME PositionsAssumption ==
    Same \subseteq Near /\ Near \subseteq Position \X Position /\ \A p \in Position : <<p, p>> \in Same
ASSUME WorldsAssumption ==
    Worlds \subseteq [cells : BOOLEAN, exteriorPositions : SUBSET Seq(Position), time : SUBSET Nat]
ASSUME SettingsAssumption ==
    mMinCacheSize \in Nat /\ mMaxCacheSize \in Nat /\ mExpiryDelay \in Nat /\ mExpiryDelay >= Threshold

VARIABLES
    mQueue, mIsReleased, mDone, pc, item, awaited, asleep, \* WorkQueue
    world,            \* the player's surroundings: whether cells are preloaded, which
                      \* terrain, and how much later a frame may be than the last
    main, call,       \* the main thread; the arguments of preloadTerrain, and whether its
                      \* position was refused because terrain near it was being loaded
    mPreloadCells,    \* of each cell: its item and the age of its time stamp
    terrain,          \* mTerrainPreloadPositions, mTerrainViews, mTerrainPreloadItem
    mUpdateCacheItem, sinceUpdate, \* the item and the age of mLastResourceCacheUpdate
    mUnref, mObjects, \* UnrefQueue: objects pushed; objects of the items it has flushed
    info,             \* of each item: its kind, mAbort, whether all its work was done;
                      \* mPreloadPositions and mTerrainViews of one that loads terrain
    stored            \* the views stored in ViewDataMap since the last rebuildViews

queueVars == <<mQueue, mIsReleased, mDone, pc, item, awaited, asleep>>
sceneVars == <<world, call>>
unrefVars == <<mUnref, mObjects>>
updateVars == <<mUpdateCacheItem, sinceUpdate>>
terrainVars == <<terrain, stored>>
vars == <<queueVars, sceneVars, main, mPreloadCells, terrainVars, updateVars, unrefVars, info>>

Queue == INSTANCE WorkQueue

ASSUME ItemsAssumption == Queue!ItemAssumption

Called(p, s, near) == [position |-> p, sync |-> s, near |-> near]
NoCall == Called("none", FALSE, FALSE)
Absent == [item |-> NoItem, age |-> 0]
Nobody == [kind |-> "none", mAbort |-> FALSE, whole |-> FALSE, positions |-> <<>>, views |-> <<>>]
NewItem(kind) == [Nobody EXCEPT !.kind = kind]
TerrainItem(ps, vs) == [NewItem("terrain") EXCEPT !.positions = ps, !.views = vs]

Init ==
    /\ Queue!Init
    /\ world \in Worlds
    /\ main = "idle"
    /\ call = NoCall
    /\ mPreloadCells = [c \in Cell |-> Absent]
    /\ terrain = [positions |-> <<>>, views |-> <<>>, item |-> NoItem]
    /\ mUpdateCacheItem = NoItem
    /\ sinceUpdate = 0
    /\ mUnref = {}
    /\ mObjects = [i \in Item |-> {}]
    /\ info = [i \in Item |-> Nobody]
    /\ stored = {}

-----------------------------------------------------------------------------
(* Items and references.                                                   *)

Cached == { c \in Cell : mPreloadCells[c].item # NoItem }

Referenced ==
    Queue!Known \cup { mPreloadCells[c].item : c \in Cell } \cup {terrain.item, mUpdateCacheItem}
        \cup mUnref \cup UNION { mObjects[i] : i \in Queue!Known }

Unused == Item \ Referenced
Fresh == CHOOSE i \in Unused : TRUE

\* Items that nobody refers to after this step are deleted.
Freed(next) == [i \in Item |-> IF i \in Referenced' THEN next[i] ELSE Nobody]

Aborted(items) == [i \in Item |-> IF i \in items THEN [info[i] EXCEPT !.mAbort = TRUE] ELSE info[i]]

Busy(i) == i # NoItem /\ i \notin mDone

\* The main thread is at this place and not in waitTillDone.
At(place) == main = place /\ awaited = NoItem

-----------------------------------------------------------------------------
(* Cells: preload, notifyLoaded, clear, updateCache.                       *)

Full == Cardinality(Cached) >= mMaxCacheSize

\* The cell preload throws out when there is no room: the oldest, if it is old enough.
\* (The cache is never larger than its maximum: the loop runs once at most.)
ThrownOut(gone) ==
    IF Full
    THEN \E c \in Cached :
            /\ \A d \in Cached : mPreloadCells[d].age <= mPreloadCells[c].age
            /\ mPreloadCells[c].age > Threshold
            /\ gone = {c}
    ELSE gone = {}

ItemsOf(cells) == { mPreloadCells[c].item : c \in cells }
WithoutNone(cells) == mPreloadCells                       \* mutant
Without(cells) == [c \in Cell |-> IF c \in cells THEN Absent ELSE mPreloadCells[c]]
AbortEvicted(items) == items

preload(c) ==
    /\ At("preload")
    /\ world.cells
    /\ UNCHANGED <<sceneVars, main, terrainVars, updateVars, unrefVars>>
    /\ IF c \in Cached
       THEN /\ mPreloadCells' = [mPreloadCells EXCEPT ![c].age = 0]
            /\ UNCHANGED <<queueVars, info>>
       ELSE \E gone \in SUBSET Cached :
            /\ ThrownOut(gone)
            /\ Unused # {}
            /\ mPreloadCells' = [Without(gone) EXCEPT ![c] = [item |-> Fresh, age |-> 0]]
            /\ Queue!addWorkItem(Fresh, FALSE)
            /\ info' = Freed([Aborted(AbortEvicted(ItemsOf(gone))) EXCEPT ![Fresh] = NewItem("cell")])

\* abort, push to the UnrefQueue, erase.
PushedNone(items) == {}                                   \* mutant
Pushed(items) == items
Drop(cells) ==
    /\ mUnref' = mUnref \cup Pushed(ItemsOf(cells))
    /\ mPreloadCells' = Without(cells)

notifyLoaded(c) ==
    /\ At("idle")
    /\ c \in Cached
    /\ Drop({c})
    /\ UNCHANGED <<queueVars, sceneVars, main, terrainVars, updateVars, mObjects>>
    /\ info' = Freed(Aborted(ItemsOf({c})))

clear ==
    /\ At("idle")
    /\ Cached # {}
    /\ Drop(Cached)
    /\ UNCHANGED <<queueVars, sceneVars, main, terrainVars, updateVars, mObjects>>
    /\ info' = Freed(Aborted(ItemsOf(Cached)))

Older(age, dt) == IF age + dt > MaxAge THEN MaxAge ELSE age + dt
SinceUpdate(dt) == IF sinceUpdate + dt > Threshold THEN Threshold + 1 ELSE sinceUpdate + dt

\* The map is sorted by address: any of the expired cells may come first.  One
\* more goes as long as there are mMinCacheSize cells.
Expired(cells, dt) ==
    LET old == { c \in Cached : Older(mPreloadCells[c].age, dt) > mExpiryDelay }
        mayGo == IF Cardinality(Cached) >= mMinCacheSize THEN Cardinality(Cached) - mMinCacheSize + 1 ELSE 0
    IN  /\ cells \subseteq old
        /\ Cardinality(cells) = IF Cardinality(old) < mayGo THEN Cardinality(old) ELSE mayGo

\* The start of a frame, dt after the last: Scene::update calls updateCache.
updateCache(dt) ==
    /\ At("idle")
    /\ \E gone \in SUBSET Cached :
        /\ Expired(gone, dt)
        /\ mUnref' = mUnref \cup Pushed(ItemsOf(gone))
        /\ mPreloadCells' = [c \in Cell |->
               IF c \in gone \/ c \notin Cached THEN Absent
               ELSE [mPreloadCells[c] EXCEPT !.age = Older(@, dt)]]
        /\ UNCHANGED <<sceneVars, terrainVars, mObjects>>
        /\ IF SinceUpdate(dt) > Threshold /\ ~Busy(mUpdateCacheItem)
           THEN /\ Unused # {}
                /\ Queue!addWorkItem(Fresh, TRUE)
                /\ mUpdateCacheItem' = Fresh
                /\ sinceUpdate' = 0
                /\ info' = Freed([Aborted(ItemsOf(gone)) EXCEPT ![Fresh] = NewItem("update")])
           ELSE /\ sinceUpdate' = SinceUpdate(dt)
                /\ UNCHANGED <<queueVars, mUpdateCacheItem>>
                /\ info' = Freed(Aborted(ItemsOf(gone)))
    /\ main' = "views"

-----------------------------------------------------------------------------
(* Terrain.  A view is TRUE if it was created since the last rebuildViews. *)

Within(relation, p, positions) == \E q \in ToSet(positions) : <<p, q>> \in relation

ContainsNear(container, contained) == \A p \in ToSet(contained) : Within(Near, p, container) \* mutant
contains(container, contained) == \A p \in ToSet(contained) : Within(Same, p, container)

Resized(views, n) == [k \in 1..n |-> IF k <= Len(views) THEN views[k] ELSE TRUE]

\* setTerrainPreloadPositions(ps) called in state s, without its new item.
IsBusy(s) == Busy(s.item)
Positioned(s, ps) ==
    IF ps # <<>> /\ contains(s.positions, ps) THEN s
    ELSE IF IsBusy(s) THEN [s EXCEPT !.positions = IF ps = <<>> THEN <<>> ELSE @]
    ELSE [s EXCEPT !.positions = ps, !.views = Resized(@, Len(ps))]

Starts(s, ps) == ps # <<>> /\ ~contains(s.positions, ps) /\ ~IsBusy(s)
Refuses(s, ps) == ~contains(s.positions, ps) /\ IsBusy(s)

\* The views that setTerrainPreloadPositions pushes to the UnrefQueue.
ViewsDropped(s) == IF Len(s.views) < Len(terrain.views) THEN {"view"} ELSE {}

setTerrainPreloadPositions(s, ps) ==
    /\ mUnref' = mUnref \cup ViewsDropped(s) \cup ViewsDropped(Positioned(s, ps))
    /\ UNCHANGED <<mPreloadCells, updateVars, mObjects>>
    /\ IF Starts(s, ps)
       THEN /\ Unused # {}
            /\ terrain' = [Positioned(s, ps) EXCEPT !.item = Fresh]
            /\ Queue!addWorkItem(Fresh, FALSE)
            /\ info' = Freed([info EXCEPT ![Fresh] = TerrainItem(ps, Positioned(s, ps).views)])
       ELSE /\ terrain' = Positioned(s, ps)
            /\ UNCHANGED queueVars
            /\ info' = Freed(info)

\* storeViews(i) stores up to the first view that is older than the last rebuild.
StoresAll(i) == \A k \in DOMAIN info[i].views : info[i].views[k]
storeViews(i) ==
    stored' = stored \cup
        { [position |-> info[i].positions[k], whole |-> info[i].whole] :
            k \in { n \in DOMAIN info[i].views : \A m \in 1..n : info[i].views[m] } }

\* The rest of updateCache.
updateViews ==
    /\ At("views")
    /\ main' = "preload"
    /\ UNCHANGED <<queueVars, sceneVars, mPreloadCells, updateVars, mObjects>>
    /\ IF terrain.item # NoItem /\ ~Busy(terrain.item)
       THEN LET left == IF StoresAll(terrain.item) THEN terrain ELSE Positioned(terrain, <<>>)
            IN  /\ storeViews(terrain.item)
                /\ mUnref' = mUnref \cup ViewsDropped(left)
                /\ terrain' = [left EXCEPT !.item = NoItem]
       ELSE UNCHANGED <<terrainVars, mUnref>>
    /\ info' = Freed(info)

\* The end of preloadCells: setTerrainPreloadPositions.
preloadTerrainPositions(ps) ==
    /\ At("preload")
    /\ main' = "flush"
    /\ UNCHANGED <<sceneVars, stored>>
    /\ setTerrainPreloadPositions(terrain, ps)

\* RenderingManager::update: UnrefQueue::flush, to the front of the queue.
flush ==
    /\ At("flush")
    /\ main' = "idle"
    /\ UNCHANGED <<sceneVars, mPreloadCells, terrainVars, updateVars>>
    /\ IF mUnref = {} THEN UNCHANGED <<queueVars, unrefVars, info>>
       ELSE /\ Unused # {}
            /\ Queue!addWorkItem(Fresh, TRUE)
            /\ mObjects' = [mObjects EXCEPT ![Fresh] = mUnref]
            /\ mUnref' = {}
            /\ info' = Freed([info EXCEPT ![Fresh] = NewItem("unref")])

\* ViewDataMap::rebuildViews: all views are older than the world now.
Old(views) == [k \in DOMAIN views |-> FALSE]
OldInfo == [i \in Item |-> [info[i] EXCEPT !.views = Old(@)]]

\* A reference that is paged is enabled or disabled: rebuildViews and reloadTerrain.
reloadTerrain ==
    /\ At("idle")
    /\ stored' = {}
    /\ terrain' = Positioned([terrain EXCEPT !.views = Old(@)], <<>>)
    /\ mUnref' = mUnref \cup ViewsDropped(terrain')
    /\ UNCHANGED <<queueVars, sceneVars, main, mPreloadCells, updateVars, mObjects>>
    /\ info' = Freed(OldInfo)

\* abortTerrainPreloadExcept(p), or (nullptr) if unlocked: terrain near p goes on, be it
\* being loaded or not, any other load is told to abort and awaited.
Spared(p, unlocked) == Within(Near, p, terrain.positions) /\ ~unlocked
AwaitNone(i) == UNCHANGED queueVars                       \* mutant
Await(i) == IF Busy(i) THEN Queue!waitTillDone(i) ELSE UNCHANGED queueVars

\* Scene::preloadTerrain(p, s) up to that wait.  unlocked: pagingUnlockCache found other
\* references and had the views rebuilt.
preloadTerrain(p, s, unlocked) ==
    LET excepted == Spared(p, unlocked)
        next == IF unlocked THEN OldInfo ELSE info
    IN
    /\ At("idle")
    /\ world.exteriorPositions # {<<>>}
    /\ unlocked => s
    /\ call' = Called(p, s, FALSE)
    /\ main' = IF excepted THEN "load" ELSE "reset"
    /\ stored' = IF unlocked THEN {} ELSE stored
    /\ terrain' = IF unlocked THEN [terrain EXCEPT !.views = Old(@)] ELSE terrain
    /\ UNCHANGED <<world, mPreloadCells, updateVars, unrefVars>>
    /\ IF excepted THEN UNCHANGED queueVars ELSE Await(terrain.item)
    /\ info' = IF ~excepted /\ Busy(terrain.item) THEN [next EXCEPT ![terrain.item].mAbort = TRUE] ELSE next

\* The rest of it, up to the loop that waits for the terrain.
Return == main' = "idle" /\ call' = NoCall
loadTerrain ==
    LET left == IF main = "reset" THEN Positioned(terrain, <<>>) ELSE terrain
        near == Refuses(left, <<call.position>>)
    IN
    /\ main \in {"reset", "load"} /\ awaited = NoItem
    /\ IF call.sync THEN main' = "sync" /\ call' = Called(call.position, TRUE, near) ELSE Return
    /\ UNCHANGED <<world, stored>>
    /\ setTerrainPreloadPositions(left, <<call.position>>)

\* One turn of the loop, unless the item is not done (the thread sleeps 5 ms then).
syncTerrainLoad ==
    /\ At("sync")
    /\ ~Busy(terrain.item)
    /\ world' = world
    /\ IF terrain.item = NoItem \/ StoresAll(terrain.item)
       THEN /\ Return
            /\ IF terrain.item = NoItem THEN stored' = stored ELSE storeViews(terrain.item)
            /\ terrain' = [terrain EXCEPT !.item = NoItem]
            /\ UNCHANGED <<queueVars, mPreloadCells, updateVars, unrefVars>>
            /\ info' = Freed(info)
       ELSE /\ main' = main
            /\ call' = Called(call.position, TRUE, FALSE)
            /\ storeViews(terrain.item)
            /\ setTerrainPreloadPositions(Positioned(terrain, <<>>), <<call.position>>)

-----------------------------------------------------------------------------
(* The end: ~CellPreloader, then ~WorkQueue.                               *)

destroy ==
    /\ At("idle")
    /\ main' = "destroyTerrain"
    /\ Await(terrain.item)
    /\ UNCHANGED <<sceneVars, mPreloadCells, terrainVars, updateVars, unrefVars>>
    /\ info' = IF Busy(terrain.item) THEN [info EXCEPT ![terrain.item].mAbort = TRUE] ELSE info

destroyTerrain ==
    /\ At("destroyTerrain")
    /\ main' = "destroyCells"
    /\ terrain' = [terrain EXCEPT !.item = NoItem]
    /\ Await(mUpdateCacheItem)
    /\ UNCHANGED <<sceneVars, mPreloadCells, stored, updateVars, unrefVars>>
    /\ info' = Freed(info)

\* All items are aborted first, then awaited one after the other.
destroyCells ==
    /\ main \in {"destroyCells", "awaitCells"} /\ awaited = NoItem
    /\ mUpdateCacheItem' = NoItem
    /\ UNCHANGED <<sceneVars, terrainVars, sinceUpdate, unrefVars>>
    /\ IF \E c \in Cached : Busy(mPreloadCells[c].item)
       THEN /\ main' = "awaitCells"
            /\ \E c \in Cached : Busy(mPreloadCells[c].item) /\ Await(mPreloadCells[c].item)
            /\ mPreloadCells' = mPreloadCells
            /\ info' = Freed(Aborted(ItemsOf(Cached)))
       ELSE /\ main' = "destroyQueue"
            /\ mPreloadCells' = Without(Cached)
            /\ UNCHANGED queueVars
            /\ info' = Freed(info)

destroyQueue ==
    /\ At("destroyQueue")
    /\ main' = "join"
    /\ Queue!Release
    /\ UNCHANGED <<sceneVars, mPreloadCells, terrainVars, updateVars, unrefVars>>
    /\ info' = Freed(info)

join ==
    /\ At("join")
    /\ \A t \in Thread : pc[t] = "ended"
    /\ main' = "joined"
    /\ UNCHANGED <<queueVars, sceneVars, mPreloadCells, terrainVars, updateVars, unrefVars, info>>

-----------------------------------------------------------------------------
(* The threads.                                                            *)

\* An item that is told to abort leaves out what it has not begun.
Completes(i, whole) == whole \/ info[i].mAbort
doWork(t) ==
    /\ Queue!doWork(t)
    /\ mObjects' = [mObjects EXCEPT ![item[t]] = {}]      \* UnrefWorkItem
    /\ UNCHANGED <<sceneVars, main, mPreloadCells, terrainVars, updateVars, mUnref>>
    /\ \E whole \in BOOLEAN :
        /\ Completes(item[t], whole)
        /\ info' = Freed([info EXCEPT ![item[t]].whole = whole])

Thread_(t) ==
    \/ doWork(t)
    \/ /\ Queue!Run(t)
       /\ UNCHANGED <<sceneVars, main, mPreloadCells, terrainVars, updateVars, unrefVars>>
       /\ info' = Freed(info)

CheckDone ==
    /\ Queue!CheckDone
    /\ UNCHANGED <<sceneVars, main, mPreloadCells, terrainVars, updateVars, unrefVars, info>>

SpuriousWakeup(t) ==
    /\ Queue!SpuriousWakeup(t)
    /\ UNCHANGED <<sceneVars, main, mPreloadCells, terrainVars, updateVars, unrefVars, info>>

\* What the main thread goes on with by itself.
Continue ==
    \/ CheckDone \/ loadTerrain \/ syncTerrainLoad
    \/ destroyTerrain \/ destroyCells \/ destroyQueue \/ join

Next ==
    \/ \E c \in Cell : preload(c)
    \/ \E dt \in world.time : updateCache(dt)
    \/ updateViews
    \/ \E ps \in world.exteriorPositions : preloadTerrainPositions(ps)
    \/ flush
    \/ \E c \in Cell : notifyLoaded(c)
    \/ clear
    \/ reloadTerrain
    \/ \E p \in Position, s, unlocked \in BOOLEAN : preloadTerrain(p, s, unlocked)
    \/ destroy
    \/ Continue
    \/ \E t \in Thread : Thread_(t) \/ SpuriousWakeup(t)
    \/ main = "joined" /\ UNCHANGED vars

Fairness == WF_vars(Continue) /\ \A t \in Thread : WF_vars(Thread_(t))

Spec == Init /\ [][Next]_vars /\ Fairness

-----------------------------------------------------------------------------
MainPCs == {"idle", "views", "preload", "flush", "reset", "load", "sync", "destroyTerrain",
            "destroyCells", "awaitCells", "destroyQueue", "join", "joined"}

\* The type invariant.
TypeOK ==
    /\ Queue!TypeOK
    /\ main \in MainPCs
    /\ world \in Worlds /\ call \in [position : Position \cup {"none"}, sync : BOOLEAN, near : BOOLEAN]
    /\ mPreloadCells \in [Cell -> [item : Item \cup {NoItem}, age : 0..MaxAge]]
    /\ terrain \in [positions : Seq(Position), views : Seq(BOOLEAN), item : Item \cup {NoItem}]
    /\ mUpdateCacheItem \in Item \cup {NoItem} /\ sinceUpdate \in 0..MaxAge
    /\ mUnref \subseteq Item \cup {"view"}
    /\ mObjects \in [Item -> SUBSET (Item \cup {"view"})]
    /\ info \in [Item -> [kind : {"none", "cell", "terrain", "unref", "update"}, mAbort : BOOLEAN,
                         whole : BOOLEAN, positions : Seq(Position), views : Seq(BOOLEAN)]]
    /\ stored \subseteq [position : Position, whole : BOOLEAN]

\* A cell that counts as preloaded, so is not asked for again, has been loaded
\* entirely once its item is done: an item that was aborted is never found again.
PreloadedIsWhole ==
    main \notin {"awaitCells", "destroyQueue"} =>
        \A i \in ItemsOf(Cached) \cap mDone : info[i].whole

\* Views of an item that was aborted half way are never stored for rendering.
NoPartialView == \A view \in stored : view.whole

\* When preloadTerrain(p, true) returns, terrain has been stored since the last change
\* of its references, whatever was being loaded when it was called: that of p itself,
\* closer than a unit, unless p was refused for a load that ran; then that load's, which
\* is near p (closer than REAL_SIZE) and on the same grid.
TerrainLoaded ==
    [][main = "sync" /\ main' = "idle" =>
        \E view \in stored' :
            view.whole /\ <<call.position, view.position>> \in IF call.near THEN Near ELSE Same]_vars

\* "do the deletion in the background thread": what notifyLoaded, clear and
\* updateCache throw out is not deleted by the main thread in any of its steps.
MainStep == main' # main \/ (main = "idle" /\ mPreloadCells' # mPreloadCells)
DeletedInBackground ==
    [][MainStep /\ main \notin {"destroyCells", "awaitCells", "destroyQueue"} =>
        \A i \in Item : info[i].kind = "cell" => info'[i].kind = "cell"]_vars

\* Calls that wait in waitTillDone, for the terrain or for the threads return: whatever
\* is queued before the item, if its views must be loaded again, if all threads sleep.
CallsReturn == main \notin {"idle", "views", "preload", "flush", "joined"} ~> main \in {"idle", "joined"}

\* Refinement: what the preloader sees of the queue is WorkItems.
ImplementsWorkItems == Queue!ImplementsWorkItems

=============================================================================
