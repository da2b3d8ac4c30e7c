-------------------------- MODULE CellPreloader_proofs --------------------------
(***************************************************************************)
(* CellPreloader uses WorkQueue as it is meant to be used, so everything   *)
(* that is proved of the queue holds of the composition: for any cells,    *)
(* positions, settings, items and number of threads.  The second half is   *)
(* about what the items load: what counts as preloaded is loaded, what is  *)
(* stored is whole, what was waited for is there, and what is thrown out   *)
(* is deleted by a thread of the queue.                                    *)
(***************************************************************************)
EXTENDS CellPreloader, TLAPS

QueueFacts == INSTANCE WorkQueue_proofs

-----------------------------------------------------------------------------
(* The two instances of WorkQueue are one.                                 *)

Kept == Queue!Known \cup mDone

LEMMA SameKnown == Queue!Known = QueueFacts!Known /\ Kept = QueueFacts!Kept
BY DEF Kept, QueueFacts!Kept, Queue!Known, QueueFacts!Known, Queue!Held, QueueFacts!Held,
       Queue!ToSet, QueueFacts!ToSet

LEMMA SameAdd ==
    ASSUME NEW i, NEW front, Queue!addWorkItem(i, front)
    PROVE  QueueFacts!addWorkItem(i, front)
BY SameKnown DEF Queue!addWorkItem, QueueFacts!addWorkItem, Queue!notify_one, QueueFacts!notify_one,
       Queue!Sleepers, QueueFacts!Sleepers, Queue!Go, QueueFacts!Go

LEMMA SameMain ==
    /\ \A i : Queue!waitTillDone(i) => QueueFacts!waitTillDone(i)
    /\ Queue!CheckDone => QueueFacts!CheckDone
    /\ Queue!Release => QueueFacts!Release
BY DEF Queue!waitTillDone, QueueFacts!waitTillDone, Queue!CheckDone, QueueFacts!CheckDone,
       Queue!Release, QueueFacts!Release

LEMMA SameThread ==
    ASSUME NEW t
    PROVE  /\ Queue!Run(t) => QueueFacts!Run(t)
           /\ Queue!doWork(t) => QueueFacts!doWork(t)
           /\ Queue!SpuriousWakeup(t) => QueueFacts!SpuriousWakeup(t)
BY DEF Queue!Run, QueueFacts!Run, Queue!removeWorkItem, QueueFacts!removeWorkItem,
       Queue!signalDone, QueueFacts!signalDone, Queue!NotifyAll, QueueFacts!NotifyAll,
       Queue!doWork, QueueFacts!doWork, Queue!SpuriousWakeup, QueueFacts!SpuriousWakeup,
       Queue!Go, QueueFacts!Go

-----------------------------------------------------------------------------
(* The inductive invariant.                                                *)

\* The items the preloader may wait for.
References == {terrain.item, mUpdateCacheItem} \cup { mPreloadCells[c].item : c \in Cell }

IsTerrain(s) == s = [positions |-> s.positions, views |-> s.views, item |-> s.item]
AreCells(cells) ==
    /\ cells = [c \in Cell |-> cells[c]]
    /\ \A c \in Cell : cells[c] = [item |-> cells[c].item, age |-> cells[c].age]

Ended == {"destroyQueue", "join", "joined"}
Ending == {"destroyCells", "awaitCells"} \cup Ended

\* What the preloader refers to is queued, worked on or done, so that waiting for it
\* ends; before the queue is destroyed the preloader refers to nothing any more.
RefInv ==
    /\ IsTerrain(terrain) /\ AreCells(mPreloadCells)
    /\ References \subseteq Kept \cup {NoItem}
    /\ main \in Ending => terrain.item = NoItem
    /\ main \in Ended => References \subseteq {NoItem}

IInv == QueueFacts!IInv /\ RefInv

\* What a step asks of the queue, as far as the references are concerned.
Adds(i) == i \in Item /\ \E front \in BOOLEAN : QueueFacts!addWorkItem(i, front)
Waits == \E i \in Item : QueueFacts!waitTillDone(i) /\ i \in QueueFacts!Known
Idle == UNCHANGED QueueFacts!vars

LEMMA KeptGrows ==
    ASSUME IInv
    PROVE  /\ \A i : Adds(i) => Kept \cup {i} \subseteq Kept'
           /\ Waits \/ Idle \/ Queue!CheckDone => Kept \subseteq Kept'
           /\ \A t \in Thread :
                 Queue!Run(t) \/ Queue!doWork(t) \/ Queue!SpuriousWakeup(t) => Kept \subseteq Kept'
<1>1. QueueFacts!ItemAssumption
  BY ItemsAssumption DEF QueueFacts!ItemAssumption, Queue!ItemAssumption
<1>2. Kept = QueueFacts!Kept /\ Kept' = QueueFacts!Kept'
  BY SameKnown DEF Kept, QueueFacts!Kept, Queue!Known, QueueFacts!Known, Queue!Held, QueueFacts!Held,
       Queue!ToSet, QueueFacts!ToSet
<1> QED
  BY <1>1, <1>2, QueueFacts!Keeps, SameMain, SameThread DEF IInv, Adds, Waits, Idle

LEMMA FreshItem == Unused # {} => Fresh \in Item
BY DEF Fresh, Unused

LEMMA AddsFresh ==
    ASSUME Unused # {}, NEW front \in BOOLEAN, Queue!addWorkItem(Fresh, front)
    PROVE  Adds(Fresh)
<1>1. Fresh \in Item
  BY FreshItem
<1> HIDE DEF Fresh
<1>2. QueueFacts!addWorkItem(Fresh, front)
  BY SameAdd
<1> QED
  BY <1>1, <1>2 DEF Adds

LEMMA IdleQueue == UNCHANGED queueVars => Idle
BY DEF queueVars, Idle, QueueFacts!vars

\* Await: the preloader waits for what it refers to.
LEMMA AwaitWaits ==
    ASSUME IInv, NEW i \in References, Await(i)
    PROVE  Waits \/ Idle
<1>1. CASE Busy(i)
  <2>1. i \in QueueFacts!Known
    BY <1>1, SameKnown DEF IInv, RefInv, Busy, Kept
  <2>2. QueueFacts!waitTillDone(i)
    BY <1>1, SameMain DEF Await
  <2>3. i \in Item
    BY <2>1 DEF IInv, QueueFacts!IInv, QueueFacts!TypeOK, QueueFacts!Known, QueueFacts!Held, QueueFacts!ToSet
  <2> QED
    BY <2>1, <2>2, <2>3 DEF Waits
<1>2. CASE ~Busy(i)
  BY <1>2, IdleQueue DEF Await
<1> QED
  BY <1>1, <1>2

\* setTerrainPreloadPositions adds one new item, or leaves the queue alone.
LEMMA PositionedShape ==
    ASSUME NEW s, IsTerrain(s), NEW ps
    PROVE  IsTerrain(Positioned(s, ps)) /\ Positioned(s, ps).item = s.item
<1>1. CASE ps # <<>> /\ contains(s.positions, ps)
  BY <1>1 DEF Positioned
<1>2. CASE ~(ps # <<>> /\ contains(s.positions, ps)) /\ IsBusy(s)
  BY <1>2 DEF Positioned, IsTerrain
<1>3. CASE ~(ps # <<>> /\ contains(s.positions, ps)) /\ ~IsBusy(s)
  BY <1>3 DEF Positioned, IsTerrain
<1> QED
  BY <1>1, <1>2, <1>3

LEMMA TerrainSet ==
    ASSUME NEW s, IsTerrain(s), NEW ps, setTerrainPreloadPositions(s, ps)
    PROVE  /\ IsTerrain(terrain')
           /\ \/ Adds(Fresh) /\ terrain'.item = Fresh
              \/ Idle /\ terrain'.item = s.item
           /\ UNCHANGED <<mPreloadCells, mUpdateCacheItem>>
<1> DEFINE p == Positioned(s, ps)
<1>1. IsTerrain(p) /\ p.item = s.item
  BY PositionedShape
<1>2. UNCHANGED <<mPreloadCells, mUpdateCacheItem>>
  BY DEF setTerrainPreloadPositions, updateVars
<1>3. CASE Starts(s, ps)
  <2>1. Adds(Fresh) /\ terrain' = [p EXCEPT !.item = Fresh]
    BY <1>3, AddsFresh DEF setTerrainPreloadPositions
  <2> HIDE DEF p, Fresh
  <2>2. IsTerrain(terrain') /\ terrain'.item = Fresh
    BY <1>1, <2>1 DEF IsTerrain
  <2> QED
    BY <1>2, <2>1, <2>2
<1>4. CASE ~Starts(s, ps)
  <2>1. Idle /\ terrain' = p
    BY <1>4, IdleQueue DEF setTerrainPreloadPositions
  <2> QED
    BY <1>1, <1>2, <2>1
<1> QED
  BY <1>3, <1>4

\* Throwing out cells leaves the others; giving one a new item or age, the rest.
LEMMA WithoutCells ==
    ASSUME AreCells(mPreloadCells), NEW cells
    PROVE  /\ AreCells(Without(cells))
           /\ \A c \in Cell : Without(cells)[c].item \in {mPreloadCells[c].item, NoItem}
BY DEF AreCells, Without, Absent

LEMMA CellSet ==
    ASSUME NEW cells, AreCells(cells), NEW c \in Cell, NEW i, NEW n,
           NEW next, next = [cells EXCEPT ![c] = [item |-> i, age |-> n]]
    PROVE  /\ AreCells(next)
           /\ \A d \in Cell : next[d].item = IF d = c THEN i ELSE cells[d].item
<1>1. \A d \in Cell : next[d] = IF d = c THEN [item |-> i, age |-> n] ELSE cells[d]
  BY DEF AreCells
<1>2. next = [d \in Cell |-> next[d]]
  BY DEF AreCells
<1>3. \A d \in Cell : next[d].item = IF d = c THEN i ELSE cells[d].item
  BY <1>1
<1>4. \A d \in Cell : next[d] = [item |-> next[d].item, age |-> next[d].age]
  BY <1>1 DEF AreCells
<1> QED
  BY <1>2, <1>3, <1>4 DEF AreCells

LEMMA AgeSet ==
    ASSUME NEW r, r = [item |-> r.item, age |-> r.age], NEW n
    PROVE  [r EXCEPT !.age = n] = [item |-> r.item, age |-> n]
<1>1. ASSUME NEW i, NEW a
      PROVE  [[item |-> i, age |-> a] EXCEPT !.age = n] = [item |-> i, age |-> n]
  OBVIOUS
<1> QED
  BY <1>1

-----------------------------------------------------------------------------
(* Every step of the preloader is a step of the queue and keeps RefInv.    *)

Good == (QueueFacts!Next \/ Idle) /\ RefInv'

\* Steps that add item i.
LEMMA AddStep ==
    ASSUME IInv, NEW i, Adds(i),
           References' \subseteq References \cup {i, NoItem},
           IsTerrain(terrain'), AreCells(mPreloadCells'), main' \notin Ending
    PROVE  Good
<1>1. Kept \cup {i} \subseteq Kept'
  BY KeptGrows
<1>2. RefInv'
  BY <1>1 DEF IInv, RefInv, IsTerrain, AreCells, Ending
<1> QED
  BY <1>2 DEF Good, QueueFacts!Next, Adds

\* Steps that add none.
LEMMA OtherStep ==
    ASSUME IInv, Waits \/ Idle \/ Queue!CheckDone,
           References' \subseteq References \cup {NoItem},
           IsTerrain(terrain'), AreCells(mPreloadCells'),
           main' \in Ending => terrain'.item = NoItem,
           main' \in Ended => References' \subseteq {NoItem}
    PROVE  Good
<1>1. Kept \subseteq Kept'
  BY KeptGrows
<1>2. RefInv'
  BY <1>1 DEF IInv, RefInv, IsTerrain, AreCells, Ending, Ended
<1>3. QueueFacts!Next \/ Idle
  BY SameMain DEF QueueFacts!Next, Waits
<1> QED
  BY <1>2, <1>3 DEF Good

LEMMA preloadStep ==
    ASSUME IInv, NEW c \in Cell, preload(c)
    PROVE  Good
<1>1. /\ main' = "preload" /\ terrain' = terrain /\ mUpdateCacheItem' = mUpdateCacheItem
      /\ IsTerrain(terrain) /\ AreCells(mPreloadCells)
  BY DEF preload, At, terrainVars, updateVars, IInv, RefInv
<1>2. CASE c \in Cached
  <2> DEFINE cell == [item |-> mPreloadCells[c].item, age |-> 0]
  <2>1. Idle /\ mPreloadCells' = [mPreloadCells EXCEPT ![c] = [mPreloadCells[c] EXCEPT !.age = 0]]
    BY <1>2, IdleQueue DEF preload
  <2>2. [mPreloadCells[c] EXCEPT !.age = 0] = cell
    BY <1>1, AgeSet DEF AreCells
  <2>3. AreCells(mPreloadCells') /\ \A d \in Cell : mPreloadCells'[d].item = mPreloadCells[d].item
    <3>1. mPreloadCells' = [mPreloadCells EXCEPT ![c] = cell]
      BY <2>1, <2>2
    <3> QED
      BY <1>1, <3>1, CellSet DEF AreCells
  <2> QED
    BY <1>1, <2>1, <2>3, OtherStep DEF References, Ending, Ended
<1>3. CASE c \notin Cached
  <2>1. PICK gone \in SUBSET Cached :
            /\ Unused # {} /\ Queue!addWorkItem(Fresh, FALSE)
            /\ mPreloadCells' = [Without(gone) EXCEPT ![c] = [item |-> Fresh, age |-> 0]]
    BY <1>3 DEF preload
  <2>2. Adds(Fresh)
    BY <2>1, AddsFresh
  <2> HIDE DEF Fresh
  <2>3. /\ AreCells(mPreloadCells')
        /\ \A d \in Cell : mPreloadCells'[d].item \in {Fresh, mPreloadCells[d].item, NoItem}
    <3> DEFINE rest == Without(gone)
    <3>1. AreCells(rest) /\ \A d \in Cell : rest[d].item \in {mPreloadCells[d].item, NoItem}
      BY <1>1, WithoutCells
    <3> HIDE DEF rest
    <3>2. mPreloadCells' = [rest EXCEPT ![c] = [item |-> Fresh, age |-> 0]]
      BY <2>1 DEF rest
    <3> QED
      BY <3>1, <3>2, CellSet DEF AreCells
  <2>4. References' \subseteq References \cup {Fresh, NoItem}
    BY <1>1, <2>3 DEF References
  <2> QED
    BY <1>1, <2>2, <2>3, <2>4, AddStep DEF Ending, Ended
<1> QED
  BY <1>2, <1>3

LEMMA notifyLoadedStep ==
    ASSUME IInv, NEW cells, Drop(cells), main' = main, main = "idle",
           UNCHANGED <<queueVars, terrainVars, updateVars>>
    PROVE  Good
<1>1. Idle /\ terrain' = terrain /\ mUpdateCacheItem' = mUpdateCacheItem
  BY IdleQueue DEF terrainVars, updateVars
<1>2. mPreloadCells' = Without(cells)
  BY DEF Drop
<1>3. /\ IsTerrain(terrain') /\ AreCells(mPreloadCells')
      /\ \A d \in Cell : mPreloadCells'[d].item \in {mPreloadCells[d].item, NoItem}
  BY <1>1, <1>2, WithoutCells DEF IInv, RefInv
<1> QED
  BY <1>1, <1>3, OtherStep DEF References, Ending, Ended

LEMMA updateCacheStep ==
    ASSUME IInv, NEW dt, updateCache(dt)
    PROVE  Good
<1>1. PICK gone \in SUBSET Cached :
          /\ mPreloadCells' = [c \in Cell |->
                 IF c \in gone \/ c \notin Cached THEN Absent
                 ELSE [mPreloadCells[c] EXCEPT !.age = Older(@, dt)]]
          /\ terrain' = terrain
          /\ \/ /\ Unused # {} /\ Queue!addWorkItem(Fresh, TRUE) /\ mUpdateCacheItem' = Fresh
             \/ UNCHANGED <<queueVars, mUpdateCacheItem>>
  BY DEF updateCache, terrainVars
<1>2. main' = "views" /\ IsTerrain(terrain) /\ AreCells(mPreloadCells)
  BY DEF updateCache, IInv, RefInv
<1>3. /\ AreCells(mPreloadCells')
      /\ \A d \in Cell : mPreloadCells'[d].item \in {mPreloadCells[d].item, NoItem}
  BY <1>1, <1>2 DEF AreCells, Absent
<1>4. CASE Unused # {} /\ Queue!addWorkItem(Fresh, TRUE) /\ mUpdateCacheItem' = Fresh
  <2>1. Adds(Fresh)
    BY <1>4, AddsFresh
  <2> HIDE DEF Fresh
  <2>2. References' \subseteq References \cup {Fresh, NoItem}
    BY <1>1, <1>3, <1>4 DEF References
  <2> QED
    BY <1>1, <1>2, <1>3, <2>1, <2>2, AddStep DEF Ending, Ended
<1>5. CASE UNCHANGED <<queueVars, mUpdateCacheItem>>
  <2>1. Idle
    BY <1>5, IdleQueue
  <2>2. References' \subseteq References \cup {NoItem}
    BY <1>1, <1>3, <1>5 DEF References
  <2> QED
    BY <1>1, <1>2, <1>3, <2>1, <2>2, OtherStep DEF Ending, Ended
<1> QED
  BY <1>1, <1>4, <1>5

\* The steps that end with setTerrainPreloadPositions, in a terrain whose item is
\* the one there was.
LEMMA TerrainStep ==
    ASSUME IInv, NEW s, IsTerrain(s), s.item \in References \cup {NoItem}, NEW ps,
           setTerrainPreloadPositions(s, ps), main' \notin Ending
    PROVE  Good
<1>1. IsTerrain(terrain') /\ UNCHANGED <<mPreloadCells, mUpdateCacheItem>> /\ AreCells(mPreloadCells')
  BY TerrainSet DEF IInv, RefInv, AreCells
<1>2. CASE Adds(Fresh) /\ terrain'.item = Fresh
  <2> HIDE DEF Fresh
  <2>1. References' \subseteq References \cup {Fresh, NoItem}
    BY <1>1, <1>2 DEF References
  <2> QED
    BY <1>1, <1>2, <2>1, AddStep
<1>3. CASE Idle /\ terrain'.item = s.item
  <2>1. References' \subseteq References \cup {NoItem}
    BY <1>1, <1>3 DEF References
  <2> QED
    BY <1>1, <1>3, <2>1, OtherStep DEF Ending
<1> QED
  BY TerrainSet, <1>2, <1>3

LEMMA NoItemSet ==
    ASSUME NEW s, IsTerrain(s), NEW next, next = [s EXCEPT !.item = NoItem]
    PROVE  IsTerrain(next) /\ next.item = NoItem
BY DEF IsTerrain

LEMMA OldViews ==
    ASSUME NEW s, IsTerrain(s), NEW next, next = [s EXCEPT !.views = Old(@)]
    PROVE  IsTerrain(next) /\ next.item = s.item
BY DEF IsTerrain

\* Steps that change terrain alone, and at most drop its item.
LEMMA ViewsStep ==
    ASSUME IInv, Waits \/ Idle, UNCHANGED <<mPreloadCells, mUpdateCacheItem>>, IsTerrain(terrain'),
           terrain'.item \in {terrain.item, NoItem},
           main' \in Ending => terrain'.item = NoItem, main' \notin Ended
    PROVE  Good
<1>1. References' \subseteq References \cup {NoItem}
  BY DEF References
<1>2. AreCells(mPreloadCells')
  BY DEF IInv, RefInv, AreCells
<1> QED
  BY <1>1, <1>2, OtherStep

LEMMA updateViewsStep ==
    ASSUME IInv, updateViews
    PROVE  Good
<1>1. /\ Idle /\ main' = "preload" /\ UNCHANGED <<mPreloadCells, mUpdateCacheItem>> /\ IsTerrain(terrain)
      /\ terrain' = terrain \/ \E left \in {terrain, Positioned(terrain, <<>>)} :
                                   terrain' = [left EXCEPT !.item = NoItem]
  BY IdleQueue DEF updateViews, updateVars, terrainVars, IInv, RefInv
<1>2. IsTerrain(terrain') /\ terrain'.item \in {terrain.item, NoItem}
  <2>1. CASE terrain' = terrain
    BY <1>1, <2>1 DEF IsTerrain
  <2>2. ASSUME NEW left \in {terrain, Positioned(terrain, <<>>)}, terrain' = [left EXCEPT !.item = NoItem]
        PROVE  IsTerrain(terrain') /\ terrain'.item \in {terrain.item, NoItem}
    <3>1. IsTerrain(left)
      BY <1>1, PositionedShape
    <3> QED
      BY <2>2, <3>1, NoItemSet DEF IsTerrain
  <2> QED
    BY <1>1, <2>1, <2>2
<1> QED
  BY <1>1, <1>2, ViewsStep DEF Ending, Ended

LEMMA flushStep ==
    ASSUME IInv, flush
    PROVE  Good
<1>1. /\ main' = "idle" /\ UNCHANGED <<mPreloadCells, mUpdateCacheItem, terrain>>
      /\ IsTerrain(terrain') /\ AreCells(mPreloadCells') /\ References' = References
  BY DEF flush, updateVars, terrainVars, IInv, RefInv, IsTerrain, AreCells, References
<1>2. CASE mUnref = {}
  <2>1. Idle
    BY <1>2, IdleQueue DEF flush
  <2> QED
    BY <1>1, <2>1, OtherStep DEF Ending, Ended
<1>3. CASE mUnref # {}
  <2>1. Adds(Fresh)
    BY <1>3, AddsFresh DEF flush
  <2> HIDE DEF Fresh
  <2> QED
    BY <1>1, <2>1, AddStep DEF Ending, Ended
<1> QED
  BY <1>2, <1>3

LEMMA reloadTerrainStep ==
    ASSUME IInv, reloadTerrain
    PROVE  Good
<1> DEFINE old == [terrain EXCEPT !.views = Old(@)]
<1>1. /\ Idle /\ main' = "idle" /\ UNCHANGED <<mPreloadCells, mUpdateCacheItem>> /\ IsTerrain(terrain)
      /\ terrain' = Positioned(old, <<>>)
  BY IdleQueue DEF reloadTerrain, At, updateVars, IInv, RefInv
<1>2. IsTerrain(old) /\ old.item = terrain.item
  BY <1>1, OldViews
<1> HIDE DEF old
<1>3. IsTerrain(terrain') /\ terrain'.item = terrain.item
  BY <1>1, <1>2, PositionedShape DEF IsTerrain
<1> QED
  BY <1>1, <1>3, ViewsStep DEF Ending, Ended

LEMMA preloadTerrainStep ==
    ASSUME IInv, NEW p, NEW s, NEW unlocked, preloadTerrain(p, s, unlocked)
    PROVE  Good
<1>1. /\ main' \in {"load", "reset"} /\ UNCHANGED <<mPreloadCells, mUpdateCacheItem>> /\ IsTerrain(terrain)
      /\ terrain' = terrain \/ terrain' = [terrain EXCEPT !.views = Old(@)]
      /\ UNCHANGED queueVars \/ Await(terrain.item)
  BY DEF preloadTerrain, updateVars, IInv, RefInv
<1>2. Waits \/ Idle
  BY <1>1, IdleQueue, AwaitWaits DEF References
<1>3. IsTerrain(terrain') /\ terrain'.item = terrain.item
  BY <1>1, OldViews DEF IsTerrain
<1> QED
  BY <1>1, <1>2, <1>3, ViewsStep DEF Ending, Ended

LEMMA loadTerrainStep ==
    ASSUME IInv, loadTerrain
    PROVE  Good
<1>1. /\ IsTerrain(terrain) /\ main' \notin Ending
      /\ \E s \in {terrain, Positioned(terrain, <<>>)} :
            setTerrainPreloadPositions(s, <<call.position>>)
  BY DEF loadTerrain, Return, IInv, RefInv, Ending, Ended
<1>2. ASSUME NEW s \in {terrain, Positioned(terrain, <<>>)},
             setTerrainPreloadPositions(s, <<call.position>>)
      PROVE  Good
  <2>1. IsTerrain(s) /\ s.item \in References
    BY <1>1, PositionedShape DEF References
  <2> QED
    BY <1>1, <1>2, <2>1, TerrainStep
<1> QED
  BY <1>1, <1>2

LEMMA syncTerrainLoadStep ==
    ASSUME IInv, syncTerrainLoad
    PROVE  Good
<1>1. IsTerrain(terrain) /\ main = "sync"
  BY DEF syncTerrainLoad, At, IInv, RefInv
<1>2. CASE terrain.item = NoItem \/ StoresAll(terrain.item)
  <2>1. /\ Idle /\ main' = "idle" /\ UNCHANGED <<mPreloadCells, mUpdateCacheItem>>
        /\ terrain' = [terrain EXCEPT !.item = NoItem]
    BY <1>2, IdleQueue DEF syncTerrainLoad, Return, updateVars
  <2>2. IsTerrain(terrain') /\ terrain'.item = NoItem
    BY <1>1, <2>1, NoItemSet DEF IsTerrain
  <2> QED
    BY <2>1, <2>2, ViewsStep DEF Ending, Ended
<1>3. CASE ~(terrain.item = NoItem \/ StoresAll(terrain.item))
  <2> DEFINE s == Positioned(terrain, <<>>)
  <2>1. setTerrainPreloadPositions(s, <<call.position>>) /\ main' = "sync"
    BY <1>1, <1>3 DEF syncTerrainLoad
  <2>2. IsTerrain(s) /\ s.item \in References
    BY <1>1, PositionedShape DEF References
  <2> HIDE DEF s
  <2> QED
    BY <2>1, <2>2, TerrainStep DEF Ending, Ended
<1> QED
  BY <1>2, <1>3

\* ~CellPreloader lets go of everything, then ~WorkQueue drops what is queued.
LEMMA destroyStep ==
    ASSUME IInv, destroy \/ destroyTerrain
    PROVE  Good
<1>1. IsTerrain(terrain)
  BY DEF IInv, RefInv
<1>2. CASE destroy
  <2>1. /\ main' = "destroyTerrain" /\ UNCHANGED <<mPreloadCells, mUpdateCacheItem, terrain>>
        /\ Await(terrain.item)
    BY <1>2 DEF destroy, terrainVars, updateVars
  <2>2. Waits \/ Idle
    BY <2>1, AwaitWaits DEF References
  <2> QED
    BY <1>1, <2>1, <2>2, ViewsStep DEF Ending, Ended, IsTerrain
<1>3. CASE destroyTerrain
  <2>1. /\ main' = "destroyCells" /\ UNCHANGED <<mPreloadCells, mUpdateCacheItem>>
        /\ terrain' = [terrain EXCEPT !.item = NoItem]
        /\ Await(mUpdateCacheItem)
    BY <1>3 DEF destroyTerrain, updateVars
  <2>2. Waits \/ Idle
    BY <2>1, AwaitWaits DEF References
  <2>3. IsTerrain(terrain') /\ terrain'.item = NoItem
    BY <1>1, <2>1, NoItemSet DEF IsTerrain
  <2> QED
    BY <2>1, <2>2, <2>3, ViewsStep DEF Ended
<1> QED
  BY <1>2, <1>3

LEMMA destroyCellsStep ==
    ASSUME IInv, destroyCells
    PROVE  Good
<1>1. /\ IsTerrain(terrain) /\ AreCells(mPreloadCells) /\ terrain.item = NoItem
      /\ UNCHANGED terrain /\ mUpdateCacheItem' = NoItem
  BY DEF destroyCells, terrainVars, IInv, RefInv, Ending
<1>2. CASE \E c \in Cached : Busy(mPreloadCells[c].item)
  <2>1. /\ main' = "awaitCells" /\ mPreloadCells' = mPreloadCells
        /\ \E c \in Cached : Await(mPreloadCells[c].item)
    BY <1>2 DEF destroyCells
  <2>2. Waits \/ Idle
    BY <2>1, AwaitWaits DEF References, Cached
  <2>3. References' \subseteq References \cup {NoItem}
    BY <1>1, <2>1 DEF References
  <2> QED
    BY <1>1, <2>1, <2>2, <2>3, OtherStep DEF Ended, IsTerrain, AreCells
<1>3. CASE ~\E c \in Cached : Busy(mPreloadCells[c].item)
  <2>1. Idle /\ main' = "destroyQueue" /\ mPreloadCells' = Without(Cached)
    BY <1>3, IdleQueue DEF destroyCells
  <2>2. AreCells(mPreloadCells')
    BY <1>1, <2>1, WithoutCells DEF AreCells
  <2>3. \A c \in Cell : mPreloadCells'[c].item = NoItem
    BY <2>1 DEF Without, Cached, Absent
  <2>4. References' \subseteq {NoItem}
    BY <1>1, <2>3 DEF References
  <2> QED
    BY <1>1, <2>1, <2>2, <2>4, OtherStep DEF IsTerrain
<1> QED
  BY <1>2, <1>3

LEMMA destroyQueueStep ==
    ASSUME IInv, destroyQueue \/ join
    PROVE  Good
<1>1. /\ UNCHANGED <<terrain, mPreloadCells, mUpdateCacheItem>>
      /\ QueueFacts!Release \/ Idle
      /\ main \in Ended
  BY SameMain, IdleQueue DEF destroyQueue, join, terrainVars, updateVars, At, Ended
<1>2. References' \subseteq {NoItem} /\ terrain'.item = NoItem
  BY <1>1 DEF IInv, RefInv, References, Ending
<1>3. RefInv'
  BY <1>1, <1>2 DEF IInv, RefInv, IsTerrain, AreCells
<1> QED
  BY <1>1, <1>3 DEF Good, QueueFacts!Next

\* The threads leave the preloader's variables alone.
LEMMA ThreadStep ==
    ASSUME IInv, NEW t \in Thread, Thread_(t) \/ SpuriousWakeup(t)
    PROVE  Good
<1>1. /\ UNCHANGED <<main, terrain, mPreloadCells, mUpdateCacheItem>>
      /\ Queue!Run(t) \/ Queue!doWork(t) \/ Queue!SpuriousWakeup(t)
  BY DEF Thread_, doWork, SpuriousWakeup, terrainVars, updateVars
<1>2. Kept \subseteq Kept'
  BY <1>1, KeptGrows
<1>3. RefInv'
  BY <1>1, <1>2 DEF IInv, RefInv, References, IsTerrain, AreCells
<1> QED
  BY <1>1, <1>3, SameThread DEF Good, QueueFacts!Next

LEMMA RestStep ==
    ASSUME IInv, CheckDone \/ UNCHANGED vars
    PROVE  Good
<1>1. UNCHANGED <<main, terrain, mPreloadCells, mUpdateCacheItem>> /\ (Queue!CheckDone \/ Idle)
  BY IdleQueue DEF CheckDone, vars, terrainVars, updateVars
<1>2. Kept \subseteq Kept'
  BY <1>1, KeptGrows
<1>3. RefInv'
  BY <1>1, <1>2 DEF IInv, RefInv, References, IsTerrain, AreCells
<1> QED
  BY <1>1, <1>3, SameMain DEF Good, QueueFacts!Next

-----------------------------------------------------------------------------

LEMMA NextGood == IInv /\ [Next]_vars => Good
<1> SUFFICES ASSUME IInv, [Next]_vars
             PROVE  Good
  OBVIOUS
<1>1. ASSUME NEW c \in Cell, preload(c) \/ notifyLoaded(c)
      PROVE  Good
  <2>1. CASE preload(c)
    BY <2>1, preloadStep
  <2>2. CASE notifyLoaded(c)
    BY <2>2, notifyLoadedStep DEF notifyLoaded, At
  <2> QED
    BY <1>1, <2>1, <2>2
<1>2. ASSUME NEW dt \in world.time, updateCache(dt)
      PROVE  Good
  BY <1>2, updateCacheStep
<1>3. ASSUME NEW ps \in world.exteriorPositions, preloadTerrainPositions(ps)
      PROVE  Good
  <2>1. IsTerrain(terrain) /\ terrain.item \in References
    BY DEF IInv, RefInv, References
  <2> QED
    BY <1>3, <2>1, TerrainStep DEF preloadTerrainPositions, Ending, Ended
<1>4. CASE clear
  BY <1>4, notifyLoadedStep DEF clear, At
<1>5. CASE updateViews \/ flush \/ reloadTerrain
  BY <1>5, updateViewsStep, flushStep, reloadTerrainStep
<1>6. ASSUME NEW p \in Position, NEW s \in BOOLEAN, NEW unlocked \in BOOLEAN,
             preloadTerrain(p, s, unlocked)
      PROVE  Good
  BY <1>6, preloadTerrainStep
<1>7. CASE destroy \/ Continue
  BY <1>7, destroyStep, destroyCellsStep, destroyQueueStep, loadTerrainStep, syncTerrainLoadStep,
     RestStep DEF Continue
<1>8. ASSUME NEW t \in Thread, Thread_(t) \/ SpuriousWakeup(t)
      PROVE  Good
  BY <1>8, ThreadStep
<1>9. CASE UNCHANGED vars
  BY <1>9, RestStep
<1> QED
  BY <1>1, <1>2, <1>3, <1>4, <1>5, <1>6, <1>7, <1>8, <1>9 DEF Next

LEMMA InitIInv == Init => QueueFacts!Init /\ RefInv
<1> SUFFICES ASSUME Init
             PROVE  QueueFacts!Init /\ RefInv
  OBVIOUS
<1>1. QueueFacts!Init
  BY DEF Init, Queue!Init, QueueFacts!Init
<1>2. IsTerrain(terrain) /\ terrain.item = NoItem /\ mUpdateCacheItem = NoItem /\ main = "idle"
  BY DEF Init, IsTerrain
<1>3. AreCells(mPreloadCells) /\ \A c \in Cell : mPreloadCells[c].item = NoItem
  BY DEF Init, AreCells, Absent
<1>4. References \subseteq {NoItem}
  BY <1>2, <1>3 DEF References
<1> QED
  BY <1>1, <1>2, <1>3, <1>4 DEF RefInv, Ending

\* Whatever Scene asks for, in whatever order, and up to the destruction of
\* everything, the preloader is a client of the queue: each of its steps is one of
\* WorkQueue or does not touch it.  In particular it waits only for items that are
\* queued, worked on or done, never for one that was dropped.
THEOREM UsesQueue == Spec => QueueFacts!Spec /\ []RefInv
<1>1. Init => QueueFacts!Init /\ QueueFacts!IInv /\ RefInv
  BY InitIInv, ItemsAssumption, QueueFacts!InitIInv DEF QueueFacts!ItemAssumption, Queue!ItemAssumption
<1>2. IInv /\ [Next]_vars => [QueueFacts!Next]_(QueueFacts!vars) /\ RefInv'
  BY NextGood DEF Good, Idle
<1>3. QueueFacts!IInv /\ [QueueFacts!Next]_(QueueFacts!vars) => QueueFacts!IInv'
  BY ItemsAssumption, QueueFacts!NextIInv DEF QueueFacts!ItemAssumption, Queue!ItemAssumption
<1> QED
  BY <1>1, <1>2, <1>3, PTL DEF IInv, Spec, QueueFacts!Spec

\* So what the preloader sees of the queue is what WorkItems promises: items begin in
\* the order of the queue, each is worked on once, and a wait ends when it is done.
THEOREM PreloaderImplements == Spec => ImplementsWorkItems
<1>1. Spec => QueueFacts!Spec
  BY UsesQueue, PTL
<1>2. QueueFacts!ItemAssumption
  BY ItemsAssumption DEF QueueFacts!ItemAssumption, Queue!ItemAssumption
<1>3. QueueFacts!Spec => QueueFacts!ImplementsWorkItems
  BY <1>2, QueueFacts!WorkQueueImplements
<1>4. QueueFacts!Items!Init => Queue!Items!Init
  BY DEF QueueFacts!Items!Init, Queue!Items!Init, QueueFacts!Working, Queue!Working
<1>5. [QueueFacts!Items!Next]_(QueueFacts!Items!vars) => [Queue!Items!Next]_(Queue!Items!vars)
  BY DEF QueueFacts!Items!Next, Queue!Items!Next, QueueFacts!Items!vars, Queue!Items!vars,
         QueueFacts!Items!Submit, Queue!Items!Submit, QueueFacts!Items!Begin, Queue!Items!Begin,
         QueueFacts!Items!Finish, Queue!Items!Finish, QueueFacts!Items!Await, Queue!Items!Await,
         QueueFacts!Items!Proceed, Queue!Items!Proceed, QueueFacts!Items!Release, Queue!Items!Release,
         QueueFacts!Items!ToSet, Queue!Items!ToSet, QueueFacts!Working, Queue!Working
<1> QED
  BY <1>1, <1>3, <1>4, <1>5, PTL DEF QueueFacts!ImplementsWorkItems, ImplementsWorkItems,
     Queue!ImplementsWorkItems, QueueFacts!Items!Spec, Queue!Items!Spec

-----------------------------------------------------------------------------
(* What the items have done, and what is known of the terrain.             *)

Worked == QueueFacts!Worked

IsItem(r) ==
    /\ r = [kind |-> r.kind, mAbort |-> r.mAbort, whole |-> r.whole, positions |-> r.positions, views |-> r.views]
    /\ r.mAbort \in BOOLEAN /\ r.whole \in BOOLEAN
IsInfo(f) ==
    /\ f = [i \in Item |-> f[i]]
    /\ \A i \in Item : IsItem(f[i])

IsObjects == mObjects = [i \in Item |-> mObjects[i]]

\* An item that has worked has done all of it, or was told to abort.
WorkInv == \A i \in Item : i \in References \cap Worked => info[i].whole \/ info[i].mAbort

\* A cell is looked for under one item, which was not told to abort.
CellInv ==
    /\ \A c \in Cached : info[mPreloadCells[c].item].kind = "cell"
    /\ \A c, d \in Cached : mPreloadCells[c].item = mPreloadCells[d].item => c = d
    /\ main # "awaitCells" => \A c \in Cached : ~info[mPreloadCells[c].item].mAbort

\* The item of the terrain loads all that is to be loaded; when it was told to abort
\* another one takes its place in the next step of the main thread.
TerrainInv ==
    terrain.item # NoItem =>
        LET r == info[terrain.item]
        IN  /\ r.kind = "terrain"
            /\ DOMAIN r.positions = 1 .. Len(r.positions) /\ DOMAIN r.views = DOMAIN r.positions
            /\ ToSet(terrain.positions) \subseteq ToSet(r.positions)
            /\ r.mAbort => main \in {"reset", "destroyTerrain"}

\* Where there is no item, what is to be loaded has been.
StoredInv ==
    main \notin {"reset"} \cup Ending /\ terrain.item = NoItem =>
        \A p \in ToSet(terrain.positions) : [position |-> p, whole |-> TRUE] \in stored

\* What preloadTerrain knows between its steps: abortTerrainPreloadExcept has spared terrain
\* near its position; setTerrainPreloadPositions has taken the position, or was content with
\* the same, or has refused it.
CallInv ==
    /\ main = "reset" => awaited = terrain.item \/ ~Busy(terrain.item)
    /\ main \in {"reset", "load", "sync"} => call.position \in Position
    /\ main = "load" => Within(Near, call.position, terrain.positions)
    /\ main = "sync" => Within(IF call.near THEN Near ELSE Same, call.position, terrain.positions)

\* An item that nobody refers to is no cell, and the main thread lets go of no cell.
KindInv ==
    /\ \A i \in Item \ Referenced : info[i].kind # "cell"
    /\ mUpdateCacheItem # NoItem => info[mUpdateCacheItem].kind = "update"

ItemInv ==
    /\ IsInfo(info) /\ IsObjects /\ world \in Worlds
    /\ WorkInv /\ CellInv /\ TerrainInv /\ StoredInv /\ CallInv /\ KindInv /\ NoPartialView

\* What a step does to an item it does not make: it may be told to abort, or do its work.
SameItem(r, s, aborted) ==
    /\ s.kind = r.kind /\ s.positions = r.positions
    /\ DOMAIN s.views = DOMAIN r.views
    /\ r.whole => s.whole \/ s.mAbort
    /\ r.mAbort => s.mAbort
    /\ s.mAbort => r.mAbort \/ aborted

Changed(next, fresh, aborted) ==
    /\ IsInfo(next)
    /\ \A i \in Item : i # fresh => SameItem(info[i], next[i], i \in aborted)

InfoKept(fresh, aborted) ==
    /\ IsInfo(info')
    /\ \A i \in Item : i \in Referenced' /\ i # fresh => SameItem(info[i], info'[i], i \in aborted)
    /\ \A i \in Item : i \notin Referenced' => info'[i].kind # "cell"

LEMMA NobodyIsItem == IsItem(Nobody) /\ Nobody.kind # "cell"
BY DEF IsItem, Nobody

LEMMA NewItems ==
    /\ \A kind : IsItem(NewItem(kind)) /\ NewItem(kind).kind = kind /\ ~NewItem(kind).mAbort
    /\ \A ps, vs : /\ IsItem(TerrainItem(ps, vs))
                   /\ TerrainItem(ps, vs).kind = "terrain" /\ ~TerrainItem(ps, vs).mAbort
                   /\ TerrainItem(ps, vs).positions = ps /\ TerrainItem(ps, vs).views = vs
<1> DEFINE Made(k, a, w, ps, vs) ==
               [kind |-> k, mAbort |-> a, whole |-> w, positions |-> ps, views |-> vs]
<1>1. ASSUME NEW k, NEW a, NEW w, NEW ps, NEW vs, NEW kind
      PROVE  [Made(k, a, w, ps, vs) EXCEPT !.kind = kind] = Made(kind, a, w, ps, vs)
  OBVIOUS
<1>2. ASSUME NEW k, NEW a, NEW w, NEW ps, NEW vs, NEW qs
      PROVE  [Made(k, a, w, ps, vs) EXCEPT !.positions = qs] = Made(k, a, w, qs, vs)
  OBVIOUS
<1>3. PICK f : f = FALSE
  OBVIOUS
<1>4. Nobody = Made("none", f, f, <<>>, <<>>)
  BY <1>3 DEF Nobody
<1> HIDE DEF Made
<1>5. \A kind : NewItem(kind) = Made(kind, f, f, <<>>, <<>>)
  BY <1>1, <1>4 DEF NewItem
<1>6. \A ps, vs : TerrainItem(ps, vs) = Made("terrain", f, f, ps, vs)
  <2> SUFFICES ASSUME NEW ps, NEW vs
               PROVE  TerrainItem(ps, vs) = Made("terrain", f, f, ps, vs)
    OBVIOUS
  <2> DEFINE m == [NewItem("terrain") EXCEPT !.positions = ps]
  <2>1. m = Made("terrain", f, f, ps, <<>>)
    BY <1>2, <1>5
  <2>2. TerrainItem(ps, vs) = [m EXCEPT !.views = vs]
    BY DEF TerrainItem
  <2>3. [Made("terrain", f, f, ps, <<>>) EXCEPT !.views = vs] = Made("terrain", f, f, ps, vs)
    BY DEF Made
  <2> HIDE DEF m
  <2>4. [m EXCEPT !.views = vs] = [Made("terrain", f, f, ps, <<>>) EXCEPT !.views = vs]
    BY <2>1
  <2> QED
    BY <2>2, <2>3, <2>4
<1>7. \A k, ps, vs :
          LET r == Made(k, f, f, ps, vs)
          IN  /\ IsItem(r) /\ r.kind = k /\ r.mAbort = f /\ r.positions = ps /\ r.views = vs
  BY <1>3 DEF Made, IsItem
<1> QED
  BY <1>3, <1>5, <1>6, <1>7

LEMMA FreedKept ==
    ASSUME NEW next, NEW fresh, NEW aborted, Changed(next, fresh, aborted), info' = Freed(next)
    PROVE  /\ InfoKept(fresh, aborted)
           /\ \A i \in Item : i \in Referenced' => info'[i] = next[i]
<1>1. \A i \in Item : info'[i] = IF i \in Referenced' THEN next[i] ELSE Nobody
  BY DEF Freed
<1>2. info' = [i \in Item |-> info'[i]]
  BY DEF Freed
<1>3. \A i \in Item : IsItem(info'[i])
  BY <1>1, NobodyIsItem DEF Changed, IsInfo
<1> QED
  BY <1>1, <1>2, <1>3, NobodyIsItem DEF InfoKept, Changed, IsInfo

LEMMA AbortSet ==
    ASSUME NEW r, IsItem(r)
    PROVE  IsItem([r EXCEPT !.mAbort = TRUE]) /\ SameItem(r, [r EXCEPT !.mAbort = TRUE], TRUE)
<1> DEFINE s == [r EXCEPT !.mAbort = TRUE]
<1>1. ASSUME NEW k, NEW a, NEW w, NEW ps, NEW vs, NEW b
      PROVE  [[kind |-> k, mAbort |-> a, whole |-> w, positions |-> ps, views |-> vs] EXCEPT !.mAbort = b]
               = [kind |-> k, mAbort |-> b, whole |-> w, positions |-> ps, views |-> vs]
  OBVIOUS
<1>2. PICK b : b = TRUE
  OBVIOUS
<1>3. [r EXCEPT !.mAbort = b]
        = [kind |-> r.kind, mAbort |-> b, whole |-> r.whole, positions |-> r.positions, views |-> r.views]
  BY <1>1 DEF IsItem
<1>4. s = [r EXCEPT !.mAbort = b]
  BY <1>2
<1> HIDE DEF s
<1>5. /\ s = [kind |-> s.kind, mAbort |-> s.mAbort, whole |-> s.whole, positions |-> s.positions, views |-> s.views]
      /\ s.kind = r.kind /\ s.mAbort = b /\ s.whole = r.whole /\ s.positions = r.positions /\ s.views = r.views
  BY <1>3, <1>4
<1> QED
  BY <1>2, <1>5 DEF IsItem, SameItem

LEMMA OldSet ==
    ASSUME NEW r, IsItem(r)
    PROVE  IsItem([r EXCEPT !.views = Old(@)]) /\ SameItem(r, [r EXCEPT !.views = Old(@)], FALSE)
<1> DEFINE s == [r EXCEPT !.views = Old(@)]
<1>1. ASSUME NEW k, NEW a, NEW w, NEW ps, NEW vs
      PROVE  [[kind |-> k, mAbort |-> a, whole |-> w, positions |-> ps, views |-> vs] EXCEPT !.views = Old(@)]
               = [kind |-> k, mAbort |-> a, whole |-> w, positions |-> ps, views |-> Old(vs)]
  OBVIOUS
<1>2. s = [kind |-> r.kind, mAbort |-> r.mAbort, whole |-> r.whole, positions |-> r.positions, views |-> Old(r.views)]
  BY <1>1 DEF IsItem
<1>3. DOMAIN Old(r.views) = DOMAIN r.views
  BY DEF Old
<1> HIDE DEF s
<1> QED
  BY <1>2, <1>3 DEF IsItem, SameItem

LEMMA SameItemSame == \A r, a : SameItem(r, r, a)
BY DEF SameItem

LEMMA ChangedByAbort ==
    ASSUME IsInfo(info), NEW items
    PROVE  Changed(info, NoItem, {}) /\ Changed(Aborted(items), NoItem, items) /\ Changed(OldInfo, NoItem, {})
<1>1. Changed(info, NoItem, {})
  BY SameItemSame DEF Changed
<1>2. Changed(Aborted(items), NoItem, items)
  <2>1. \A i \in Item : Aborted(items)[i] = IF i \in items THEN [info[i] EXCEPT !.mAbort = TRUE] ELSE info[i]
    BY DEF Aborted
  <2>2. \A i \in Item : IsItem(Aborted(items)[i]) /\ SameItem(info[i], Aborted(items)[i], i \in items)
    BY <2>1, AbortSet, SameItemSame DEF IsInfo
  <2>3. Aborted(items) = [i \in Item |-> Aborted(items)[i]]
    BY DEF Aborted
  <2> QED
    BY <2>2, <2>3 DEF Changed, IsInfo
<1>3. Changed(OldInfo, NoItem, {})
  <2>1. \A i \in Item : OldInfo[i] = [info[i] EXCEPT !.views = Old(@)]
    BY DEF OldInfo
  <2>2. \A i \in Item : IsItem(OldInfo[i]) /\ SameItem(info[i], OldInfo[i], FALSE)
    BY <2>1, OldSet DEF IsInfo
  <2>3. OldInfo = [i \in Item |-> OldInfo[i]]
    BY DEF OldInfo
  <2> QED
    BY <2>2, <2>3 DEF Changed, IsInfo, SameItem
<1> QED
  BY <1>1, <1>2, <1>3

LEMMA ChangedByNew ==
    ASSUME NEW next, NEW aborted, Changed(next, NoItem, aborted), NEW fresh \in Item, NEW r, IsItem(r),
           NEW after, after = [next EXCEPT ![fresh] = r]
    PROVE  Changed(after, fresh, aborted) /\ after[fresh] = r
<1>1. \A i \in Item : after[i] = IF i = fresh THEN r ELSE next[i]
  BY DEF Changed, IsInfo
<1>2. after = [i \in Item |-> after[i]]
  BY DEF Changed, IsInfo
<1>3. NoItem \notin Item
  BY ItemsAssumption DEF Queue!ItemAssumption
<1> QED
  BY <1>1, <1>2, <1>3 DEF Changed, IsInfo

LEMMA ChangedByOne ==
    ASSUME NEW next, Changed(next, NoItem, {}), NEW i \in Item,
           NEW after, after = [next EXCEPT ![i].mAbort = TRUE]
    PROVE  Changed(after, NoItem, {i})
<1> DEFINE r == [next[i] EXCEPT !.mAbort = TRUE]
<1>1. \A j \in Item : after[j] = IF j = i THEN r ELSE next[j]
  BY DEF Changed, IsInfo
<1>2. after = [j \in Item |-> after[j]]
  BY DEF Changed, IsInfo
<1>3. NoItem \notin Item
  BY ItemsAssumption DEF Queue!ItemAssumption
<1>4. IsItem(r) /\ SameItem(next[i], r, TRUE)
  BY AbortSet DEF Changed, IsInfo
<1>5. SameItem(info[i], r, TRUE)
  BY <1>3, <1>4 DEF SameItem, Changed
<1>6. \A j \in Item : j # i => SameItem(info[j], after[j], FALSE)
  BY <1>1, <1>3 DEF Changed, SameItem
<1> HIDE DEF r
<1> QED
  BY <1>1, <1>2, <1>4, <1>5, <1>6 DEF Changed, IsInfo, SameItem

-----------------------------------------------------------------------------
(* How a step may change the items and what refers to them.                *)

\* The item that is made, if any, has not worked, and no other one has just worked.
QueueKept(fresh) == \A i \in Item : i \in Worked' => i \in Worked /\ i # fresh

LEMMA QueueAdds ==
    ASSUME IInv, Unused # {}, NEW front \in BOOLEAN, Queue!addWorkItem(Fresh, front)
    PROVE  /\ Fresh \in Item \ Referenced /\ QueueKept(Fresh)
           /\ Queue!Known \cup {Fresh} \subseteq Queue!Known'
           /\ awaited = NoItem /\ awaited' = NoItem /\ \A i \in Item : i \in mDone => i \in mDone' \/ i = Fresh
<1>1. Fresh \in Item \ Referenced
  BY DEF Fresh, Unused
<1> HIDE DEF Fresh
<1>2. QueueFacts!addWorkItem(Fresh, front)
  BY SameAdd
<1>3. QueueFacts!ItemAssumption
  BY ItemsAssumption DEF QueueFacts!ItemAssumption, Queue!ItemAssumption
<1>4. QueueFacts!Worked' \subseteq QueueFacts!Worked \ {Fresh} /\ QueueFacts!Known \cup {Fresh} \subseteq QueueFacts!Known'
  BY <1>1, <1>2, <1>3, QueueFacts!Works DEF IInv
<1>5. Queue!Known = QueueFacts!Known /\ Queue!Known' = QueueFacts!Known'
  BY DEF Queue!Known, QueueFacts!Known, Queue!Held, QueueFacts!Held, Queue!ToSet, QueueFacts!ToSet
<1> QED
  BY <1>1, <1>4, <1>5 DEF QueueKept, Worked, Queue!addWorkItem

LEMMA QueueWaits ==
    ASSUME UNCHANGED <<mQueue, mDone, pc, item>>
    PROVE  QueueKept(NoItem) /\ Queue!Known' = Queue!Known
<1>1. Worked' = Worked /\ Queue!Known' = Queue!Known
  BY DEF Worked, QueueFacts!Worked, Queue!Known, Queue!Held
<1> QED
  BY <1>1, ItemsAssumption DEF QueueKept, Queue!ItemAssumption

LEMMA QueueRuns ==
    ASSUME IInv, NEW t \in Thread, Queue!Run(t)
    PROVE  QueueKept(NoItem) /\ mDone \subseteq mDone' /\ awaited' = awaited
<1>1. QueueFacts!Run(t)
  BY SameThread
<1>2. QueueFacts!ItemAssumption /\ NoItem \notin Item
  BY ItemsAssumption DEF QueueFacts!ItemAssumption, Queue!ItemAssumption
<1>3. QueueFacts!Worked' \subseteq QueueFacts!Worked /\ mDone \subseteq mDone'
  BY <1>1, <1>2, QueueFacts!Works DEF IInv
<1>4. awaited' = awaited
  BY DEF Queue!Run, Queue!removeWorkItem, Queue!signalDone, Queue!NotifyAll
<1> QED
  BY <1>2, <1>3, <1>4 DEF QueueKept, Worked

LEMMA RefTypes == IInv => References \subseteq Item \cup {NoItem}
BY SameKnown DEF IInv, RefInv, Kept, QueueFacts!IInv, QueueFacts!TypeOK, QueueFacts!Known,
   QueueFacts!Held, QueueFacts!ToSet

\* The item that has just worked, if any, has done all of it or was told to abort.
WorkReported ==
    \A i \in Item : i \in Worked' /\ i \in Referenced' => i \in Worked \/ info'[i].whole \/ info'[i].mAbort

\* A step that makes at most one item, tells some to abort, and refers to what it did.
Shape(fresh, aborted) ==
    /\ fresh \in (Item \ Referenced) \cup {NoItem}
    /\ QueueKept(fresh) \/ (fresh = NoItem /\ WorkReported)
    /\ InfoKept(fresh, aborted)
    /\ References' \subseteq References \cup {fresh, NoItem}

LEMMA ReferencesReferenced == References \subseteq Referenced /\ References' \subseteq Referenced'
BY DEF References, Referenced

LEMMA WorkKept ==
    ASSUME ItemInv, NEW fresh, NEW aborted, Shape(fresh, aborted)
    PROVE  WorkInv'
<1> SUFFICES ASSUME NEW i \in Item, i \in References', i \in Worked'
             PROVE  info'[i].whole \/ info'[i].mAbort
  BY DEF WorkInv
<1>1. i \in Referenced' /\ i # NoItem
  BY ReferencesReferenced, ItemsAssumption DEF Queue!ItemAssumption
<1>2. CASE i \in Worked /\ i # fresh
  <2>1. i \in References
    BY <1>1, <1>2 DEF Shape
  <2>2. info[i].whole \/ info[i].mAbort
    BY <1>2, <2>1 DEF ItemInv, WorkInv
  <2> QED
    BY <1>1, <1>2, <2>2 DEF Shape, InfoKept, SameItem
<1>3. CASE ~(i \in Worked /\ i # fresh)
  BY <1>1, <1>3 DEF Shape, QueueKept, WorkReported
<1> QED
  BY <1>2, <1>3

\* At most one cell is given the new item, and those that are told to abort go.
CellsShape(fresh, aborted) ==
    /\ \A c \in Cell : mPreloadCells'[c].item \in {mPreloadCells[c].item, NoItem, fresh}
    /\ fresh # NoItem =>
          /\ \A c, d \in Cell :
                mPreloadCells'[c].item = fresh /\ mPreloadCells'[d].item = fresh => c = d
          /\ \A c \in Cell :
                mPreloadCells'[c].item = fresh => info'[fresh].kind = "cell" /\ ~info'[fresh].mAbort
    /\ main' # "awaitCells" =>
          \A c \in Cell : mPreloadCells'[c].item \notin {NoItem, fresh} =>
              main # "awaitCells" /\ mPreloadCells'[c].item \notin aborted

LEMMA CellsKept ==
    ASSUME IInv, IInv', ItemInv, NEW fresh, NEW aborted, Shape(fresh, aborted), CellsShape(fresh, aborted)
    PROVE  CellInv'
<1>1. \A c \in Cell : mPreloadCells'[c].item # NoItem =>
          mPreloadCells'[c].item \in Item /\ mPreloadCells'[c].item \in Referenced'
  <2>1. (References \subseteq Item \cup {NoItem})'
    BY RefTypes, PTL
  <2> QED
    BY <2>1, ReferencesReferenced DEF References
<1>2. \A c \in Cell : mPreloadCells'[c].item \notin {NoItem, fresh} =>
          /\ c \in Cached /\ mPreloadCells'[c].item = mPreloadCells[c].item
          /\ SameItem(info[mPreloadCells[c].item], info'[mPreloadCells[c].item],
                      mPreloadCells[c].item \in aborted)
  BY <1>1 DEF CellsShape, Cached, Shape, InfoKept
<1>3. \A c \in Cached : mPreloadCells[c].item # fresh
  BY ReferencesReferenced DEF Shape, References, Cached
<1>4. (\A c \in Cached : info[mPreloadCells[c].item].kind = "cell")'
  BY <1>2 DEF CellsShape, Cached, ItemInv, CellInv, SameItem
<1>5. (\A c, d \in Cached : mPreloadCells[c].item = mPreloadCells[d].item => c = d)'
  BY <1>2 DEF CellsShape, Cached, ItemInv, CellInv
<1>6. (main # "awaitCells" => \A c \in Cached : ~info[mPreloadCells[c].item].mAbort)'
  BY <1>2 DEF CellsShape, Cached, ItemInv, CellInv, SameItem
<1> QED
  BY <1>4, <1>5, <1>6 DEF CellInv

\* The terrain keeps its item, or has none any more.
TerrainShape(aborted) ==
    /\ terrain'.item \in {terrain.item, NoItem}
    /\ ToSet(terrain'.positions) \subseteq ToSet(terrain.positions)
    /\ terrain'.item # NoItem /\ (terrain.item \in aborted \/ info[terrain.item].mAbort) =>
          main' \in {"reset", "destroyTerrain"}

LEMMA TerrainKept ==
    ASSUME IInv, ItemInv, NEW fresh, NEW aborted, Shape(fresh, aborted), TerrainShape(aborted)
    PROVE  TerrainInv'
<1> SUFFICES ASSUME terrain'.item # NoItem
             PROVE  TerrainInv'
  BY DEF TerrainInv
<1> DEFINE i == terrain.item
<1>1. terrain'.item = i /\ i # NoItem /\ i \in References
  BY DEF TerrainShape, References
<1>2. i \in Item /\ i # fresh /\ i \in Referenced'
  BY <1>1, RefTypes, ReferencesReferenced DEF Shape, References
<1>3. SameItem(info[i], info'[i], i \in aborted)
  BY <1>2 DEF Shape, InfoKept
<1>4. /\ info[i].kind = "terrain" /\ DOMAIN info[i].views = DOMAIN info[i].positions
      /\ ToSet(terrain.positions) \subseteq ToSet(info[i].positions)
  BY <1>1 DEF ItemInv, TerrainInv
<1> HIDE DEF i
<1> QED
  BY <1>1, <1>3, <1>4 DEF TerrainInv, TerrainShape, SameItem

\* What every step does: an item that is referred to before and after it stays what it is.
ItemsStep ==
    /\ ItemInv'
    /\ \A i \in Item : i \in Referenced /\ i \in Referenced' => info'[i].kind = info[i].kind

LEMMA StepItems ==
    ASSUME IInv, IInv', ItemInv, NEW fresh, NEW aborted, Shape(fresh, aborted), CellsShape(fresh, aborted),
           TerrainInv', StoredInv', CallInv', NoPartialView', world' = world, IsObjects',
           \/ mUpdateCacheItem' \in {mUpdateCacheItem, NoItem}
           \/ mUpdateCacheItem' = fresh /\ info'[fresh].kind = "update"
    PROVE  ItemsStep
<1>1. WorkInv' /\ CellInv'
  BY WorkKept, CellsKept
<1>2. (\A i \in Item \ Referenced : info[i].kind # "cell")'
  BY DEF Shape, InfoKept
<1>3. (mUpdateCacheItem # NoItem => info[mUpdateCacheItem].kind = "update")'
  <2>1. CASE mUpdateCacheItem' = mUpdateCacheItem /\ mUpdateCacheItem # NoItem
    <3>1. mUpdateCacheItem \in Item /\ mUpdateCacheItem # fresh /\ mUpdateCacheItem \in Referenced'
      BY <2>1, RefTypes, ReferencesReferenced DEF Shape, References
    <3> QED
      BY <2>1, <3>1 DEF Shape, InfoKept, SameItem, ItemInv, KindInv
  <2> QED
    BY <2>1
<1>4. ItemInv'
  BY <1>1, <1>2, <1>3 DEF ItemInv, KindInv, Shape, InfoKept
<1>5. \A i \in Item : i \in Referenced /\ i \in Referenced' => info'[i].kind = info[i].kind
  BY ItemsAssumption DEF Shape, InfoKept, SameItem, Queue!ItemAssumption
<1> QED
  BY <1>4, <1>5 DEF ItemsStep

\* The item of the terrain is no cell; cells that are thrown out share no item with others.
LEMMA Evicts ==
    ASSUME ItemInv
    PROVE  /\ \A c \in Cached : terrain.item # mPreloadCells[c].item
           /\ \A gone \in SUBSET Cached : \A c \in Cached \ gone : mPreloadCells[c].item \notin ItemsOf(gone)
BY DEF ItemInv, CellInv, TerrainInv, ItemsOf, Cached

LEMMA NoneAborted == IsInfo(info) => Changed(info, NoItem, {})
BY ChangedByAbort

LEMMA CellsSame ==
    ASSUME ItemInv, NEW fresh, NEW aborted, Shape(fresh, aborted), aborted \subseteq {terrain.item},
           \A c \in Cell : mPreloadCells'[c].item = mPreloadCells[c].item,
           main' # "awaitCells" => main # "awaitCells"
    PROVE  CellsShape(fresh, aborted)
<1>1. \A c \in Cell : mPreloadCells[c].item # NoItem =>
          mPreloadCells[c].item # fresh /\ mPreloadCells[c].item \notin aborted
  BY Evicts, ReferencesReferenced DEF Shape, References, Cached
<1> QED
  BY <1>1 DEF CellsShape

\* Without Freed, nothing is let go of.
LEMMA Unfreed ==
    ASSUME ItemInv, NEW aborted, Changed(info', NoItem, aborted), Referenced \subseteq Referenced'
    PROVE  InfoKept(NoItem, aborted)
<1>1. NoItem \notin Item
  BY ItemsAssumption DEF Queue!ItemAssumption
<1> QED
  BY <1>1 DEF InfoKept, Changed, ItemInv, KindInv, SameItem

\* What the main thread keeps of the items of cells.
CellItemsKept == \A i \in Item : i \in Referenced /\ info[i].kind = "cell" => i \in Referenced'

LEMMA RefKept ==
    ASSUME IInv, ItemInv, Queue!Known \subseteq Queue!Known',
           \A j \in Queue!Known : mObjects'[j] = mObjects[j],
           \A c \in Cell : mPreloadCells[c].item \in Referenced' \cup {NoItem},
           mUnref \subseteq Referenced'
    PROVE  CellItemsKept
<1> SUFFICES ASSUME NEW i \in Item, i \in Referenced, info[i].kind = "cell"
             PROVE  i \in Referenced'
  BY DEF CellItemsKept
<1>1. i # terrain.item /\ i # mUpdateCacheItem /\ i # NoItem
  BY ItemsAssumption DEF ItemInv, TerrainInv, KindInv, Queue!ItemAssumption
<1>2. CASE i \in UNION { mObjects[j] : j \in Queue!Known }
  BY <1>2 DEF Referenced
<1>3. CASE i \in Queue!Known \cup mUnref
  BY <1>3 DEF Referenced
<1>4. CASE i \in { mPreloadCells[c].item : c \in Cell }
  BY <1>1, <1>4
<1> QED
  BY <1>1, <1>2, <1>3, <1>4 DEF Referenced

\* Steps that leave the terrain alone.
LEMMA TerrainSame ==
    ASSUME IInv, ItemInv, NEW fresh, NEW aborted, Shape(fresh, aborted), UNCHANGED <<terrainVars, call>>,
           terrain.item # NoItem => terrain.item \notin aborted,
           {main, main'} \cap {"reset", "load", "sync", "destroyTerrain"} = {},
           main \in Ending => main' \in Ending
    PROVE  TerrainInv' /\ StoredInv' /\ CallInv' /\ NoPartialView'
<1>1. terrain' = terrain /\ stored' = stored
  BY DEF terrainVars
<1>2. terrain.item # NoItem => ~info[terrain.item].mAbort
  BY DEF ItemInv, TerrainInv
<1>3. TerrainShape(aborted)
  BY <1>1, <1>2 DEF TerrainShape
<1>4. TerrainInv'
  BY <1>3, TerrainKept
<1> QED
  BY <1>1, <1>4 DEF ItemInv, StoredInv, CallInv, NoPartialView

-----------------------------------------------------------------------------
(* The steps of the main thread that are about cells.                      *)

LEMMA preloadItems ==
    ASSUME IInv, IInv', ItemInv, NEW c \in Cell, preload(c)
    PROVE  ItemsStep
<1>1. /\ main = "preload" /\ main' = "preload" /\ UNCHANGED <<terrainVars, call, world, mUpdateCacheItem, mUnref, mObjects>>
      /\ terrain' = terrain
      /\ IsInfo(info) /\ AreCells(mPreloadCells) /\ IsObjects'
  BY DEF preload, At, terrainVars, updateVars, unrefVars, sceneVars, IInv, RefInv, ItemInv, IsObjects
<1>2. CASE c \in Cached
  <2>1. UNCHANGED queueVars /\ info' = info /\ mPreloadCells' = [mPreloadCells EXCEPT ![c].age = 0]
    BY <1>2 DEF preload
  <2>2. \A d \in Cell : mPreloadCells'[d].item = mPreloadCells[d].item
    BY <1>1, <2>1 DEF AreCells
  <2>3. QueueKept(NoItem) /\ Queue!Known' = Queue!Known
    BY <2>1, QueueWaits DEF queueVars
  <2>4. Referenced' = Referenced /\ References' = References
    BY <1>1, <2>2, <2>3 DEF Referenced, References
  <2>5. Changed(info', NoItem, {})
    BY <1>1, <2>1, ChangedByAbort
  <2>6. Shape(NoItem, {})
    BY <2>3, <2>4, <2>5, Unfreed DEF Shape
  <2>7. CellsShape(NoItem, {})
    BY <1>1, <2>2, <2>6, CellsSame
  <2>8. TerrainInv' /\ StoredInv' /\ CallInv' /\ NoPartialView'
    BY <1>1, <2>6, TerrainSame DEF Ending, Ended
  <2> QED
    BY <1>1, <2>6, <2>7, <2>8, StepItems
<1>3. CASE c \notin Cached
  <2>1. PICK gone \in SUBSET Cached :
            /\ Unused # {} /\ Queue!addWorkItem(Fresh, FALSE)
            /\ mPreloadCells' = [Without(gone) EXCEPT ![c] = [item |-> Fresh, age |-> 0]]
            /\ info' = Freed([Aborted(ItemsOf(gone)) EXCEPT ![Fresh] = NewItem("cell")])
    BY <1>3 DEF preload, AbortEvicted
  <2>2. Fresh \in Item \ Referenced /\ QueueKept(Fresh)
    BY <2>1, QueueAdds
  <2> DEFINE next == [Aborted(ItemsOf(gone)) EXCEPT ![Fresh] = NewItem("cell")]
             rest == Without(gone)
  <2>3. Changed(next, Fresh, ItemsOf(gone)) /\ next[Fresh] = NewItem("cell")
    BY <1>1, <2>2, ChangedByAbort, ChangedByNew, NewItems
  <2>4. \A d \in Cell : rest[d].item = IF d \in gone THEN NoItem ELSE mPreloadCells[d].item
    BY <1>1 DEF Without, Absent, AreCells
  <2>5. AreCells(rest)
    BY <1>1, WithoutCells
  <2> HIDE DEF Fresh, next, rest
  <2>6. \A d \in Cell : mPreloadCells'[d].item = IF d = c THEN Fresh ELSE rest[d].item
    <3>1. mPreloadCells' = [rest EXCEPT ![c] = [item |-> Fresh, age |-> 0]]
      BY <2>1 DEF rest
    <3>2. \A d \in Cell : mPreloadCells'[d] = IF d = c THEN [item |-> Fresh, age |-> 0] ELSE rest[d]
      BY <2>5, <3>1 DEF AreCells
    <3> QED
      BY <3>2
  <2>7. Fresh \in Referenced'
    BY <2>6, ReferencesReferenced DEF References
  <2>8. InfoKept(Fresh, ItemsOf(gone)) /\ info'[Fresh] = NewItem("cell")
    BY <2>1, <2>2, <2>3, <2>7, FreedKept DEF next
  <2>9. Shape(Fresh, ItemsOf(gone))
    <3>1. References' \subseteq References \cup {Fresh, NoItem}
      BY <1>1, <2>4, <2>6 DEF References
    <3> QED
      BY <2>2, <2>8, <3>1 DEF Shape
  <2>10. CellsShape(Fresh, ItemsOf(gone))
    <3>1. \A d \in Cell : d # c => mPreloadCells'[d].item # Fresh
      BY <2>2, <2>4, <2>6, ReferencesReferenced, ItemsAssumption DEF References, Queue!ItemAssumption
    <3>2. info'[Fresh].kind = "cell" /\ ~info'[Fresh].mAbort
      BY <2>8, NewItems
    <3>3. \A d \in Cell : mPreloadCells'[d].item \notin {NoItem, Fresh} =>
              mPreloadCells'[d].item \notin ItemsOf(gone)
      BY <2>4, <2>6, Evicts DEF Cached
    <3> QED
      BY <1>1, <2>4, <2>6, <3>1, <3>2, <3>3 DEF CellsShape
  <2>11. terrain.item # NoItem => terrain.item \notin ItemsOf(gone)
    BY Evicts DEF ItemsOf
  <2>12. TerrainInv' /\ StoredInv' /\ CallInv' /\ NoPartialView'
    BY <1>1, <2>9, <2>11, TerrainSame DEF Ending, Ended
  <2> QED
    BY <1>1, <2>9, <2>10, <2>12, StepItems
<1> QED
  BY <1>2, <1>3

\* What notifyLoaded and clear throw out goes to the UnrefQueue.
LEMMA DropItems ==
    ASSUME IInv, IInv', ItemInv, NEW cells \in SUBSET Cached, Drop(cells), main = "idle", main' = "idle",
           UNCHANGED <<queueVars, sceneVars, terrainVars, updateVars, mObjects>>,
           info' = Freed(Aborted(ItemsOf(cells)))
    PROVE  ItemsStep /\ CellItemsKept
<1>1. /\ UNCHANGED <<terrain, call, world, mUpdateCacheItem>> /\ AreCells(mPreloadCells) /\ IsObjects'
      /\ IsInfo(info)
  BY DEF sceneVars, terrainVars, updateVars, IInv, RefInv, ItemInv, IsObjects
<1>2. \A d \in Cell : mPreloadCells'[d].item = IF d \in cells THEN NoItem ELSE mPreloadCells[d].item
  <2>1. mPreloadCells' = Without(cells)
    BY DEF Drop
  <2> QED
    BY <1>1, <2>1 DEF Without, Absent, AreCells
<1>3. QueueKept(NoItem) /\ Queue!Known' = Queue!Known
  BY QueueWaits DEF queueVars
<1>4. References' \subseteq References \cup {NoItem}
  BY <1>1, <1>2 DEF References
<1>5. InfoKept(NoItem, ItemsOf(cells))
  BY <1>1, ChangedByAbort, FreedKept
<1>6. Shape(NoItem, ItemsOf(cells))
  BY <1>3, <1>4, <1>5 DEF Shape
<1>7. CellsShape(NoItem, ItemsOf(cells))
  BY <1>2, Evicts DEF CellsShape, Cached
<1>8. terrain.item # NoItem => terrain.item \notin ItemsOf(cells)
  BY Evicts DEF ItemsOf
<1>9. TerrainInv' /\ StoredInv' /\ CallInv' /\ NoPartialView'
  BY <1>1, <1>6, <1>8, TerrainSame DEF Ending, Ended
<1>10. ItemsStep
  BY <1>1, <1>6, <1>7, <1>9, StepItems
<1>11. \A c \in Cell : mPreloadCells[c].item \in Referenced' \cup {NoItem}
  <2>1. mUnref' = mUnref \cup ItemsOf(cells)
    BY DEF Drop, Pushed
  <2> QED
    BY <1>2, <2>1 DEF Referenced, ItemsOf
<1>12. mUnref \subseteq Referenced'
  BY DEF Drop, Referenced
<1> QED
  BY <1>3, <1>10, <1>11, <1>12, RefKept

LEMMA updateCacheItems ==
    ASSUME IInv, IInv', ItemInv, NEW dt, updateCache(dt)
    PROVE  ItemsStep /\ CellItemsKept
<1> DEFINE Throws(gone) ==
               /\ mUnref' = mUnref \cup ItemsOf(gone)
               /\ mPreloadCells' = [c \in Cell |->
                      IF c \in gone \/ c \notin Cached THEN Absent
                      ELSE [mPreloadCells[c] EXCEPT !.age = Older(@, dt)]]
           Adding(gone) ==
               /\ Unused # {} /\ Queue!addWorkItem(Fresh, TRUE) /\ mUpdateCacheItem' = Fresh
               /\ info' = Freed([Aborted(ItemsOf(gone)) EXCEPT ![Fresh] = NewItem("update")])
           Leaving(gone) ==
               UNCHANGED <<queueVars, mUpdateCacheItem>> /\ info' = Freed(Aborted(ItemsOf(gone)))
<1>1. PICK gone \in SUBSET Cached : Throws(gone) /\ (Adding(gone) \/ Leaving(gone))
  BY DEF updateCache, Pushed
<1>2. /\ main = "idle" /\ main' = "views"
      /\ UNCHANGED <<terrain, terrainVars, call, world, mObjects>> /\ AreCells(mPreloadCells) /\ IsObjects'
      /\ IsInfo(info)
  BY DEF updateCache, At, sceneVars, terrainVars, IInv, RefInv, ItemInv, IsObjects
<1>3. \A d \in Cell : mPreloadCells'[d].item = IF d \in gone THEN NoItem ELSE mPreloadCells[d].item
  BY <1>1, <1>2 DEF AreCells, Absent, Cached
<1>4. ASSUME NEW fresh, Shape(fresh, ItemsOf(gone)), fresh # NoItem => fresh \in Item \ Referenced,
             \/ mUpdateCacheItem' \in {mUpdateCacheItem, NoItem}
             \/ mUpdateCacheItem' = fresh /\ info'[fresh].kind = "update",
             Queue!Known \subseteq Queue!Known'
      PROVE  ItemsStep /\ CellItemsKept
  <2>1. \A c \in Cell : mPreloadCells[c].item # NoItem => mPreloadCells[c].item # fresh
    BY <1>4, ReferencesReferenced DEF References
  <2>2. \A c \in Cell : mPreloadCells'[c].item # NoItem =>
            mPreloadCells'[c].item # fresh /\ mPreloadCells'[c].item \notin ItemsOf(gone)
    BY <1>3, <2>1, Evicts DEF Cached
  <2>3. CellsShape(fresh, ItemsOf(gone))
    BY <1>2, <1>3, <2>2 DEF CellsShape
  <2>4. terrain.item # NoItem => terrain.item \notin ItemsOf(gone)
    BY Evicts DEF ItemsOf
  <2>5. TerrainInv' /\ StoredInv' /\ CallInv' /\ NoPartialView'
    BY <1>2, <1>4, <2>4, TerrainSame DEF Ending, Ended
  <2>6. ItemsStep
    BY <1>2, <1>4, <2>3, <2>5, StepItems
  <2>7. \A c \in Cell : mPreloadCells[c].item \in Referenced' \cup {NoItem}
    BY <1>1, <1>3 DEF Referenced, ItemsOf
  <2>8. mUnref \subseteq Referenced'
    BY <1>1 DEF Referenced
  <2> QED
    BY <1>2, <1>4, <2>6, <2>7, <2>8, RefKept
<1>5. CASE Adding(gone)
  <2>1. Fresh \in Item \ Referenced /\ QueueKept(Fresh) /\ Queue!Known \subseteq Queue!Known'
    BY <1>5, QueueAdds
  <2> DEFINE next == [Aborted(ItemsOf(gone)) EXCEPT ![Fresh] = NewItem("update")]
  <2>2. Changed(next, Fresh, ItemsOf(gone)) /\ next[Fresh] = NewItem("update")
    BY <1>2, <2>1, ChangedByAbort, ChangedByNew, NewItems
  <2>3. info' = Freed(next) /\ mUpdateCacheItem' = Fresh
    BY <1>5
  <2> HIDE DEF Fresh, next
  <2>4. Fresh \in Referenced'
    BY <2>3, ReferencesReferenced DEF References
  <2>5. InfoKept(Fresh, ItemsOf(gone)) /\ info'[Fresh] = NewItem("update")
    BY <2>1, <2>2, <2>3, <2>4, FreedKept
  <2>6. References' \subseteq References \cup {Fresh, NoItem}
    BY <1>2, <1>3, <2>3 DEF References
  <2>7. Shape(Fresh, ItemsOf(gone))
    BY <2>1, <2>5, <2>6 DEF Shape
  <2>8. info'[Fresh].kind = "update"
    BY <2>5, NewItems
  <2> QED
    BY <1>4, <2>1, <2>3, <2>7, <2>8
<1>6. CASE Leaving(gone)
  <2>1. QueueKept(NoItem) /\ Queue!Known' = Queue!Known
    BY <1>6, QueueWaits DEF queueVars
  <2>2. References' \subseteq References \cup {NoItem}
    BY <1>2, <1>3, <1>6 DEF References
  <2>3. InfoKept(NoItem, ItemsOf(gone))
    BY <1>2, <1>6, ChangedByAbort, FreedKept
  <2>4. Shape(NoItem, ItemsOf(gone))
    BY <2>1, <2>2, <2>3 DEF Shape
  <2> QED
    BY <1>4, <1>6, <2>1, <2>4
<1> QED
  BY <1>1, <1>5, <1>6

\* What flush takes from the UnrefQueue is referred to by the item it makes.
LEMMA flushItems ==
    ASSUME IInv, IInv', ItemInv, flush
    PROVE  ItemsStep /\ CellItemsKept
<1>1. /\ main = "flush" /\ main' = "idle" /\ world' = world
      /\ UNCHANGED <<terrain, terrainVars, call, mPreloadCells, mUpdateCacheItem>> /\ IsInfo(info)
  BY DEF flush, At, sceneVars, terrainVars, updateVars, ItemInv
<1>2. References' = References
  BY <1>1 DEF References
<1>3. ASSUME NEW fresh, Shape(fresh, {}), IsObjects', Queue!Known \subseteq Queue!Known',
             \A j \in Queue!Known : mObjects'[j] = mObjects[j], mUnref \subseteq Referenced'
      PROVE  ItemsStep /\ CellItemsKept
  <2>1. CellsShape(fresh, {})
    BY <1>1, <1>3, CellsSame
  <2>2. TerrainInv' /\ StoredInv' /\ CallInv' /\ NoPartialView'
    BY <1>1, <1>3, TerrainSame DEF Ending, Ended
  <2>3. ItemsStep
    BY <1>1, <1>3, <2>1, <2>2, StepItems
  <2>4. \A c \in Cell : mPreloadCells[c].item \in Referenced' \cup {NoItem}
    BY <1>1 DEF Referenced
  <2> QED
    BY <1>3, <2>3, <2>4, RefKept
<1>4. CASE mUnref = {}
  <2>1. UNCHANGED <<queueVars, unrefVars, info>>
    BY <1>4 DEF flush
  <2>2. QueueKept(NoItem) /\ Queue!Known' = Queue!Known
    BY <2>1, QueueWaits DEF queueVars
  <2>3. Referenced' = Referenced /\ mUnref \subseteq Referenced'
    BY <1>1, <2>1, <2>2 DEF Referenced, unrefVars
  <2>4. Shape(NoItem, {})
    <3>1. Changed(info', NoItem, {})
      BY <1>1, <2>1, NoneAborted
    <3> QED
      BY <1>2, <2>2, <2>3, <3>1, Unfreed DEF Shape
  <2>5. IsObjects' /\ mObjects' = mObjects
    BY <2>1 DEF unrefVars, ItemInv, IsObjects
  <2> QED
    BY <1>3, <2>2, <2>3, <2>4, <2>5
<1>5. CASE mUnref # {}
  <2>1. /\ Unused # {} /\ Queue!addWorkItem(Fresh, TRUE) /\ mObjects' = [mObjects EXCEPT ![Fresh] = mUnref]
        /\ info' = Freed([info EXCEPT ![Fresh] = NewItem("unref")])
    BY <1>5 DEF flush
  <2>2. /\ Fresh \in Item \ Referenced /\ QueueKept(Fresh) /\ Queue!Known \cup {Fresh} \subseteq Queue!Known'
    BY <2>1, QueueAdds
  <2> DEFINE next == [info EXCEPT ![Fresh] = NewItem("unref")]
  <2>3. Changed(next, Fresh, {})
    BY <1>1, <2>2, NoneAborted, ChangedByNew, NewItems
  <2>4. info' = Freed(next)
    BY <2>1
  <2> HIDE DEF Fresh, next
  <2>5. Shape(Fresh, {})
    BY <1>2, <2>2, <2>3, <2>4, FreedKept DEF Shape
  <2>6. mObjects'[Fresh] = mUnref /\ \A j \in Item : j # Fresh => mObjects'[j] = mObjects[j]
    BY <2>1, <2>2 DEF ItemInv, IsObjects
  <2>7. IsObjects'
    BY <2>1 DEF ItemInv, IsObjects
  <2>8. mUnref \subseteq Referenced'
    BY <2>2, <2>6 DEF Referenced
  <2>9. \A j \in Queue!Known : mObjects'[j] = mObjects[j]
    BY <2>1, <2>2 DEF ItemInv, IsObjects, Referenced
  <2> QED
    BY <1>3, <2>2, <2>5, <2>7, <2>8, <2>9
<1> QED
  BY <1>4, <1>5

-----------------------------------------------------------------------------
(* The steps of the main thread that are about terrain.                    *)

LEMMA PositionedValues ==
    ASSUME NEW s, IsTerrain(s), NEW ps
    PROVE  LET r == Positioned(s, ps)
           IN  /\ ps = <<>> => r.positions = <<>>
               /\ ps # <<>> /\ ~Starts(s, ps) => r = s
               /\ Starts(s, ps) => r.positions = ps /\ DOMAIN r.views = 1 .. Len(ps)
<1> DEFINE r == Positioned(s, ps)
<1>1. ASSUME ps = <<>>
      PROVE  r.positions = <<>>
  BY <1>1 DEF Positioned, IsTerrain
<1>2. ASSUME ps # <<>>, ~Starts(s, ps)
      PROVE  r = s
  BY <1>2 DEF Positioned, IsTerrain, Starts
<1>3. ASSUME Starts(s, ps)
      PROVE  r.positions = ps /\ DOMAIN r.views = 1 .. Len(ps)
  <2> DEFINE m == [s EXCEPT !.positions = ps]
             v == Resized(s.views, Len(ps))
  <2>1. r = [s EXCEPT !.positions = ps, !.views = Resized(@, Len(ps))]
    BY <1>3 DEF Positioned, Starts
  <2>2. r = [positions |-> ps, views |-> v, item |-> s.item]
    BY <2>1 DEF IsTerrain
  <2>3. DOMAIN v = 1 .. Len(ps)
    BY DEF Resized
  <2> HIDE DEF r, v
  <2> QED
    BY <2>2, <2>3
<1> QED
  BY <1>1, <1>2, <1>3

LEMMA OfOne == \A x : ToSet(<<x>>) = {x} /\ ToSet(<<>>) = {} /\ <<x>> # <<>>
BY DEF ToSet

LEMMA NewInfo ==
    ASSUME IsInfo(info), NEW fresh \in Item, NEW r, IsItem(r),
           NEW after, after = [info EXCEPT ![fresh] = r]
    PROVE  Changed(after, fresh, {}) /\ after[fresh] = r
<1>1. \A i \in Item : after[i] = IF i = fresh THEN r ELSE info[i]
  BY DEF IsInfo
<1>2. after = [i \in Item |-> after[i]]
  BY DEF IsInfo
<1> QED
  BY <1>1, <1>2, SameItemSame DEF Changed, IsInfo

\* What setTerrainPreloadPositions does with the items.
LEMMA TerrainSetItems ==
    ASSUME IInv, ItemInv, NEW s, IsTerrain(s), s.item = terrain.item, NEW ps, DOMAIN ps = 1 .. Len(ps),
           setTerrainPreloadPositions(s, ps)
    PROVE  /\ mUnref \subseteq mUnref' /\ UNCHANGED <<mPreloadCells, mUpdateCacheItem, mObjects>>
           /\ Queue!Known \subseteq Queue!Known'
           /\ \E fresh : /\ Shape(fresh, {})
                        /\ \/ /\ Starts(s, ps) /\ fresh # NoItem /\ terrain'.item = fresh /\ terrain'.positions = ps
                              /\ \E vs : info'[fresh] = TerrainItem(ps, vs) /\ DOMAIN vs = DOMAIN ps
                           \/ /\ ~Starts(s, ps) /\ fresh = NoItem /\ terrain'.item = s.item
                              /\ ps = <<>> => terrain'.positions = <<>>
                              /\ ps # <<>> => terrain'.positions = s.positions
<1> DEFINE p == Positioned(s, ps)
<1>1. IsTerrain(p) /\ p.item = s.item
  BY PositionedShape
<1>2. mUnref \subseteq mUnref' /\ UNCHANGED <<mPreloadCells, mUpdateCacheItem, mObjects>> /\ IsInfo(info)
  BY DEF setTerrainPreloadPositions, updateVars, ItemInv
<1>3. CASE Starts(s, ps)
  <2>1. /\ Unused # {} /\ Queue!addWorkItem(Fresh, FALSE) /\ terrain' = [p EXCEPT !.item = Fresh]
        /\ info' = Freed([info EXCEPT ![Fresh] = TerrainItem(ps, p.views)])
    BY <1>3 DEF setTerrainPreloadPositions
  <2>2. Fresh \in Item \ Referenced /\ QueueKept(Fresh) /\ Queue!Known \subseteq Queue!Known' /\ Fresh # NoItem
    BY <2>1, QueueAdds, ItemsAssumption DEF Queue!ItemAssumption
  <2> DEFINE r == TerrainItem(ps, p.views)
             next == [info EXCEPT ![Fresh] = r]
  <2>3. p.positions = ps /\ DOMAIN p.views = DOMAIN ps
    BY <1>3, PositionedValues
  <2>4. Changed(next, Fresh, {}) /\ next[Fresh] = r
    <3>1. IsItem(r)
      BY NewItems
    <3> HIDE DEF r, Fresh
    <3> QED
      BY <1>2, <2>2, <3>1, NewInfo
  <2>5. info' = Freed(next)
    BY <2>1
  <2> HIDE DEF Fresh, next, p, r
  <2>6. terrain'.item = Fresh /\ terrain'.positions = ps
    BY <1>1, <2>1, <2>3 DEF IsTerrain
  <2>7. Fresh \in Referenced' /\ References' \subseteq References \cup {Fresh}
    BY <1>2, <2>6, ReferencesReferenced DEF References
  <2>8. InfoKept(Fresh, {}) /\ info'[Fresh] = r
    BY <2>2, <2>4, <2>5, <2>7, FreedKept
  <2>9. Shape(Fresh, {})
    BY <2>2, <2>7, <2>8 DEF Shape
  <2>10. \E vs : info'[Fresh] = TerrainItem(ps, vs) /\ DOMAIN vs = DOMAIN ps
    BY <2>3, <2>8 DEF r
  <2> QED
    BY <1>2, <1>3, <2>2, <2>6, <2>9, <2>10
<1>4. CASE ~Starts(s, ps)
  <2>1. UNCHANGED queueVars /\ terrain' = p /\ info' = Freed(info)
    BY <1>4 DEF setTerrainPreloadPositions
  <2>2. QueueKept(NoItem) /\ Queue!Known' = Queue!Known
    BY <2>1, QueueWaits DEF queueVars
  <2>3. terrain'.item = s.item /\ (ps = <<>> => terrain'.positions = <<>>) /\ (ps # <<>> => terrain'.positions = s.positions)
    BY <1>1, <1>4, <2>1, PositionedValues
  <2> HIDE DEF p
  <2>4. References' \subseteq References
    BY <1>2, <2>3 DEF References
  <2>5. InfoKept(NoItem, {})
    BY <1>2, <2>1, NoneAborted, FreedKept
  <2>6. Shape(NoItem, {})
    BY <2>2, <2>4, <2>5 DEF Shape
  <2> QED
    BY <1>2, <1>4, <2>2, <2>3, <2>6
<1> QED
  BY <1>3, <1>4

\* The steps that end with setTerrainPreloadPositions: terrain that was told to abort,
\* or is not stored, is replaced.
\* A position that is taken is to be loaded; it is the same as itself, and near itself.
LEMMA CallTaken ==
    ASSUME CallInv, main \in {"preload", "load", "reset", "sync"}, main' \in {"flush", "sync", "idle"},
           main' = "sync" => /\ main # "preload" /\ call'.position = call.position
                             /\ terrain'.positions = <<call.position>>
    PROVE  CallInv'
<1>1. SUFFICES ASSUME main' = "sync"
               PROVE  /\ call'.position \in Position
                      /\ Within(IF call'.near THEN Near ELSE Same, call'.position, terrain'.positions)
  BY DEF CallInv
<1>2. call'.position = call.position /\ call.position \in Position /\ terrain'.positions = <<call.position>>
  BY <1>1 DEF CallInv
<1>3. <<call.position, call.position>> \in Same /\ Same \subseteq Near
  BY <1>2, PositionsAssumption
<1> QED
  BY <1>2, <1>3, OfOne DEF Within

\* A position that is not taken is there already, or is refused and terrain near it is.
LEMMA CallKept ==
    ASSUME CallInv, main \in {"preload", "load"}, main' \in {"flush", "sync", "idle"},
           main' = "sync" => /\ main # "preload" /\ call'.position = call.position
                             /\ terrain'.positions = terrain.positions
                             /\ call'.near \/ Within(Same, call.position, terrain.positions)
    PROVE  CallInv'
<1>1. SUFFICES ASSUME main' = "sync"
               PROVE  /\ call'.position \in Position
                      /\ Within(IF call'.near THEN Near ELSE Same, call'.position, terrain'.positions)
  BY DEF CallInv
<1>2. call.position \in Position /\ Within(Near, call.position, terrain.positions)
  BY <1>1 DEF CallInv
<1> QED
  BY <1>1, <1>2

LEMMA TerrainItems ==
    ASSUME IInv, IInv', ItemInv, NEW s, IsTerrain(s), s.item = terrain.item, NEW ps, DOMAIN ps = 1 .. Len(ps),
           setTerrainPreloadPositions(s, ps), world' = world,
           main \in {"preload", "load", "reset", "sync"}, main' \in {"flush", "sync", "idle"},
           IF main \in {"reset", "sync"} THEN Starts(s, ps) ELSE s = terrain,
           main' = "sync" => main # "preload" /\ ps = <<call.position>>
                               /\ call' = Called(call.position, TRUE, Refuses(s, ps)),
           stored \subseteq stored', NoPartialView'
    PROVE  ItemsStep /\ CellItemsKept
<1>1. /\ mUnref \subseteq mUnref' /\ UNCHANGED <<mPreloadCells, mUpdateCacheItem, mObjects>>
      /\ Queue!Known \subseteq Queue!Known' /\ IsObjects'
  BY TerrainSetItems DEF ItemInv, IsObjects
<1>2. PICK fresh :
          /\ Shape(fresh, {})
          /\ \/ /\ Starts(s, ps) /\ fresh # NoItem /\ terrain'.item = fresh /\ terrain'.positions = ps
                /\ \E vs : info'[fresh] = TerrainItem(ps, vs) /\ DOMAIN vs = DOMAIN ps
             \/ /\ ~Starts(s, ps) /\ fresh = NoItem /\ terrain'.item = s.item
                /\ ps = <<>> => terrain'.positions = <<>>
                /\ ps # <<>> => terrain'.positions = s.positions
  BY TerrainSetItems
<1>3. CellsShape(fresh, {})
  BY <1>1, <1>2, CellsSame
<1>4. TerrainInv' /\ StoredInv' /\ CallInv'
  <2>1. CASE /\ Starts(s, ps) /\ fresh # NoItem /\ terrain'.item = fresh /\ terrain'.positions = ps
             /\ \E vs : info'[fresh] = TerrainItem(ps, vs) /\ DOMAIN vs = DOMAIN ps
    <3>1. PICK vs : info'[fresh] = TerrainItem(ps, vs) /\ DOMAIN vs = DOMAIN ps
      BY <2>1
    <3>2. LET r == info'[fresh] IN r.kind = "terrain" /\ ~r.mAbort /\ r.positions = ps /\ DOMAIN r.views = DOMAIN ps
      BY <3>1, NewItems
    <3>3. TerrainInv'
      BY <2>1, <3>2 DEF TerrainInv
    <3>4. StoredInv'
      BY <2>1 DEF StoredInv
    <3>5. CallInv'
      <4>1. CallInv
        BY DEF ItemInv
      <4>2. main' = "sync" => call'.position = call.position
        BY DEF Called
      <4> QED
        BY <2>1, <4>1, <4>2, CallTaken
    <3> QED
      BY <3>3, <3>4, <3>5
  <2>2. CASE /\ ~Starts(s, ps) /\ fresh = NoItem /\ terrain'.item = s.item
             /\ ps = <<>> => terrain'.positions = <<>>
             /\ ps # <<>> => terrain'.positions = s.positions
    <3>1. s = terrain /\ main \in {"preload", "load"}
      BY <2>2
    <3>2. ToSet(terrain'.positions) \subseteq ToSet(terrain.positions)
      BY <2>2, <3>1, OfOne
    <3>3. terrain.item # NoItem => ~info[terrain.item].mAbort
      BY <3>1 DEF ItemInv, TerrainInv
    <3>4. TerrainShape({})
      BY <2>2, <3>1, <3>2, <3>3 DEF TerrainShape
    <3>5. TerrainInv'
      BY <1>2, <3>4, TerrainKept
    <3>6. StoredInv'
      <4>1. terrain.item = NoItem =>
                \A p \in ToSet(terrain.positions) : [position |-> p, whole |-> TRUE] \in stored
        BY <3>1 DEF ItemInv, StoredInv, Ending, Ended
      <4> QED
        BY <2>2, <3>1, <3>2, <4>1 DEF StoredInv
    <3>7. CallInv'
      <4>1. CallInv
        BY DEF ItemInv
      <4>2. ASSUME main' = "sync"
            PROVE  /\ main # "preload" /\ call'.position = call.position
                   /\ terrain'.positions = terrain.positions
                   /\ call'.near \/ Within(Same, call.position, terrain.positions)
        <5>1. /\ call'.position = call.position /\ (Refuses(terrain, ps) => call'.near)
              /\ main # "preload" /\ ps = <<call.position>>
          <6>1. /\ main # "preload" /\ ps = <<call.position>>
                /\ call' = Called(call.position, TRUE, Refuses(s, ps))
            BY <4>2
          <6>2. call'.position = call.position /\ call'.near = Refuses(s, ps)
            BY <6>1 DEF Called
          <6> QED
            BY <3>1, <6>1, <6>2
        <5>2. ps # <<>> /\ ToSet(ps) = {call.position}
          BY <5>1, OfOne
        <5>3. terrain'.positions = terrain.positions
          BY <2>2, <3>1, <5>2
        <5>4. ~Refuses(terrain, ps) => Within(Same, call.position, terrain.positions)
          BY <2>2, <3>1, <5>2 DEF Starts, Refuses, contains
        <5> QED
          BY <5>1, <5>3, <5>4
      <4> QED
        BY <3>1, <4>1, <4>2, CallKept
    <3> QED
      BY <3>5, <3>6, <3>7
  <2> QED
    BY <1>2, <2>1, <2>2
<1>5. ItemsStep
  BY <1>1, <1>2, <1>3, <1>4, StepItems
<1>6. \A c \in Cell : mPreloadCells[c].item \in Referenced' \cup {NoItem}
  BY <1>1 DEF Referenced
<1>7. mUnref \subseteq Referenced'
  BY <1>1 DEF Referenced
<1> QED
  BY <1>1, <1>5, <1>6, <1>7, RefKept

LEMMA preloadTerrainPositionsItems ==
    ASSUME IInv, IInv', ItemInv, NEW ps \in world.exteriorPositions, preloadTerrainPositions(ps)
    PROVE  ItemsStep /\ CellItemsKept
<1>1. /\ main = "preload" /\ main' = "flush" /\ world' = world /\ stored' = stored
      /\ setTerrainPreloadPositions(terrain, ps) /\ IsTerrain(terrain)
  BY DEF preloadTerrainPositions, At, sceneVars, IInv, RefInv
<1>2. DOMAIN ps = 1 .. Len(ps)
  <2>1. ps \in Seq(Position)
    BY WorldsAssumption DEF ItemInv
  <2> QED
    BY <2>1
<1>3. NoPartialView'
  BY <1>1 DEF ItemInv, NoPartialView
<1> QED
  BY <1>1, <1>2, <1>3, TerrainItems

LEMMA Emptied ==
    ASSUME IsTerrain(terrain), ~Busy(terrain.item), NEW p
    PROVE  LET s == Positioned(terrain, <<>>)
           IN  IsTerrain(s) /\ s.item = terrain.item /\ Starts(s, <<p>>)
<1>1. LET s == Positioned(terrain, <<>>) IN IsTerrain(s) /\ s.item = terrain.item /\ s.positions = <<>>
  BY PositionedShape, PositionedValues
<1> QED
  BY <1>1, OfOne DEF Starts, contains, Within, IsBusy

\* Only after the wait of abortTerrainPreloadExcept is the terrain replaced at all.
LEMMA loadTerrainItems ==
    ASSUME IInv, IInv', ItemInv, loadTerrain
    PROVE  ItemsStep /\ CellItemsKept
<1> DEFINE s == IF main = "reset" THEN Positioned(terrain, <<>>) ELSE terrain
           ps == <<call.position>>
<1>1. /\ main \in {"load", "reset"} /\ awaited = NoItem /\ main' \in {"sync", "idle"} /\ world' = world
      /\ main' = "sync" => call' = Called(call.position, TRUE, Refuses(s, ps))
      /\ stored' = stored /\ setTerrainPreloadPositions(s, ps) /\ IsTerrain(terrain)
  BY DEF loadTerrain, Return, IInv, RefInv
<1>2. main = "reset" => ~Busy(terrain.item)
  BY <1>1 DEF ItemInv, CallInv, Busy
<1>3. /\ IsTerrain(s) /\ s.item = terrain.item
      /\ IF main \in {"reset", "sync"} THEN Starts(s, ps) ELSE s = terrain
  BY <1>1, <1>2, Emptied
<1>4. NoPartialView' /\ DOMAIN ps = 1 .. Len(ps)
  BY <1>1 DEF ItemInv, NoPartialView
<1>5. main' = "sync" => main # "preload" /\ ps = <<call.position>>
                         /\ call' = Called(call.position, TRUE, Refuses(s, ps))
  BY <1>1
<1> HIDE DEF s, ps
<1> QED
  BY <1>1, <1>3, <1>4, <1>5, TerrainItems

\* storeViews of an item that is done: it was not told to abort, so it has all.
LEMMA Stores ==
    ASSUME ItemInv, terrain.item # NoItem, ~Busy(terrain.item), main \notin {"reset", "destroyTerrain"},
           terrain.item \in Item, storeViews(terrain.item)
    PROVE  /\ stored \subseteq stored' /\ NoPartialView'
           /\ StoresAll(terrain.item) =>
                 \A p \in ToSet(terrain.positions) : [position |-> p, whole |-> TRUE] \in stored'
<1> DEFINE i == terrain.item
           r == info[i]
<1>1. /\ ~r.mAbort /\ DOMAIN r.positions = 1 .. Len(r.positions) /\ DOMAIN r.views = DOMAIN r.positions
      /\ ToSet(terrain.positions) \subseteq ToSet(r.positions)
  BY DEF ItemInv, TerrainInv
<1>2. r.whole = TRUE
  <2>1. i \in References \cap Worked
    BY DEF References, Worked, QueueFacts!Worked, Busy
  <2>2. r.whole
    BY <1>1, <2>1 DEF ItemInv, WorkInv
  <2> QED
    BY <2>2 DEF ItemInv, IsInfo, IsItem
<1>3. stored' = stored \cup
          { [position |-> r.positions[k], whole |-> r.whole] :
              k \in { n \in DOMAIN r.views : \A m \in 1..n : r.views[m] } }
  BY DEF storeViews
<1>4. NoPartialView'
  <2>1. \A view \in stored : view.whole
    BY DEF ItemInv, NoPartialView
  <2>2. ASSUME NEW p
        PROVE  [position |-> p, whole |-> r.whole].whole
    BY <1>2
  <2> HIDE DEF r
  <2> QED
    BY <1>3, <2>1, <2>2 DEF NoPartialView
<1>5. ASSUME StoresAll(i), NEW p \in ToSet(terrain.positions)
      PROVE  [position |-> p, whole |-> TRUE] \in stored'
  <2>1. \A k \in DOMAIN r.views : r.views[k]
    BY <1>5 DEF StoresAll
  <2>2. PICK n \in DOMAIN r.positions : p = r.positions[n]
    BY <1>1 DEF ToSet
  <2> HIDE DEF r
  <2>3. n \in DOMAIN r.views /\ \A m \in 1..n : m \in DOMAIN r.views
    BY <1>1, <2>2
  <2>4. [position |-> r.positions[n], whole |-> r.whole] \in stored'
    BY <1>3, <2>1, <2>3
  <2> QED
    BY <1>2, <2>2, <2>4
<1> QED
  BY <1>3, <1>4, <1>5

LEMMA syncTerrainLoadItems ==
    ASSUME IInv, IInv', ItemInv, syncTerrainLoad
    PROVE  ItemsStep /\ CellItemsKept
<1>1. main = "sync" /\ ~Busy(terrain.item) /\ world' = world /\ IsTerrain(terrain) /\ IsInfo(info)
  BY DEF syncTerrainLoad, At, IInv, RefInv, ItemInv
<1>2. terrain.item # NoItem => terrain.item \in Item
  BY RefTypes DEF References
<1>3. CASE terrain.item = NoItem \/ StoresAll(terrain.item)
  <2>1. /\ main' = "idle" /\ terrain' = [terrain EXCEPT !.item = NoItem] /\ UNCHANGED queueVars
        /\ UNCHANGED <<mPreloadCells, mUpdateCacheItem, mUnref, mObjects>> /\ info' = Freed(info)
        /\ IF terrain.item = NoItem THEN stored' = stored ELSE storeViews(terrain.item)
    BY <1>3 DEF syncTerrainLoad, Return, updateVars, unrefVars
  <2>2. terrain'.item = NoItem /\ terrain'.positions = terrain.positions
    BY <1>1, <2>1 DEF IsTerrain
  <2>3. QueueKept(NoItem) /\ Queue!Known' = Queue!Known
    BY <2>1, QueueWaits DEF queueVars
  <2>4. InfoKept(NoItem, {})
    BY <1>1, <2>1, NoneAborted, FreedKept
  <2>5. Shape(NoItem, {})
    BY <2>1, <2>2, <2>3, <2>4 DEF Shape, References
  <2>6. CellsShape(NoItem, {})
    BY <1>1, <2>1, <2>5, CellsSame
  <2>7. StoredInv' /\ NoPartialView'
    <3>1. CASE terrain.item = NoItem
      <4>1. stored' = stored
        BY <2>1, <3>1
      <4> QED
        BY <1>1, <2>2, <3>1, <4>1 DEF ItemInv, StoredInv, NoPartialView, Ending, Ended
    <3>2. CASE terrain.item # NoItem
      <4>1. NoPartialView' /\ \A p \in ToSet(terrain.positions) : [position |-> p, whole |-> TRUE] \in stored'
        BY <1>1, <1>2, <1>3, <2>1, <3>2, Stores
      <4> QED
        BY <2>2, <4>1 DEF StoredInv
    <3> QED
      BY <3>1, <3>2
  <2>8. TerrainInv' /\ CallInv' /\ IsObjects'
    BY <2>1, <2>2 DEF TerrainInv, CallInv, ItemInv, IsObjects
  <2>9. ItemsStep
    BY <1>1, <2>1, <2>5, <2>6, <2>7, <2>8, StepItems
  <2>10. \A c \in Cell : mPreloadCells[c].item \in Referenced' \cup {NoItem}
    BY <2>1 DEF Referenced
  <2>11. mUnref \subseteq Referenced'
    BY <2>1 DEF Referenced
  <2> QED
    BY <2>1, <2>3, <2>9, <2>10, <2>11, RefKept
<1>4. CASE terrain.item # NoItem /\ ~StoresAll(terrain.item)
  <2> DEFINE s == Positioned(terrain, <<>>)
             ps == <<call.position>>
  <2>1. /\ main' = "sync" /\ call' = Called(call.position, TRUE, FALSE) /\ storeViews(terrain.item)
        /\ setTerrainPreloadPositions(s, ps)
    BY <1>1, <1>4 DEF syncTerrainLoad
  <2>2. stored \subseteq stored' /\ NoPartialView'
    BY <1>1, <1>2, <1>4, <2>1, Stores
  <2>3. IsTerrain(s) /\ s.item = terrain.item /\ Starts(s, ps)
    BY <1>1, Emptied
  <2>4. DOMAIN ps = 1 .. Len(ps) /\ ps = <<call.position>>
    OBVIOUS
  <2>5. Refuses(s, ps) = FALSE
    BY <2>3 DEF Starts, Refuses
  <2> HIDE DEF s, ps
  <2> QED
    BY <1>1, <2>1, <2>2, <2>3, <2>4, <2>5, TerrainItems
<1> QED
  BY <1>3, <1>4

LEMMA updateViewsItems ==
    ASSUME IInv, IInv', ItemInv, updateViews
    PROVE  ItemsStep /\ CellItemsKept
<1>1. /\ main = "views" /\ main' = "preload" /\ UNCHANGED <<world, call, mPreloadCells, mUpdateCacheItem, mObjects>>
      /\ UNCHANGED queueVars /\ IsTerrain(terrain) /\ IsInfo(info) /\ IsObjects' /\ info' = Freed(info)
  BY DEF updateViews, At, sceneVars, updateVars, IInv, RefInv, ItemInv, IsObjects
<1>2. QueueKept(NoItem) /\ Queue!Known' = Queue!Known
  BY <1>1, QueueWaits DEF queueVars
<1>3. InfoKept(NoItem, {})
  BY <1>1, NoneAborted, FreedKept
<1>4. /\ terrain'.item \in {terrain.item, NoItem} /\ mUnref \subseteq mUnref'
      /\ TerrainInv' /\ StoredInv' /\ NoPartialView' /\ Shape(NoItem, {})
  <2>1. CASE terrain.item # NoItem /\ ~Busy(terrain.item)
    <3> DEFINE left == IF StoresAll(terrain.item) THEN terrain ELSE Positioned(terrain, <<>>)
    <3>1. storeViews(terrain.item) /\ mUnref \subseteq mUnref' /\ terrain' = [left EXCEPT !.item = NoItem]
      BY <2>1 DEF updateViews
    <3>2. IsTerrain(left) /\ left.positions = IF StoresAll(terrain.item) THEN terrain.positions ELSE <<>>
      BY <1>1, PositionedShape, PositionedValues
    <3> HIDE DEF left
    <3>3. terrain'.item = NoItem /\ terrain'.positions = left.positions
      BY <3>1, <3>2 DEF IsTerrain
    <3>4. terrain.item \in Item
      BY <2>1, RefTypes DEF References
    <3>5. /\ NoPartialView'
          /\ StoresAll(terrain.item) =>
                \A p \in ToSet(terrain.positions) : [position |-> p, whole |-> TRUE] \in stored'
      BY <1>1, <2>1, <3>1, <3>4, Stores
    <3>6. StoredInv'
      BY <3>2, <3>3, <3>5, OfOne DEF StoredInv
    <3>7. TerrainInv'
      BY <3>3 DEF TerrainInv
    <3>8. Shape(NoItem, {})
      BY <1>1, <1>2, <1>3, <3>3 DEF Shape, References
    <3> QED
      BY <3>1, <3>3, <3>5, <3>6, <3>7, <3>8
  <2>2. CASE ~(terrain.item # NoItem /\ ~Busy(terrain.item))
    <3>1. terrain' = terrain /\ stored' = stored /\ mUnref' = mUnref
      BY <2>2 DEF updateViews, terrainVars
    <3>2. Shape(NoItem, {})
      BY <1>1, <1>2, <1>3, <3>1 DEF Shape, References
    <3>3. TerrainInv' /\ StoredInv' /\ NoPartialView'
      BY <1>1, <3>1, <3>2, TerrainSame DEF terrainVars, Ending, Ended
    <3> QED
      BY <3>1, <3>2, <3>3
  <2> QED
    BY <2>1, <2>2
<1>5. CallInv'
  BY <1>1 DEF CallInv
<1>6. CellsShape(NoItem, {})
  BY <1>1, <1>4, CellsSame
<1>7. ItemsStep
  BY <1>1, <1>4, <1>5, <1>6, StepItems
<1>8. \A c \in Cell : mPreloadCells[c].item \in Referenced' \cup {NoItem}
  BY <1>1 DEF Referenced
<1>9. mUnref \subseteq Referenced'
  BY <1>4 DEF Referenced
<1> QED
  BY <1>1, <1>2, <1>7, <1>8, <1>9, RefKept

\* After a rebuild nothing of the terrain counts as stored.
LEMMA reloadTerrainItems ==
    ASSUME IInv, IInv', ItemInv, reloadTerrain
    PROVE  ItemsStep /\ CellItemsKept
<1> DEFINE old == [terrain EXCEPT !.views = Old(@)]
<1>1. /\ main = "idle" /\ main' = "idle" /\ UNCHANGED <<world, call, mPreloadCells, mUpdateCacheItem, mObjects>>
      /\ UNCHANGED queueVars /\ IsTerrain(terrain) /\ IsInfo(info) /\ IsObjects' /\ info' = Freed(OldInfo)
      /\ mUnref \subseteq mUnref' /\ stored' = {} /\ terrain' = Positioned(old, <<>>)
  BY DEF reloadTerrain, At, sceneVars, updateVars, IInv, RefInv, ItemInv, IsObjects
<1>2. QueueKept(NoItem) /\ Queue!Known' = Queue!Known
  BY <1>1, QueueWaits DEF queueVars
<1>3. InfoKept(NoItem, {})
  BY <1>1, ChangedByAbort, FreedKept
<1>4. IsTerrain(old) /\ old.item = terrain.item
  BY <1>1, OldViews
<1> HIDE DEF old
<1>5. terrain'.item = terrain.item /\ terrain'.positions = <<>>
  BY <1>1, <1>4, PositionedShape, PositionedValues
<1>6. Shape(NoItem, {})
  BY <1>1, <1>2, <1>3, <1>5 DEF Shape, References
<1>7. TerrainInv'
  <2>1. terrain.item # NoItem => ~info[terrain.item].mAbort
    BY <1>1 DEF ItemInv, TerrainInv
  <2>2. TerrainShape({})
    BY <1>5, <2>1, OfOne DEF TerrainShape
  <2> QED
    BY <1>6, <2>2, TerrainKept
<1>8. StoredInv' /\ CallInv' /\ NoPartialView'
  BY <1>1, <1>5, OfOne DEF StoredInv, CallInv, NoPartialView
<1>9. CellsShape(NoItem, {})
  BY <1>1, <1>6, CellsSame
<1>10. ItemsStep
  BY <1>1, <1>6, <1>7, <1>8, <1>9, StepItems
<1>11. \A c \in Cell : mPreloadCells[c].item \in Referenced' \cup {NoItem}
  BY <1>1 DEF Referenced
<1>12. mUnref \subseteq Referenced'
  BY <1>1 DEF Referenced
<1> QED
  BY <1>1, <1>2, <1>10, <1>11, <1>12, RefKept

\* What begins a wait leaves what the queue refers to.
LEMMA Awaits ==
    ASSUME ItemInv, NEW i, UNCHANGED queueVars \/ Await(i)
    PROVE  /\ QueueKept(NoItem) /\ Queue!Known' = Queue!Known /\ mDone' = mDone
           /\ Await(i) => awaited' = i \/ ~Busy(i)
<1>1. UNCHANGED <<mQueue, mDone, pc, item>>
  BY DEF queueVars, Await, Queue!waitTillDone
<1>2. Await(i) => awaited' = i \/ ~Busy(i)
  BY DEF Await, Queue!waitTillDone, Busy
<1> QED
  BY <1>1, <1>2, QueueWaits

\* The steps that abort the terrain and begin to wait for it, or find nothing to abort.
LEMMA AbortItems ==
    ASSUME IInv, IInv', ItemInv, NEW next, Changed(next, NoItem, {}), NEW a \in BOOLEAN,
           a => terrain.item \in Item /\ main' \in {"reset", "destroyTerrain"},
           info' = IF a THEN [next EXCEPT ![terrain.item].mAbort = TRUE] ELSE next,
           UNCHANGED <<world, mPreloadCells, mUpdateCacheItem, mObjects, mUnref>>,
           UNCHANGED queueVars \/ Await(terrain.item),
           terrain'.item = terrain.item, terrain'.positions = terrain.positions,
           main = "idle", main' \in {"load", "reset", "destroyTerrain"},
           StoredInv', CallInv', NoPartialView'
    PROVE  ItemsStep /\ CellItemsKept
<1> DEFINE aborted == IF a THEN {terrain.item} ELSE {}
<1>1. QueueKept(NoItem) /\ Queue!Known' = Queue!Known
  BY Awaits
<1>2. References' = References /\ Referenced' = Referenced
  BY <1>1 DEF References, Referenced
<1>3. Changed(info', NoItem, aborted)
  BY ChangedByOne
<1>4. Shape(NoItem, aborted)
  BY <1>1, <1>2, <1>3, Unfreed DEF Shape
<1>5. TerrainInv'
  <2>1. terrain.item # NoItem => ~info[terrain.item].mAbort
    BY DEF ItemInv, TerrainInv
  <2>2. TerrainShape(aborted)
    BY <2>1 DEF TerrainShape
  <2> QED
    BY <1>4, <2>2, TerrainKept
<1>6. CellsShape(NoItem, aborted)
  BY <1>4, CellsSame
<1>7. IsObjects'
  BY DEF ItemInv, IsObjects
<1>8. ItemsStep
  BY <1>4, <1>5, <1>6, <1>7, StepItems
<1> QED
  BY <1>2, <1>8 DEF CellItemsKept

LEMMA preloadTerrainItems ==
    ASSUME IInv, IInv', ItemInv, NEW p \in Position, NEW s \in BOOLEAN, NEW unlocked \in BOOLEAN,
           preloadTerrain(p, s, unlocked)
    PROVE  ItemsStep /\ CellItemsKept
<1> DEFINE excepted == Spared(p, unlocked)
           next == IF unlocked THEN OldInfo ELSE info
<1>1. /\ main = "idle" /\ awaited = NoItem /\ UNCHANGED <<world, mPreloadCells, mUpdateCacheItem, mObjects, mUnref>>
      /\ call' = Called(p, s, FALSE)
      /\ main' = IF excepted THEN "load" ELSE "reset"
      /\ stored' = IF unlocked THEN {} ELSE stored
      /\ terrain' = IF unlocked THEN [terrain EXCEPT !.views = Old(@)] ELSE terrain
      /\ IF excepted THEN UNCHANGED queueVars ELSE Await(terrain.item)
      /\ info' = IF ~excepted /\ Busy(terrain.item) THEN [next EXCEPT ![terrain.item].mAbort = TRUE] ELSE next
  BY DEF preloadTerrain, At, updateVars, unrefVars
<1>2. IsTerrain(terrain) /\ IsInfo(info)
  BY DEF IInv, RefInv, ItemInv
<1>3. terrain'.item = terrain.item /\ terrain'.positions = terrain.positions
  BY <1>1, <1>2 DEF IsTerrain
<1>4. Changed(next, NoItem, {})
  BY <1>2, ChangedByAbort
<1> HIDE DEF next
<1>5. PICK a \in BOOLEAN : a <=> ~excepted /\ Busy(terrain.item)
  OBVIOUS
<1>6. a => terrain.item \in Item /\ main' \in {"reset", "destroyTerrain"}
  BY <1>1, <1>5, RefTypes DEF References, Busy
<1>7. info' = IF a THEN [next EXCEPT ![terrain.item].mAbort = TRUE] ELSE next
  BY <1>1, <1>5
<1>8. StoredInv'
  <2>1. CASE excepted
    <3>1. stored' = stored
      BY <1>1, <2>1 DEF Spared
    <3> QED
      BY <1>1, <1>3, <3>1 DEF ItemInv, StoredInv, Ending, Ended
  <2>2. CASE ~excepted
    <3>1. main' = "reset"
      BY <1>1, <2>2
    <3> QED
      BY <3>1 DEF StoredInv
  <2> QED
    BY <2>1, <2>2
<1>9. CallInv'
  <2>1. ASSUME main' = "reset"
        PROVE  awaited' = terrain'.item \/ ~Busy(terrain.item)'
    <3>1. Await(terrain.item)
      BY <1>1, <2>1
    <3>2. mDone' = mDone /\ (awaited' = terrain.item \/ ~Busy(terrain.item))
      BY <3>1, Awaits
    <3> QED
      BY <1>3, <3>2 DEF Busy
  <2>2. ASSUME main' = "load"
        PROVE  Within(Near, call'.position, terrain'.positions)
    BY <1>1, <1>3, <2>2 DEF Spared, Called
  <2>3. call'.position \in Position /\ main' # "sync"
    BY <1>1 DEF Called
  <2> QED
    BY <2>1, <2>2, <2>3 DEF CallInv
<1>10. NoPartialView'
  BY <1>1 DEF ItemInv, NoPartialView
<1>11. UNCHANGED queueVars \/ Await(terrain.item)
  BY <1>1
<1>12. main' \in {"load", "reset", "destroyTerrain"}
  BY <1>1
<1> HIDE DEF excepted
<1> QED
  BY <1>1, <1>3, <1>4, <1>6, <1>7, <1>8, <1>9, <1>10, <1>11, <1>12, AbortItems

-----------------------------------------------------------------------------
(* The end, and the threads.                                               *)

LEMMA destroyItems ==
    ASSUME IInv, IInv', ItemInv, destroy
    PROVE  ItemsStep /\ CellItemsKept
<1>1. /\ main = "idle" /\ main' = "destroyTerrain" /\ Await(terrain.item)
      /\ UNCHANGED <<world, call, mPreloadCells, mUpdateCacheItem, mObjects, mUnref, terrain, stored>>
      /\ info' = IF Busy(terrain.item) THEN [info EXCEPT ![terrain.item].mAbort = TRUE] ELSE info
  BY DEF destroy, At, sceneVars, updateVars, unrefVars, terrainVars
<1>2. PICK a \in BOOLEAN : a <=> Busy(terrain.item)
  OBVIOUS
<1>3. a => terrain.item \in Item
  BY <1>2, RefTypes DEF References, Busy
<1>4. info' = IF a THEN [info EXCEPT ![terrain.item].mAbort = TRUE] ELSE info
  BY <1>1, <1>2
<1>5. Changed(info, NoItem, {})
  BY NoneAborted DEF ItemInv
<1>6. StoredInv' /\ CallInv' /\ NoPartialView'
  BY <1>1 DEF ItemInv, StoredInv, CallInv, NoPartialView, Ending, Ended
<1> QED
  BY <1>1, <1>3, <1>4, <1>5, <1>6, AbortItems

\* The steps without the item of the terrain.
LEMMA EndItems ==
    ASSUME IInv, IInv', ItemInv, main' \in Ending, NEW aborted, Shape(NoItem, aborted), CellsShape(NoItem, aborted),
           UNCHANGED <<world, mObjects, stored>>, mUpdateCacheItem' \in {mUpdateCacheItem, NoItem}
    PROVE  ItemsStep
<1>1. terrain'.item = NoItem
  BY DEF IInv, RefInv
<1>2. main' \notin {"reset", "load", "sync"}
  BY DEF Ending, Ended
<1>3. TerrainInv' /\ StoredInv' /\ CallInv' /\ NoPartialView'
  BY <1>1, <1>2 DEF TerrainInv, StoredInv, CallInv, NoPartialView, ItemInv
<1>4. IsObjects'
  BY DEF ItemInv, IsObjects
<1> QED
  BY <1>3, <1>4, StepItems

LEMMA destroyTerrainItems ==
    ASSUME IInv, IInv', ItemInv, destroyTerrain
    PROVE  ItemsStep /\ CellItemsKept
<1>1. /\ main = "destroyTerrain" /\ main' = "destroyCells" /\ Await(mUpdateCacheItem) /\ terrain' = [terrain EXCEPT !.item = NoItem]
      /\ UNCHANGED <<world, call, mPreloadCells, mUpdateCacheItem, mObjects, mUnref, stored>>
      /\ info' = Freed(info) /\ IsInfo(info) /\ IsTerrain(terrain)
  BY DEF destroyTerrain, At, sceneVars, updateVars, unrefVars, terrainVars, ItemInv, IInv, RefInv
<1>2. QueueKept(NoItem) /\ Queue!Known' = Queue!Known
  BY <1>1, Awaits
<1>3. terrain'.item = NoItem
  BY <1>1, NoItemSet
<1>4. InfoKept(NoItem, {})
  BY <1>1, NoneAborted, FreedKept
<1>5. Shape(NoItem, {})
  BY <1>1, <1>2, <1>3, <1>4 DEF Shape, References
<1>6. CellsShape(NoItem, {})
  BY <1>1, <1>5, CellsSame
<1>7. main' \in Ending
  BY <1>1 DEF Ending
<1>8. ItemsStep
  BY <1>1, <1>5, <1>6, <1>7, EndItems
<1>9. \A c \in Cell : mPreloadCells[c].item \in Referenced' \cup {NoItem}
  BY <1>1 DEF Referenced
<1>10. mUnref \subseteq Referenced'
  BY <1>1 DEF Referenced
<1> QED
  BY <1>1, <1>2, <1>8, <1>9, <1>10, RefKept

LEMMA destroyCellsItems ==
    ASSUME IInv, IInv', ItemInv, destroyCells
    PROVE  ItemsStep
<1>1. /\ UNCHANGED <<world, mObjects, stored, terrain>> /\ mUpdateCacheItem' = NoItem
      /\ IsInfo(info) /\ AreCells(mPreloadCells)
  BY DEF destroyCells, sceneVars, terrainVars, unrefVars, ItemInv, IInv, RefInv
<1>2. CASE \E c \in Cached : Busy(mPreloadCells[c].item)
  <2>1. /\ main' = "awaitCells" /\ mPreloadCells' = mPreloadCells
        /\ \E c \in Cached : Await(mPreloadCells[c].item)
        /\ info' = Freed(Aborted(ItemsOf(Cached)))
    BY <1>2 DEF destroyCells
  <2>2. QueueKept(NoItem)
    BY <2>1, Awaits
  <2>3. References' \subseteq References \cup {NoItem}
    BY <1>1, <2>1 DEF References
  <2>4. InfoKept(NoItem, ItemsOf(Cached))
    BY <1>1, <2>1, ChangedByAbort, FreedKept
  <2>5. Shape(NoItem, ItemsOf(Cached))
    BY <2>2, <2>3, <2>4 DEF Shape
  <2>6. CellsShape(NoItem, ItemsOf(Cached))
    BY <2>1 DEF CellsShape
  <2>7. main' \in Ending
    BY <2>1 DEF Ending
  <2> QED
    BY <1>1, <2>5, <2>6, <2>7, EndItems
<1>3. CASE ~\E c \in Cached : Busy(mPreloadCells[c].item)
  <2>1. UNCHANGED queueVars /\ main' = "destroyQueue" /\ mPreloadCells' = Without(Cached) /\ info' = Freed(info)
    BY <1>3 DEF destroyCells
  <2>2. QueueKept(NoItem)
    BY <2>1, Awaits
  <2>3. \A c \in Cell : mPreloadCells'[c].item = NoItem
    BY <2>1 DEF Without, Cached, Absent
  <2>4. References' \subseteq References \cup {NoItem}
    BY <1>1, <2>3 DEF References
  <2>5. InfoKept(NoItem, {})
    BY <1>1, <2>1, NoneAborted, FreedKept
  <2>6. Shape(NoItem, {})
    BY <2>2, <2>4, <2>5 DEF Shape
  <2>7. CellsShape(NoItem, {}) /\ main' \in Ending
    BY <2>1, <2>3 DEF CellsShape, Ending, Ended
  <2> QED
    BY <1>1, <2>6, <2>7, EndItems
<1> QED
  BY <1>2, <1>3

LEMMA destroyQueueItems ==
    ASSUME IInv, IInv', ItemInv, destroyQueue \/ join
    PROVE  ItemsStep
<1>1. /\ main \in {"destroyQueue", "join"} /\ main' \in {"join", "joined"}
      /\ UNCHANGED <<world, mPreloadCells, terrain, stored, mUpdateCacheItem, mObjects>> /\ IsInfo(info)
  BY DEF destroyQueue, join, At, sceneVars, terrainVars, updateVars, unrefVars, ItemInv
<1>2. \A c \in Cell : mPreloadCells[c].item = NoItem
  BY <1>1 DEF IInv, RefInv, References, Ended
<1>3. QueueKept(NoItem)
  <2>1. CASE destroyQueue
    <3>1. mDone' = mDone /\ item' = item /\ \A t \in Thread : pc'[t] = "signal" => pc[t] = "signal"
      BY <2>1 DEF destroyQueue, Queue!Release
    <3>2. Worked' \subseteq Worked
      BY <3>1 DEF Worked, QueueFacts!Worked
    <3> QED
      BY <3>2, ItemsAssumption DEF QueueKept, Queue!ItemAssumption
  <2>2. CASE join
    BY <2>2, Awaits DEF join
  <2> QED
    BY <2>1, <2>2
<1>4. InfoKept(NoItem, {})
  <2>1. CASE destroyQueue
    BY <1>1, <2>1, NoneAborted, FreedKept DEF destroyQueue
  <2>2. CASE join
    <3>1. info' = info /\ UNCHANGED <<mObjects, mUnref, queueVars>>
      BY <2>2 DEF join, unrefVars
    <3>2. Queue!Known' = Queue!Known
      BY <3>1, Awaits
    <3>3. Referenced' = Referenced
      BY <1>1, <3>1, <3>2 DEF Referenced
    <3>4. Changed(info', NoItem, {})
      BY <1>1, <3>1, NoneAborted
    <3> QED
      BY <3>3, <3>4, Unfreed
  <2> QED
    BY <2>1, <2>2
<1>5. Shape(NoItem, {})
  BY <1>1, <1>3, <1>4 DEF Shape, References
<1>6. CellsShape(NoItem, {}) /\ main' \in Ending
  BY <1>1, <1>2 DEF CellsShape, Ending, Ended
<1> QED
  BY <1>1, <1>5, <1>6, EndItems

\* Steps that leave the terrain alone, whatever the main thread is doing.
LEMMA TerrainUntouched ==
    ASSUME IInv, ItemInv, Shape(NoItem, {}), UNCHANGED <<main, call, terrain, stored>>,
           awaited' = awaited \/ ~Busy(terrain.item)', mDone \subseteq mDone'
    PROVE  TerrainInv' /\ StoredInv' /\ CallInv' /\ NoPartialView'
<1>1. TerrainShape({})
  BY DEF TerrainShape, ItemInv, TerrainInv
<1>2. TerrainInv'
  BY <1>1, TerrainKept
<1>3. StoredInv' /\ NoPartialView'
  BY DEF ItemInv, StoredInv, NoPartialView
<1>4. CallInv'
  BY DEF ItemInv, CallInv, Busy
<1> QED
  BY <1>2, <1>3, <1>4

LEMMA WholeSet ==
    ASSUME NEW r, IsItem(r), NEW whole \in BOOLEAN, whole \/ r.mAbort,
           NEW s, s = [r EXCEPT !.whole = whole]
    PROVE  IsItem(s) /\ SameItem(r, s, FALSE) /\ (s.whole \/ s.mAbort)
<1>1. ASSUME NEW k, NEW a, NEW w, NEW ps, NEW vs
      PROVE  [[kind |-> k, mAbort |-> a, whole |-> w, positions |-> ps, views |-> vs] EXCEPT !.whole = whole]
               = [kind |-> k, mAbort |-> a, whole |-> whole, positions |-> ps, views |-> vs]
  OBVIOUS
<1>2. s = [kind |-> r.kind, mAbort |-> r.mAbort, whole |-> whole, positions |-> r.positions, views |-> r.views]
  BY <1>1 DEF IsItem
<1>3. /\ s = [kind |-> s.kind, mAbort |-> s.mAbort, whole |-> s.whole, positions |-> s.positions, views |-> s.views]
      /\ s.kind = r.kind /\ s.mAbort = r.mAbort /\ s.whole = whole /\ s.positions = r.positions /\ s.views = r.views
  BY <1>2
<1> QED
  BY <1>3 DEF IsItem, SameItem

\* An item that was told to abort may leave its work half done, no other one.
LEMMA doWorkItems ==
    ASSUME IInv, ItemInv, NEW t \in Thread, doWork(t)
    PROVE  Shape(NoItem, {}) /\ IsObjects' /\ awaited' = awaited /\ mDone' = mDone
<1>1. /\ UNCHANGED <<terrain, mPreloadCells, mUpdateCacheItem>> /\ IsInfo(info)
      /\ Queue!doWork(t) /\ mObjects' = [mObjects EXCEPT ![item[t]] = {}]
  BY DEF doWork, terrainVars, updateVars, ItemInv
<1>2. Worked' \subseteq Worked \cup {item[t]} /\ item[t] \in Item /\ mDone' = mDone /\ awaited' = awaited
  <2>1. QueueFacts!ItemAssumption
    BY ItemsAssumption DEF QueueFacts!ItemAssumption, Queue!ItemAssumption
  <2>2. QueueFacts!doWork(t)
    BY <1>1, SameThread
  <2> QED
    BY <1>1, <2>1, <2>2, QueueFacts!Works DEF IInv, Worked, Queue!doWork
<1> DEFINE i == item[t]
<1>3. PICK whole \in BOOLEAN : (whole \/ info[i].mAbort) /\ info' = Freed([info EXCEPT ![i].whole = whole])
  BY DEF doWork, Completes
<1> DEFINE next == [info EXCEPT ![i].whole = whole]
           r == [info[i] EXCEPT !.whole = whole]
<1>4. \A j \in Item : next[j] = IF j = i THEN r ELSE info[j]
  BY <1>1 DEF IsInfo
<1>5. next = [j \in Item |-> next[j]]
  BY <1>1 DEF IsInfo
<1>6. IsItem(r) /\ SameItem(info[i], r, FALSE) /\ (r.whole \/ r.mAbort)
  BY <1>1, <1>2, <1>3, WholeSet DEF IsInfo
<1>7. info' = Freed(next)
  BY <1>3
<1> HIDE DEF next, r, i
<1>8. Changed(next, NoItem, {})
  <2>1. \A j \in Item : IsItem(next[j]) /\ SameItem(info[j], next[j], FALSE)
    BY <1>1, <1>4, <1>6, SameItemSame DEF IsInfo
  <2> QED
    BY <1>5, <2>1 DEF Changed, IsInfo, SameItem
<1>9. InfoKept(NoItem, {}) /\ \A j \in Item : j \in Referenced' => info'[j] = next[j]
  BY <1>7, <1>8, FreedKept
<1>10. WorkReported
  BY <1>2, <1>4, <1>6, <1>9 DEF WorkReported, i
<1>11. Shape(NoItem, {})
  BY <1>1, <1>9, <1>10 DEF Shape, References
<1>12. IsObjects'
  BY <1>1 DEF ItemInv, IsObjects
<1> QED
  BY <1>2, <1>11, <1>12

LEMMA ThreadItems ==
    ASSUME IInv, IInv', ItemInv, NEW t \in Thread, Thread_(t)
    PROVE  ItemsStep
<1>1. /\ UNCHANGED <<world, main, call, terrain, stored, mPreloadCells, mUpdateCacheItem>> /\ IsInfo(info)
  BY DEF Thread_, doWork, sceneVars, terrainVars, updateVars, ItemInv
<1>2. Shape(NoItem, {}) /\ IsObjects' /\ awaited' = awaited /\ mDone \subseteq mDone'
  <2>1. CASE doWork(t)
    BY <2>1, doWorkItems
  <2>2. CASE ~doWork(t)
    <3>1. Queue!Run(t) /\ info' = Freed(info) /\ mObjects' = mObjects
      BY <2>2 DEF Thread_, unrefVars
    <3>2. QueueKept(NoItem) /\ mDone \subseteq mDone' /\ awaited' = awaited
      BY <3>1, QueueRuns
    <3>3. InfoKept(NoItem, {})
      BY <1>1, <3>1, NoneAborted, FreedKept
    <3>4. Shape(NoItem, {})
      BY <1>1, <3>2, <3>3 DEF Shape, References
    <3> QED
      BY <3>1, <3>2, <3>4 DEF ItemInv, IsObjects
  <2> QED
    BY <2>1, <2>2
<1>3. CellsShape(NoItem, {})
  BY <1>1, <1>2, CellsSame
<1>4. TerrainInv' /\ StoredInv' /\ CallInv' /\ NoPartialView'
  BY <1>1, <1>2, TerrainUntouched
<1> QED
  BY <1>1, <1>2, <1>3, <1>4, StepItems

LEMMA RestItems ==
    ASSUME IInv, IInv', ItemInv, CheckDone \/ UNCHANGED vars \/ \E t \in Thread : SpuriousWakeup(t)
    PROVE  ItemsStep
<1>1. /\ UNCHANGED <<world, main, call, terrain, stored, mPreloadCells, mUpdateCacheItem, mObjects, mUnref, info>>
      /\ Queue!CheckDone \/ UNCHANGED queueVars \/ \E t \in Thread : Queue!SpuriousWakeup(t)
      /\ IsInfo(info)
  BY DEF CheckDone, SpuriousWakeup, vars, sceneVars, terrainVars, updateVars, unrefVars, ItemInv
<1>2. /\ mDone' = mDone /\ item' = item /\ mQueue' = mQueue
      /\ awaited' = awaited \/ (awaited \in mDone /\ awaited' = NoItem)
  BY <1>1 DEF Queue!CheckDone, queueVars, Queue!SpuriousWakeup
<1>3. Worked' \subseteq Worked
  <2>1. \A s \in Thread : pc'[s] = "signal" => pc[s] = "signal"
    <3>1. ASSUME NEW t \in Thread, Queue!SpuriousWakeup(t), NEW s \in Thread, pc'[s] = "signal"
          PROVE  pc[s] = "signal"
      BY <3>1 DEF Queue!SpuriousWakeup, Queue!Go, IInv, QueueFacts!IInv, QueueFacts!TypeOK
    <3>2. CASE Queue!CheckDone \/ UNCHANGED queueVars
      BY <3>2 DEF Queue!CheckDone, queueVars
    <3> QED
      BY <1>1, <3>1, <3>2
  <2> QED
    BY <1>2, <2>1 DEF Worked, QueueFacts!Worked
<1>4. QueueKept(NoItem)
  BY <1>3, ItemsAssumption DEF QueueKept, Queue!ItemAssumption
<1>5. Referenced' = Referenced /\ References' = References
  BY <1>1, <1>2 DEF Referenced, References, Queue!Known, Queue!Held
<1>6. Changed(info', NoItem, {})
  BY <1>1, NoneAborted
<1>7. Shape(NoItem, {})
  BY <1>4, <1>5, <1>6, Unfreed DEF Shape
<1>8. CellsShape(NoItem, {})
  BY <1>1, <1>7, CellsSame
<1>9. TerrainInv' /\ StoredInv' /\ CallInv' /\ NoPartialView'
  <2>1. CASE awaited' = awaited
    BY <1>1, <1>2, <1>7, <2>1, TerrainUntouched
  <2>2. CASE awaited \in mDone
    <3>1. TerrainInv' /\ StoredInv' /\ NoPartialView'
      <4>1. TerrainShape({})
        BY <1>1 DEF TerrainShape, ItemInv, TerrainInv
      <4>2. TerrainInv'
        BY <1>7, <4>1, TerrainKept
      <4> QED
        BY <1>1, <4>2 DEF ItemInv, StoredInv, NoPartialView
    <3>2. CallInv'
      BY <1>1, <1>2, <2>2 DEF ItemInv, CallInv, Busy
    <3> QED
      BY <3>1, <3>2
  <2> QED
    BY <1>2, <2>1, <2>2
<1>10. IsObjects'
  BY <1>1 DEF ItemInv, IsObjects
<1> QED
  BY <1>1, <1>7, <1>8, <1>9, <1>10, StepItems

-----------------------------------------------------------------------------
(* The theorems about what is loaded.                                      *)

LEMMA InitItems == Init => ItemInv
<1> SUFFICES ASSUME Init
             PROVE  ItemInv
  OBVIOUS
<1>1. IsInfo(info) /\ \A i \in Item : info[i].kind # "cell"
  <2>1. \A i \in Item : info[i] = Nobody
    BY DEF Init
  <2>2. info = [i \in Item |-> info[i]]
    BY DEF Init
  <2> QED
    BY <2>1, <2>2, NobodyIsItem DEF IsInfo
<1>2. IsObjects
  BY DEF Init, IsObjects
<1>3. /\ main = "idle" /\ terrain.item = NoItem /\ terrain.positions = <<>> /\ stored = {}
      /\ mUpdateCacheItem = NoItem /\ mDone = {} /\ world \in Worlds
  BY DEF Init, Queue!Init
<1>4. Cached = {}
  BY DEF Init, Cached, Absent
<1>5. WorkInv
  <2>1. \A t \in Thread : pc[t] # "signal"
    BY DEF Init, Queue!Init
  <2>2. Worked = {}
    BY <1>3, <2>1 DEF Worked, QueueFacts!Worked
  <2> QED
    BY <2>2 DEF WorkInv
<1>6. CellInv /\ TerrainInv
  BY <1>3, <1>4 DEF CellInv, TerrainInv
<1>7. StoredInv /\ CallInv /\ NoPartialView
  BY <1>3, OfOne DEF StoredInv, CallInv, NoPartialView
<1>8. KindInv
  BY <1>1, <1>3 DEF KindInv
<1> QED
  BY <1>1, <1>2, <1>3, <1>5, <1>6, <1>7, <1>8 DEF ItemInv

\* Steps of the main thread that let go of no cell themselves.
KeepsCells == ItemsStep /\ CellItemsKept

LEMMA NextItems ==
    ASSUME IInv, IInv', ItemInv, [Next]_vars
    PROVE  /\ ItemInv'
           /\ MainStep /\ main \notin {"destroyCells", "awaitCells", "destroyQueue"} =>
                 KeepsCells \/ info' = info
<1> DEFINE Goal ==
               /\ ItemInv'
               /\ MainStep /\ main \notin {"destroyCells", "awaitCells", "destroyQueue"} =>
                     KeepsCells \/ info' = info
<1> SUFFICES Goal
  OBVIOUS
<1>1. ASSUME KeepsCells
      PROVE  Goal
  BY <1>1 DEF KeepsCells, ItemsStep
<1>2. ASSUME ItemsStep, ~MainStep \/ main \in {"destroyCells", "awaitCells", "destroyQueue"} \/ info' = info
      PROVE  Goal
  BY <1>2 DEF ItemsStep
<1> HIDE DEF Goal
<1>3. ASSUME NEW c \in Cell, preload(c)
      PROVE  Goal
  BY <1>2, <1>3, preloadItems DEF preload, At, MainStep
<1>4. ASSUME NEW c \in Cell, notifyLoaded(c)
      PROVE  Goal
  <2>1. Drop({c}) /\ main = "idle" /\ main' = "idle" /\ {c} \in SUBSET Cached
    BY <1>4 DEF notifyLoaded, At
  <2> QED
    BY <1>1, <1>4, <2>1, DropItems DEF notifyLoaded, KeepsCells
<1>5. CASE clear
  <2>1. Drop(Cached) /\ main = "idle" /\ main' = "idle"
    BY <1>5 DEF clear, At
  <2> QED
    BY <1>1, <1>5, <2>1, DropItems DEF clear, KeepsCells
<1>6. ASSUME NEW dt \in world.time, updateCache(dt)
      PROVE  Goal
  BY <1>1, <1>6, updateCacheItems DEF KeepsCells
<1>7. CASE updateViews \/ flush \/ reloadTerrain
  BY <1>1, <1>7, updateViewsItems, flushItems, reloadTerrainItems DEF KeepsCells
<1>8. ASSUME NEW ps \in world.exteriorPositions, preloadTerrainPositions(ps)
      PROVE  Goal
  BY <1>1, <1>8, preloadTerrainPositionsItems DEF KeepsCells
<1>9. ASSUME NEW p \in Position, NEW s \in BOOLEAN, NEW unlocked \in BOOLEAN,
             preloadTerrain(p, s, unlocked)
      PROVE  Goal
  BY <1>1, <1>9, preloadTerrainItems DEF KeepsCells
<1>10. CASE destroy \/ loadTerrain \/ syncTerrainLoad \/ destroyTerrain
  BY <1>1, <1>10, destroyItems, loadTerrainItems, syncTerrainLoadItems, destroyTerrainItems DEF KeepsCells
<1>11. CASE destroyCells
  BY <1>2, <1>11, destroyCellsItems DEF destroyCells
<1>12. CASE destroyQueue \/ join
  BY <1>2, <1>12, destroyQueueItems DEF destroyQueue, join, At
<1>13. ASSUME NEW t \in Thread, Thread_(t)
       PROVE  Goal
  <2>1. ~MainStep
    BY <1>13 DEF Thread_, doWork, MainStep
  <2> QED
    BY <1>2, <1>13, <2>1, ThreadItems
<1>14. CASE CheckDone \/ UNCHANGED vars \/ \E t \in Thread : SpuriousWakeup(t)
  <2>1. info' = info
    BY <1>14 DEF CheckDone, vars, SpuriousWakeup
  <2> QED
    BY <1>2, <1>14, <2>1, RestItems
<1> QED
  BY <1>3, <1>4, <1>5, <1>6, <1>7, <1>8, <1>9, <1>10, <1>11, <1>12, <1>13, <1>14 DEF Next, Continue

LEMMA Invariants == Spec => [](IInv /\ ItemInv)
<1>1. Init => IInv /\ ItemInv
  BY InitIInv, InitItems, ItemsAssumption, QueueFacts!InitIInv
     DEF QueueFacts!ItemAssumption, Queue!ItemAssumption, IInv
<1>2. IInv /\ [Next]_vars => IInv'
  <2>1. IInv /\ [Next]_vars => [QueueFacts!Next]_(QueueFacts!vars) /\ RefInv'
    BY NextGood DEF Good, Idle
  <2>2. QueueFacts!IInv /\ [QueueFacts!Next]_(QueueFacts!vars) => QueueFacts!IInv'
    BY ItemsAssumption, QueueFacts!NextIInv DEF QueueFacts!ItemAssumption, Queue!ItemAssumption
  <2> QED
    BY <2>1, <2>2 DEF IInv
<1>3. IInv /\ ItemInv /\ [Next]_vars => IInv' /\ ItemInv'
  BY <1>2, NextItems
<1> QED
  BY <1>1, <1>3, PTL DEF Spec

\* A cell that is not asked for again because an item for it is in the cache has
\* been loaded entirely once that item is done: whatever is aborted is taken out of
\* the cache in the same step, and no item stands for two cells.
THEOREM PreloadedWhole == Spec => []PreloadedIsWhole
<1>1. IInv /\ ItemInv => PreloadedIsWhole
  <2> SUFFICES ASSUME IInv, ItemInv, main # "awaitCells", NEW c \in Cached, mPreloadCells[c].item \in mDone
               PROVE  info[mPreloadCells[c].item].whole
    BY DEF PreloadedIsWhole, ItemsOf
  <2>1. mPreloadCells[c].item \in References \cap Worked \cap Item
    BY RefTypes DEF References, Cached, Worked, QueueFacts!Worked
  <2> QED
    BY <2>1 DEF ItemInv, WorkInv, CellInv
<1> QED
  BY <1>1, Invariants, PTL

\* What is stored for rendering was built by an item that did all its work: the item
\* of the terrain is replaced before anything of it is stored if it was aborted.
THEOREM WholeViews == Spec => []NoPartialView
<1>1. ItemInv => NoPartialView
  BY DEF ItemInv
<1> QED
  BY <1>1, Invariants, PTL

\* The synchronous preloadTerrain returns with terrain stored since the last rebuild,
\* however often it had to begin again: that of its position, or, if that was refused
\* for a load that ran, that of a position near it.
THEOREM TerrainIsLoaded == Spec => TerrainLoaded
<1>1. ASSUME IInv, ItemInv, [Next]_vars, main = "sync", main' = "idle"
      PROVE  \E view \in stored' :
                 view.whole /\ <<call.position, view.position>> \in IF call.near THEN Near ELSE Same
  <2>1. syncTerrainLoad
    <3>1. ~(UNCHANGED vars \/ CheckDone \/ \E t \in Thread : Thread_(t) \/ SpuriousWakeup(t))
      BY <1>1 DEF vars, CheckDone, Thread_, doWork, SpuriousWakeup
    <3>2. /\ \A c \in Cell : ~preload(c) /\ ~notifyLoaded(c)
          /\ \A dt : ~updateCache(dt)
          /\ ~updateViews /\ ~flush /\ ~clear /\ ~reloadTerrain
      BY <1>1 DEF preload, notifyLoaded, updateCache, updateViews, flush, clear, reloadTerrain, At
    <3>3. /\ \A ps : ~preloadTerrainPositions(ps)
          /\ \A p, s, unlocked : ~preloadTerrain(p, s, unlocked)
      BY <1>1 DEF preloadTerrainPositions, preloadTerrain, At
    <3>4. ~destroy /\ ~loadTerrain /\ ~destroyTerrain /\ ~destroyCells /\ ~destroyQueue /\ ~join
      BY <1>1 DEF destroy, loadTerrain, destroyTerrain, destroyCells, destroyQueue, join, At
    <3> QED
      BY <1>1, <3>1, <3>2, <3>3, <3>4 DEF Next, Continue
  <2>2. PICK q \in ToSet(terrain.positions) : <<call.position, q>> \in IF call.near THEN Near ELSE Same
    BY <1>1 DEF ItemInv, CallInv, Within
  <2> SUFFICES [position |-> q, whole |-> TRUE] \in stored'
    BY <2>2
  <2>3. CASE terrain.item = NoItem
    <3>1. stored' = stored
      BY <2>1, <2>3 DEF syncTerrainLoad
    <3>2. \A p \in ToSet(terrain.positions) : [position |-> p, whole |-> TRUE] \in stored
      BY <1>1, <2>3 DEF ItemInv, StoredInv, Ending, Ended
    <3> QED
      BY <2>2, <3>1, <3>2
  <2>4. CASE terrain.item # NoItem
    <3>1. ~Busy(terrain.item) /\ StoresAll(terrain.item) /\ storeViews(terrain.item)
      BY <1>1, <2>1, <2>4 DEF syncTerrainLoad
    <3>2. terrain.item \in Item
      BY <1>1, <2>4, RefTypes DEF References
    <3> QED
      BY <1>1, <2>2, <2>4, <3>1, <3>2, Stores
  <2> QED
    BY <2>3, <2>4
<1>2. IInv /\ ItemInv /\ [Next]_vars =>
          [main = "sync" /\ main' = "idle" =>
              \E view \in stored' :
                  view.whole /\ <<call.position, view.position>> \in IF call.near THEN Near ELSE Same]_vars
  BY <1>1
<1> QED
  BY <1>2, Invariants, PTL DEF Spec, TerrainLoaded

\* Nothing the main thread throws out while the game runs is deleted by it: the item
\* of a cell stays referred to by the UnrefQueue, by an item that flush made of it,
\* or by the queue, until a thread of the queue drops the last reference.
THEOREM DeletesInBackground == Spec => DeletedInBackground
<1>1. ASSUME IInv, IInv', ItemInv, [Next]_vars, MainStep,
             main \notin {"destroyCells", "awaitCells", "destroyQueue"},
             NEW i \in Item, info[i].kind = "cell"
      PROVE  info'[i].kind = "cell"
  <2>1. KeepsCells \/ info' = info
    BY <1>1, NextItems
  <2>2. i \in Referenced
    BY <1>1 DEF ItemInv, KindInv
  <2> QED
    BY <1>1, <2>1, <2>2 DEF KeepsCells, CellItemsKept, ItemsStep
<1>2. IInv /\ ItemInv /\ IInv' /\ [Next]_vars =>
          [MainStep /\ main \notin {"destroyCells", "awaitCells", "destroyQueue"} =>
              \A i \in Item : info[i].kind = "cell" => info'[i].kind = "cell"]_vars
  BY <1>1
<1> QED
  BY <1>2, Invariants, PTL DEF Spec, DeletedInBackground

=============================================================================
