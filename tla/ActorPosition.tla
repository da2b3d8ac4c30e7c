---------------------------- MODULE ActorPosition ----------------------------
(***************************************************************************)
(* The position of one actor (MWPhysics::Actor), which scripts change in   *)
(* the main thread while physics workers simulate the frame before.  A     *)
(* position is the set of scripted changes it reflects: walking does not   *)
(* change the set, a teleport makes all earlier changes moot and so        *)
(* reflects them too, and a point between two positions reflects what both *)
(* do.  Frames are run as PhysicsTaskScheduler says.                       *)
(***************************************************************************)
EXTENDS Integers

CONSTANTS
    MaxSteps,       \* bound: steps of a frame
    MaxChanges      \* bound: scripted changes

ASSUME BoundsAssumption == MaxSteps \in Nat /\ MaxChanges \in Nat

Changes == 1..MaxChanges

VARIABLES
    async,                  \* setting: async num threads > 0
    world,                  \* RefData's position, what the player sees
    mPosition, mPreviousPosition, mSimulationPosition, mPositionOffset,
    mWorldPositionChanged, mSkipSimulation,
    collisionObject,        \* position of the btCollisionObject
    hasData, dataPosition,  \* the actor's entry in mActorsFrameData
    worker, remaining,      \* the workers: where they are, steps left
    main, mDiscardMovements,
    changes,                \* number of scripted changes so far
    racy, recent            \* history: made during a simulation; teleports of this frame

positionVars == <<mPosition, mPreviousPosition, mSimulationPosition, mPositionOffset,
                  mWorldPositionChanged, mSkipSimulation>>
workerVars == <<hasData, dataPosition, worker, remaining>>
history == <<changes, racy, recent>>
vars == <<async, world, positionVars, collisionObject, workerVars, main, mDiscardMovements, history>>

Init ==
    /\ async \in BOOLEAN
    /\ world = {}
    /\ mPosition = {} /\ mPreviousPosition = {} /\ mSimulationPosition = {}
    /\ mPositionOffset = {}
    /\ mWorldPositionChanged = FALSE
    /\ mSkipSimulation = TRUE
    /\ collisionObject = {}
    /\ hasData = FALSE /\ dataPosition = {}
    /\ worker = "idle" /\ remaining = 0
    /\ main = "frame"
    /\ mDiscardMovements = TRUE
    /\ changes = 0 /\ racy = {} /\ recent = {}

-----------------------------------------------------------------------------
(* Scripts, in the main thread.                                            *)

new == changes + 1
Simulating == remaining # 0

\* World::moveObjectBy: the offset is registered, RefData moved at once.
moveObjectBy ==
    /\ main = "frame"
    /\ changes < MaxChanges
    /\ mPositionOffset' = mPositionOffset \cup {new}
    /\ world' = world \cup {new}
    /\ changes' = new
    /\ racy' = IF Simulating THEN racy \cup {new} ELSE racy
    /\ UNCHANGED <<async, mPosition, mPreviousPosition, mSimulationPosition, mWorldPositionChanged,
                   mSkipSimulation, collisionObject, workerVars, main, mDiscardMovements, recent>>

KeepsSimulation == FALSE                                 \* mutant
SkipsSimulation == TRUE

\* Actor::updatePosition: everything is what RefData says.
updatePosition(position) ==
    /\ mPosition' = position
    /\ mPreviousPosition' = position
    /\ mSimulationPosition' = position
    /\ mPositionOffset' = {}
    /\ mSkipSimulation' = SkipsSimulation

\* World::moveObject with movePhysics: RefData and Actor::updatePosition, then
\* updateSingleAabb.  A change of cell sets mDiscardMovements too.
moveObject(changesCell) ==
    /\ main = "frame"
    /\ changes < MaxChanges
    /\ world' = 1..new
    /\ updatePosition(1..new)
    /\ main' = "updateSingleAabb"
    /\ mDiscardMovements' = (mDiscardMovements \/ changesCell)
    /\ changes' = new
    /\ racy' = IF Simulating /\ ~changesCell THEN racy \cup {new} ELSE racy
    /\ recent' = recent \cup {new}
    /\ UNCHANGED <<async, mWorldPositionChanged, collisionObject, workerVars>>

\* Actor::updateCollisionObjectPosition
updateCollisionObjectPosition == collisionObject' = mPosition /\ mWorldPositionChanged' = FALSE

\* mCollisionWorldMutex is the worker's between "read" and "collide".
updateSingleAabb ==
    /\ main = "updateSingleAabb"
    /\ worker # "collide"
    /\ updateCollisionObjectPosition
    /\ main' = "frame"
    /\ UNCHANGED <<async, world, mPosition, mPreviousPosition, mSimulationPosition, mPositionOffset,
                   mSkipSimulation, workerVars, mDiscardMovements, history>>

-----------------------------------------------------------------------------
(* World::doPhysics, when the workers are done.                            *)

WithoutOffset(p) == p                                    \* mutant
\* Actor::applyOffsetChange
WithOffset(p) == p \cup mPositionOffset
Unmoved == FALSE                                         \* mutant
OffsetMoves == mPositionOffset # {}

\* resetSimulation: every actor is where RefData says, results are dropped.
resetSimulation ==
    /\ main = "frame" /\ worker = "idle"
    /\ mDiscardMovements
    /\ updatePosition(world)
    /\ collisionObject' = world
    /\ mWorldPositionChanged' = FALSE
    /\ hasData' = FALSE
    /\ mDiscardMovements' = FALSE
    /\ recent' = {}
    /\ UNCHANGED <<async, world, dataPosition, worker, remaining, main, changes, racy>>

\* interpolateMovements: one of the two, or between them.
Interpolated(p, q) == {p, q, p \cap q}

\* setSimulationPosition, unless the actor was teleported since the last time.
Simulated(p, q) == IF mSkipSimulation THEN {mSimulationPosition} ELSE Interpolated(p, q)

\* moveActors with workers: collect the frame that has been simulated, if the
\* actor was in it, and post the next one, from where the offset has moved the
\* actor (ActorFrameData::updatePosition, Actor::applyOffsetChange).
moveActors(n) ==
    LET position == WithOffset(mPosition)
    IN  /\ main = "frame" /\ worker = "idle"
        /\ async /\ ~mDiscardMovements
        /\ \E simulation \in IF hasData THEN Simulated(dataPosition, mPreviousPosition)
                             ELSE {mSimulationPosition} :
             /\ mSimulationPosition' = WithOffset(simulation)
             /\ world' = IF hasData THEN mSimulationPosition' ELSE world
        /\ mSkipSimulation' = (mSkipSimulation /\ ~hasData)
        /\ mPosition' = position
        /\ mPreviousPosition' = WithOffset(mPreviousPosition)
        /\ mWorldPositionChanged' = (mWorldPositionChanged \/ OffsetMoves)
        /\ mPositionOffset' = {}
        /\ hasData' = TRUE
        /\ dataPosition' = position
        /\ remaining' = n
        /\ worker' = IF n = 0 THEN "idle" ELSE "setPosition"
        /\ recent' = {}
        /\ UNCHANGED <<async, collisionObject, main, mDiscardMovements, changes, racy>>

\* moveActors without workers: syncComputation simulates and collects at once.
syncComputation(n, hasMoved) ==
    LET position == WithOffset(mPosition)
        changed == mWorldPositionChanged \/ OffsetMoves
        previous == IF n = 0 THEN WithOffset(mPreviousPosition) ELSE position
    IN  /\ main = "frame"
        /\ ~async /\ ~mDiscardMovements
        /\ mPosition' = position
        /\ mPreviousPosition' = previous
        /\ \E simulation \in IF mSkipSimulation THEN {WithOffset(mSimulationPosition)}
                             ELSE Interpolated(position, previous) :
             mSimulationPosition' = simulation /\ world' = simulation
        /\ mSkipSimulation' = FALSE
        /\ mPositionOffset' = {}
        /\ IF n # 0 /\ (changed \/ hasMoved)
           THEN collisionObject' = position /\ mWorldPositionChanged' = FALSE
           ELSE collisionObject' = collisionObject /\ mWorldPositionChanged' = changed
        /\ recent' = {}
        /\ UNCHANGED <<async, workerVars, main, mDiscardMovements, changes, racy>>

-----------------------------------------------------------------------------
(* The workers: updateActorsPositions after every step.                    *)

Finish == worker' = IF remaining' = 0 THEN "idle" ELSE "setPosition"

\* Actor::setPosition applies the offset first.
setPosition(hasMoved) ==
    LET hasChanged == \/ hasMoved
                      \/ WithOffset(mPosition) # dataPosition
                      \/ mWorldPositionChanged \/ OffsetMoves
    IN  /\ worker = "setPosition"
        /\ mPreviousPosition' = WithOffset(mPosition)
        /\ mPosition' = dataPosition
        /\ mSimulationPosition' = WithOffset(mSimulationPosition)
        /\ mWorldPositionChanged' = (mWorldPositionChanged \/ OffsetMoves)
        /\ mPositionOffset' = {}
        /\ IF hasChanged THEN worker' = "read" /\ remaining' = remaining
           ELSE remaining' = remaining - 1 /\ Finish
        /\ UNCHANGED <<async, world, mSkipSimulation, collisionObject, hasData, dataPosition,
                       main, mDiscardMovements, history>>

\* "account for potential position change made by script"
readPosition ==
    /\ worker = "read"
    /\ dataPosition' = mPosition
    /\ worker' = "collide"
    /\ UNCHANGED <<async, world, positionVars, collisionObject, hasData, remaining, main,
                   mDiscardMovements, history>>

collide ==
    /\ worker = "collide"
    /\ updateCollisionObjectPosition
    /\ remaining' = remaining - 1
    /\ Finish
    /\ UNCHANGED <<async, world, mPosition, mPreviousPosition, mSimulationPosition, mPositionOffset,
                   mSkipSimulation, hasData, dataPosition, main, mDiscardMovements, history>>

Next ==
    \/ moveObjectBy
    \/ \E changesCell \in BOOLEAN : moveObject(changesCell)
    \/ updateSingleAabb
    \/ resetSimulation
    \/ \E n \in 0..MaxSteps : \/ moveActors(n)
                              \/ \E hasMoved \in BOOLEAN : syncComputation(n, hasMoved)
    \/ \E hasMoved \in BOOLEAN : setPosition(hasMoved)
    \/ readPosition
    \/ collide

Spec == Init /\ [][Next]_vars

-----------------------------------------------------------------------------
(* Properties.                                                             *)

\* The type invariant of the module.
TypeOK ==
    /\ {async, mWorldPositionChanged, mSkipSimulation, hasData, mDiscardMovements} \subseteq BOOLEAN
    /\ {world, mPosition, mPreviousPosition, mSimulationPosition, mPositionOffset,
        collisionObject, dataPosition, racy, recent} \subseteq SUBSET Changes
    /\ worker \in {"idle", "setPosition", "read", "collide"}
    /\ remaining \in 0..MaxSteps
    /\ main \in {"frame", "updateSingleAabb"}
    /\ changes \in 0..MaxChanges

\* What a script does to an actor is never undone by the simulation, but for what
\* it does while workers are simulating: the results of that frame come from
\* before.  Nothing is lost without workers, or when the player changes cell.
QuietChangesSurvive == (1..changes) \ racy \subseteq world

\* What a script does to an actor is never undone by the simulation.  It does not
\* hold: setPosition applies an offset and overwrites the result.
ScriptedChangesSurvive == 1..changes = world

\* A teleport is not undone by the results that are collected right after it, even
\* if it was made while workers were simulating (mSkipSimulation).
TeleportSurvivesFrame == [][ recent \subseteq world' ]_vars

\* When nobody is about to move it, the collision object is where the actor is, or
\* the next step is going to move it there (mWorldPositionChanged).
CollisionObjectFollows ==
    (worker = "idle" /\ main = "frame") => collisionObject = mPosition \/ mWorldPositionChanged

=============================================================================
