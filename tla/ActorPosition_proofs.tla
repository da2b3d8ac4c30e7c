-------------------------- MODULE ActorPosition_proofs --------------------------
(***************************************************************************)
(* What scripts do to the position of an actor survives the simulation,    *)
(* for any number of steps in a frame and any number of changes.           *)
(***************************************************************************)
EXTENDS ActorPosition, TLAPS

-----------------------------------------------------------------------------
(* Type correctness.                                                       *)

\* The types, one by one.
Types ==
    /\ async \in BOOLEAN /\ mWorldPositionChanged \in BOOLEAN
    /\ mSkipSimulation \in BOOLEAN /\ hasData \in BOOLEAN /\ mDiscardMovements \in BOOLEAN
    /\ world \subseteq Changes /\ mPosition \subseteq Changes
    /\ mPreviousPosition \subseteq Changes /\ mSimulationPosition \subseteq Changes
    /\ mPositionOffset \subseteq Changes /\ collisionObject \subseteq Changes
    /\ dataPosition \subseteq Changes /\ racy \subseteq Changes /\ recent \subseteq Changes
    /\ worker \in {"idle", "setPosition", "read", "collide"}
    /\ remaining \in 0..MaxSteps
    /\ main \in {"frame", "updateSingleAabb"}
    /\ changes \in 0..MaxChanges
    /\ worker = "idle" <=> remaining = 0

LEMMA TypesAreTypeOK == Types => TypeOK
BY DEF Types, TypeOK

LEMMA InitTypes == Init => Types
<1> SUFFICES ASSUME Init
             PROVE  Types
  OBVIOUS
<1>1. remaining \in 0..MaxSteps /\ changes \in 0..MaxChanges
  BY BoundsAssumption DEF Init
<1> QED
  BY <1>1 DEF Init, Types

\* The change that is made next is one of Changes.
LEMMA NewChange ==
    ASSUME Types, changes < MaxChanges
    PROVE  new \in Changes /\ 1..new \subseteq Changes /\ new \in 0..MaxChanges
BY BoundsAssumption DEF Types, Changes, new

LEMMA NextTypes == Types /\ [Next]_vars => Types'
<1> SUFFICES ASSUME Types, [Next]_vars
             PROVE  Types'
  OBVIOUS
<1>1. CASE moveObjectBy
  BY <1>1, NewChange DEF moveObjectBy, Types, workerVars
<1>2. ASSUME NEW changesCell \in BOOLEAN, moveObject(changesCell)
      PROVE  Types'
  BY <1>2, NewChange
     DEF moveObject, updatePosition, SkipsSimulation, Types, workerVars
<1>3. CASE updateSingleAabb
  BY <1>3 DEF updateSingleAabb, updateCollisionObjectPosition, Types, workerVars, history
<1>4. CASE resetSimulation
  BY <1>4 DEF resetSimulation, updatePosition, SkipsSimulation, Types
<1>5. ASSUME NEW n \in 0..MaxSteps, moveActors(n)
      PROVE  Types'
  <2>1. WithOffset(mPosition) \subseteq Changes /\ WithOffset(mPreviousPosition) \subseteq Changes
    BY DEF WithOffset, Types
  <2>2. mSimulationPosition' \subseteq Changes /\ world' \subseteq Changes
    BY <1>5 DEF moveActors, Simulated, Interpolated, WithOffset, Types
  <2>3. (worker' = "idle" <=> remaining' = 0) /\ worker' \in {"idle", "setPosition"}
    BY <1>5 DEF moveActors
  <2> QED
    BY <1>5, <2>1, <2>2, <2>3 DEF moveActors, Types, OffsetMoves
<1>6. ASSUME NEW n \in 0..MaxSteps, NEW hasMoved \in BOOLEAN, syncComputation(n, hasMoved)
      PROVE  Types'
  <2>1. WithOffset(mPosition) \subseteq Changes /\ WithOffset(mPreviousPosition) \subseteq Changes
    BY DEF WithOffset, Types
  <2>2. mSimulationPosition' \subseteq Changes /\ world' \subseteq Changes
    BY <1>6, <2>1 DEF syncComputation, Interpolated, WithOffset, Types
  <2>3. collisionObject' \subseteq Changes /\ mWorldPositionChanged' \in BOOLEAN
    BY <1>6, <2>1 DEF syncComputation, OffsetMoves, Types
  <2> QED
    BY <1>6, <2>1, <2>2, <2>3 DEF syncComputation, Types, workerVars
<1>7. ASSUME NEW hasMoved \in BOOLEAN, setPosition(hasMoved)
      PROVE  Types'
  <2>1. remaining - 1 \in 0..MaxSteps
    BY <1>7, BoundsAssumption DEF setPosition, Types
  <2>2. /\ remaining' \in 0..MaxSteps
        /\ worker' \in {"idle", "setPosition", "read"}
        /\ worker' = "idle" <=> remaining' = 0
    BY <1>7, <2>1 DEF setPosition, Finish, Types
  <2> QED
    BY <1>7, <2>2 DEF setPosition, WithOffset, OffsetMoves, Types, history
<1>8. CASE readPosition
  BY <1>8 DEF readPosition, positionVars, Types, history
<1>9. CASE collide
  <2>1. remaining - 1 \in 0..MaxSteps
    BY <1>9, BoundsAssumption DEF collide, Types
  <2> QED
    BY <1>9, <2>1 DEF collide, updateCollisionObjectPosition, Finish, Types, history
<1>10. CASE UNCHANGED vars
  BY <1>10 DEF vars, positionVars, workerVars, history, Types
<1> QED
  BY <1>1, <1>2, <1>3, <1>4, <1>5, <1>6, <1>7, <1>8, <1>9, <1>10 DEF Next

\* Every variable keeps its type.
THEOREM TypeCorrect == Spec => []TypeOK
BY InitTypes, NextTypes, TypesAreTypeOK, PTL DEF Spec

-----------------------------------------------------------------------------
(* The collision object.                                                   *)

\* Unless a worker or the main thread is on its way to move it, the collision object
\* is where the actor is, or the flag is up.
ColInv ==
    worker \in {"idle", "setPosition"} /\ main = "frame"
        => collisionObject = mPosition \/ mWorldPositionChanged

\* Without an offset the actor is where it was.
LEMMA NoOffset == ~OffsetMoves => \A p : WithOffset(p) = p \cup {}
BY DEF OffsetMoves, WithOffset

LEMMA NextColInv == Types /\ ColInv /\ [Next]_vars => ColInv'
<1> SUFFICES ASSUME Types, ColInv, [Next]_vars
             PROVE  ColInv'
  OBVIOUS
<1>1. CASE moveObjectBy
  BY <1>1 DEF moveObjectBy, workerVars, ColInv
<1>2. ASSUME NEW changesCell \in BOOLEAN, moveObject(changesCell)
      PROVE  ColInv'
  BY <1>2 DEF moveObject, ColInv
<1>3. CASE updateSingleAabb
  BY <1>3 DEF updateSingleAabb, updateCollisionObjectPosition, ColInv
<1>4. CASE resetSimulation
  BY <1>4 DEF resetSimulation, updatePosition, ColInv
<1>5. ASSUME NEW n \in 0..MaxSteps, moveActors(n)
      PROVE  ColInv'
  <2>1. CASE OffsetMoves
    BY <1>5, <2>1 DEF moveActors, ColInv
  <2>2. CASE ~OffsetMoves
    <3>1. WithOffset(mPosition) = mPosition
      BY <2>2, NoOffset
    <3> QED
      BY <1>5, <2>2, <3>1 DEF moveActors, ColInv, Types
  <2> QED
    BY <2>1, <2>2
<1>6. ASSUME NEW n \in 0..MaxSteps, NEW hasMoved \in BOOLEAN, syncComputation(n, hasMoved)
      PROVE  ColInv'
  <2>1. CASE n # 0 /\ (mWorldPositionChanged \/ OffsetMoves \/ hasMoved)
    BY <1>6, <2>1 DEF syncComputation, ColInv
  <2>2. CASE ~(n # 0 /\ (mWorldPositionChanged \/ OffsetMoves \/ hasMoved))
    <3>1. ~OffsetMoves => WithOffset(mPosition) = mPosition
      BY NoOffset
    <3>2. /\ mWorldPositionChanged' <=> mWorldPositionChanged \/ OffsetMoves
          /\ collisionObject' = collisionObject
          /\ mPosition' = WithOffset(mPosition)
          /\ UNCHANGED <<worker, main>>
      BY <1>6, <2>2 DEF syncComputation, workerVars
    <3> QED
      BY <3>1, <3>2 DEF ColInv
  <2> QED
    BY <2>1, <2>2
<1>7. ASSUME NEW hasMoved \in BOOLEAN, setPosition(hasMoved)
      PROVE  ColInv'
  <2>1. CASE hasMoved \/ WithOffset(mPosition) # dataPosition \/ mWorldPositionChanged \/ OffsetMoves
    BY <1>7, <2>1 DEF setPosition, ColInv
  <2>2. CASE ~(hasMoved \/ WithOffset(mPosition) # dataPosition \/ mWorldPositionChanged \/ OffsetMoves)
    <3>1. WithOffset(mPosition) = mPosition
      BY <2>2, NoOffset
    <3> QED
      BY <1>7, <2>2, <3>1 DEF setPosition, ColInv
  <2> QED
    BY <2>1, <2>2
<1>8. CASE readPosition
  BY <1>8 DEF readPosition, ColInv
<1>9. CASE collide
  BY <1>9 DEF collide, updateCollisionObjectPosition, ColInv
<1>10. CASE UNCHANGED vars
  BY <1>10 DEF vars, positionVars, workerVars, ColInv
<1> QED
  BY <1>1, <1>2, <1>3, <1>4, <1>5, <1>6, <1>7, <1>8, <1>9, <1>10 DEF Next

\* Whoever moves the actor, script or worker, the collision object comes after.
THEOREM CollisionObject == Spec => []CollisionObjectFollows
<1>1. Init => ColInv
  BY DEF Init, ColInv
<1>2. ColInv => CollisionObjectFollows
  BY DEF ColInv, CollisionObjectFollows
<1> QED
  BY <1>1, <1>2, InitTypes, NextTypes, NextColInv, PTL DEF Spec

-----------------------------------------------------------------------------
(* Teleports.                                                              *)

\* A teleport of this frame is in what the player sees and in the position that is
\* shown next, and the results of the simulation are to be skipped.
RecentInv ==
    /\ recent \subseteq 1..changes
    /\ recent \subseteq mSimulationPosition
    /\ recent \subseteq world
    /\ recent # {} => mSkipSimulation

\* The next change comes after all others.
LEMMA EarlierChanges == Types => 1..changes \subseteq 1..new /\ new \in 1..new
BY BoundsAssumption DEF Types, new

LEMMA NextRecentInv == Types /\ RecentInv /\ [Next]_vars => RecentInv' /\ recent \subseteq world'
<1> SUFFICES ASSUME Types, RecentInv, [Next]_vars
             PROVE  RecentInv' /\ recent \subseteq world'
  OBVIOUS
<1>1. CASE moveObjectBy
  BY <1>1, EarlierChanges DEF moveObjectBy, RecentInv
<1>2. ASSUME NEW changesCell \in BOOLEAN, moveObject(changesCell)
      PROVE  RecentInv' /\ recent \subseteq world'
  BY <1>2, EarlierChanges DEF moveObject, updatePosition, SkipsSimulation, RecentInv
<1>3. CASE updateSingleAabb
  BY <1>3 DEF updateSingleAabb, history, RecentInv
<1>4. CASE resetSimulation
  BY <1>4 DEF resetSimulation, RecentInv
<1>5. ASSUME NEW n \in 0..MaxSteps, moveActors(n)
      PROVE  RecentInv' /\ recent \subseteq world'
  <2>1. CASE recent = {}
    BY <1>5, <2>1 DEF moveActors, RecentInv
  <2>2. CASE recent # {}
    <3>1. mSkipSimulation
      BY <2>2 DEF RecentInv
    <3>2. mSimulationPosition' = WithOffset(mSimulationPosition)
      BY <1>5, <3>1 DEF moveActors, Simulated
    <3> QED
      BY <1>5, <3>2 DEF moveActors, WithOffset, RecentInv
  <2> QED
    BY <2>1, <2>2
<1>6. ASSUME NEW n \in 0..MaxSteps, NEW hasMoved \in BOOLEAN, syncComputation(n, hasMoved)
      PROVE  RecentInv' /\ recent \subseteq world'
  <2>1. recent' = {}
    BY <1>6 DEF syncComputation
  <2>2. mSkipSimulation => world' = WithOffset(mSimulationPosition)
    BY <1>6 DEF syncComputation
  <2> QED
    BY <2>1, <2>2 DEF WithOffset, RecentInv
<1>7. ASSUME NEW hasMoved \in BOOLEAN, setPosition(hasMoved)
      PROVE  RecentInv' /\ recent \subseteq world'
  BY <1>7 DEF setPosition, WithOffset, history, RecentInv
<1>8. CASE readPosition
  BY <1>8 DEF readPosition, positionVars, history, RecentInv
<1>9. CASE collide
  BY <1>9 DEF collide, history, RecentInv
<1>10. CASE UNCHANGED vars
  BY <1>10 DEF vars, positionVars, history, RecentInv
<1> QED
  BY <1>1, <1>2, <1>3, <1>4, <1>5, <1>6, <1>7, <1>8, <1>9, <1>10 DEF Next

\* The frame that workers were simulating at a teleport does not take it back.
THEOREM TeleportSurvives == Spec => TeleportSurvivesFrame
<1>1. Init => RecentInv
  BY DEF Init, RecentInv
<1>2. Types /\ RecentInv /\ [Next]_vars => [recent \subseteq world']_vars
  BY NextRecentInv
<1> QED
  BY <1>1, <1>2, InitTypes, NextTypes, NextRecentInv, PTL DEF Spec, TeleportSurvivesFrame

-----------------------------------------------------------------------------
(* Scripted changes.                                                       *)

\* What scripts have done while nothing was simulated.
Quiet == (1..changes) \ racy

\* A position has all of it, with the offset if that is from after the simulation.
Keeps(p) == Quiet \subseteq p \cup IF worker = "idle" THEN mPositionOffset ELSE {}

\* Until the movements are discarded: no position of the actor has lost a quiet
\* change, nor has the result that is going to be collected, unless it is skipped.
QuietInv ==
    /\ Quiet \subseteq world
    /\ ~async => ~hasData
    /\ worker # "idle" => hasData
    /\ ~mDiscardMovements =>
         /\ Keeps(mPosition)
         /\ Keeps(mPreviousPosition)
         /\ Keeps(mSimulationPosition)
         /\ worker # "idle" \/ (hasData /\ ~mSkipSimulation) => Keeps(dataPosition)

LEMMA NextQuietInv == Types /\ QuietInv /\ [Next]_vars => QuietInv'
<1> SUFFICES ASSUME Types, QuietInv, [Next]_vars
             PROVE  QuietInv'
  OBVIOUS
<1> USE DEF QuietInv
<1>1. CASE moveObjectBy
  <2>1. 1..new = 1..changes \cup {new}
    BY BoundsAssumption DEF Types, new
  <2>2. Quiet' = IF Simulating THEN Quiet \ {new} ELSE (Quiet \cup {new}) \ racy
    BY <1>1, <2>1 DEF moveObjectBy, Quiet
  <2>3. worker = "idle" <=> ~Simulating
    BY DEF Types, Simulating
  <2>4. ASSUME NEW p, Keeps(p)
        PROVE  Quiet' \subseteq p \cup IF worker = "idle" THEN mPositionOffset \cup {new} ELSE {}
    BY <2>2, <2>3, <2>4 DEF Keeps
  <2>5. Quiet' \subseteq world'
    BY <1>1, <2>2 DEF moveObjectBy
  <2> QED
    BY <1>1, <2>4, <2>5 DEF moveObjectBy, workerVars, Keeps
<1>2. ASSUME NEW changesCell \in BOOLEAN, moveObject(changesCell)
      PROVE  QuietInv'
  <2>1. Quiet' \subseteq 1..new
    BY <1>2 DEF moveObject, Quiet
  <2>2. worker = "idle" <=> ~Simulating
    BY DEF Types, Simulating
  <2>3. 1..new = 1..changes \cup {new}
    BY BoundsAssumption DEF Types, new
  <2>4. CASE changesCell
    BY <1>2, <2>1, <2>4 DEF moveObject, workerVars
  <2>5. CASE ~changesCell
    <3>1. worker # "idle" => Quiet' \subseteq Quiet
      BY <1>2, <2>2, <2>3, <2>5 DEF moveObject, Quiet
    <3>2. Keeps(mPosition)' /\ Keeps(mPreviousPosition)' /\ Keeps(mSimulationPosition)'
      BY <1>2, <2>1 DEF moveObject, updatePosition, Keeps
    <3>3. mSkipSimulation'
      BY <1>2 DEF moveObject, updatePosition, SkipsSimulation
    <3>4. ASSUME ~mDiscardMovements, worker # "idle"
          PROVE  Keeps(dataPosition)'
      <4>1. Keeps(dataPosition)
        BY <3>4
      <4>2. Quiet \subseteq dataPosition
        BY <3>4, <4>1 DEF Keeps
      <4>3. dataPosition' = dataPosition
        BY <1>2 DEF moveObject, workerVars
      <4> QED
        BY <3>1, <3>4, <4>2, <4>3 DEF Keeps
    <3> QED
      BY <1>2, <2>1, <2>5, <3>2, <3>3, <3>4 DEF moveObject, workerVars
  <2> QED
    BY <2>4, <2>5
<1>3. CASE updateSingleAabb
  BY <1>3 DEF updateSingleAabb, workerVars, history, Keeps, Quiet
<1>4. CASE resetSimulation
  BY <1>4 DEF resetSimulation, updatePosition, Keeps, Quiet
<1>5. ASSUME NEW n \in 0..MaxSteps, moveActors(n)
      PROVE  QuietInv'
  <2>1. Quiet' = Quiet
    BY <1>5 DEF moveActors, Quiet
  <2>2. ASSUME NEW p, Keeps(p)
        PROVE  Quiet \subseteq WithOffset(p)
    BY <1>5, <2>2 DEF moveActors, WithOffset, Keeps
  <2>3. Quiet \subseteq mSimulationPosition'
    <3>1. PICK simulation \in IF hasData THEN Simulated(dataPosition, mPreviousPosition)
                              ELSE {mSimulationPosition} :
            mSimulationPosition' = WithOffset(simulation)
      BY <1>5 DEF moveActors
    <3>2. Keeps(simulation)
      BY <1>5, <3>1 DEF moveActors, Simulated, Interpolated, Keeps
    <3> QED
      BY <2>2, <3>1, <3>2
  <2>4. Quiet \subseteq world'
    BY <1>5, <2>3 DEF moveActors
  <2>5. Quiet \subseteq mPosition' /\ Quiet \subseteq mPreviousPosition' /\ Quiet \subseteq dataPosition'
    BY <1>5, <2>2 DEF moveActors
  <2>6. async' /\ hasData'
    BY <1>5 DEF moveActors
  <2> QED
    BY <2>1, <2>3, <2>4, <2>5, <2>6 DEF Keeps
<1>6. ASSUME NEW n \in 0..MaxSteps, NEW hasMoved \in BOOLEAN, syncComputation(n, hasMoved)
      PROVE  QuietInv'
  <2>1. Quiet' = Quiet
    BY <1>6 DEF syncComputation, Quiet
  <2>2. ASSUME NEW p, Keeps(p)
        PROVE  Quiet \subseteq WithOffset(p)
    BY <1>6, <2>2 DEF syncComputation, WithOffset, Keeps
  <2>3. Quiet \subseteq mPosition' /\ Quiet \subseteq mPreviousPosition'
    BY <1>6, <2>2 DEF syncComputation
  <2>4. Quiet \subseteq WithOffset(mSimulationPosition)
    BY <1>6, <2>2 DEF syncComputation
  <2>5. Quiet \subseteq mSimulationPosition' /\ world' = mSimulationPosition'
    BY <1>6, <2>3, <2>4 DEF syncComputation, Interpolated
  <2>6. ~hasData' /\ worker' = "idle"
    BY <1>6 DEF syncComputation, workerVars
  <2> QED
    BY <2>1, <2>3, <2>5, <2>6 DEF Keeps
<1>7. ASSUME NEW hasMoved \in BOOLEAN, setPosition(hasMoved)
      PROVE  QuietInv'
  <2>1. Quiet' = Quiet /\ UNCHANGED <<world, async, hasData, mDiscardMovements, dataPosition>>
    BY <1>7 DEF setPosition, history, Quiet
  <2>2. worker # "idle"
    BY <1>7 DEF setPosition
  <2>3. ASSUME NEW p, Keeps(p)
        PROVE  Quiet \subseteq p
    BY <2>2, <2>3 DEF Keeps
  <2>4. ASSUME ~mDiscardMovements
        PROVE  /\ Quiet \subseteq mPosition /\ Quiet \subseteq mSimulationPosition
               /\ Quiet \subseteq dataPosition
    BY <2>2, <2>3, <2>4
  <2> QED
    BY <1>7, <2>1, <2>2, <2>4 DEF setPosition, WithOffset, Keeps
<1>8. CASE readPosition
  BY <1>8 DEF readPosition, positionVars, history, Keeps, Quiet
<1>9. CASE collide
  BY <1>9 DEF collide, history, Keeps, Quiet
<1>10. CASE UNCHANGED vars
  BY <1>10 DEF vars, positionVars, workerVars, history, Keeps, Quiet
<1> QED
  BY <1>1, <1>2, <1>3, <1>4, <1>5, <1>6, <1>7, <1>8, <1>9, <1>10 DEF Next

\* What a script does while nothing is simulated is there for good, and with it all
\* that is done without workers.
THEOREM QuietChanges == Spec => []QuietChangesSurvive
<1>1. Init => QuietInv
  BY DEF Init, QuietInv, Quiet
<1>2. QuietInv => QuietChangesSurvive
  BY DEF QuietInv, Quiet, QuietChangesSurvive
<1> QED
  BY <1>1, <1>2, InitTypes, NextTypes, NextQuietInv, PTL DEF Spec

=============================================================================
