------------------------------ MODULE Saving_proofs ------------------------------
(***************************************************************************)
(* A document, its views and the files it is written to use the Operation  *)
(* of the save as it is meant to be used, for any bounds.                  *)
(***************************************************************************)
EXTENDS Saving, TLAPS

-----------------------------------------------------------------------------
(* Any operation behaves as Task, whatever its stages are, whichever step  *)
(* fails, and however often it is started and aborted.                     *)

AnyOp(stages, always) == INSTANCE Operation WITH Steps <- stages, FinalAlways <- always

\* At most one end is on its way to the GUI thread, and while it is the event loop
\* of the operation still runs but has nothing to do.
DoneInv ==
    /\ thread \in {"stopped", "starting", "running", "quitting"}
    /\ timer \in BOOLEAN
    /\ timer => thread = "running"
    /\ dones = <<>> \/ \E failed \in BOOLEAN : dones = <<failed>>
    /\ dones # <<>> => thread = "running" /\ ~timer

\* The end is reported at the end of the last stage, or with no stage left.
LEMMA EndReported ==
    ASSUME NEW stages, NEW always,
           DoneInv, thread = "running", timer, thread' = "running", timer' = FALSE,
           NEW failed \in BOOLEAN, dones' = Append(dones, failed)
    PROVE  DoneInv' /\ AnyOp(stages, always)!T!End
<1>1. dones = <<>>
  BY DEF DoneInv
<1>2. dones' = <<failed>>
  BY <1>1
<1>3. dones' # <<>> /\ Head(dones') = failed
  BY <1>2
<1>4. QED
  BY <1>1, <1>2, <1>3 DEF DoneInv, AnyOp!T!End, AnyOp!Active

LEMMA OperationStep ==
    ASSUME NEW stages, NEW always,
           DoneInv, AnyOp(stages, always)!Next \/ UNCHANGED AnyOp(stages, always)!vars
    PROVE  DoneInv' /\ (AnyOp(stages, always)!T!Next \/ UNCHANGED AnyOp(stages, always)!T!vars)
<1> DEFINE Goal == DoneInv' /\ (AnyOp(stages, always)!T!Next \/ UNCHANGED AnyOp(stages, always)!T!vars)
<1>1. ASSUME AnyOp(stages, always)!start PROVE Goal
  <2>1. CASE thread = "stopped"
    BY <1>1, <2>1 DEF AnyOp!start, AnyOp!position, DoneInv, AnyOp!T!Next, AnyOp!T!Start, AnyOp!Active
  <2>2. CASE thread # "stopped"
    BY <1>1, <2>2 DEF AnyOp!start, AnyOp!position, DoneInv, AnyOp!T!vars, AnyOp!Active
  <2>3. QED
    BY <2>1, <2>2
<1>2. ASSUME AnyOp(stages, always)!abort \/ AnyOp(stages, always)!Abort \/ UNCHANGED AnyOp(stages, always)!vars PROVE Goal
  <2>1. thread' = thread /\ timer' = timer /\ dones' = dones
    BY <1>2 DEF AnyOp!abort, AnyOp!Abort, AnyOp!vars, AnyOp!holder, AnyOp!position
  <2>2. DoneInv'
    BY <2>1 DEF DoneInv
  <2>3. UNCHANGED AnyOp(stages, always)!T!vars
    BY <2>1 DEF AnyOp!T!vars, AnyOp!Active
  <2>4. QED
    BY <2>2, <2>3
<1>3. ASSUME AnyOp(stages, always)!doneSlot PROVE Goal
  <2>1. PICK failed \in BOOLEAN : dones = <<failed>>
    BY <1>3 DEF AnyOp!doneSlot, DoneInv
  <2>2. Tail(<<failed>>) = <<>>
    OBVIOUS
  <2>3. dones' = <<>> /\ thread' = "quitting" /\ timer' = FALSE
    BY <1>3, <2>1, <2>2 DEF AnyOp!doneSlot, DoneInv
  <2>4. dones # <<>>
    BY <1>3 DEF AnyOp!doneSlot
  <2>5. DoneInv'
    BY <2>3 DEF DoneInv
  <2>6. AnyOp(stages, always)!T!Next
    BY <2>3, <2>4 DEF AnyOp!T!Next, AnyOp!T!Report, AnyOp!Active
  <2>7. QED
    BY <2>5, <2>6
<1>4. ASSUME AnyOp(stages, always)!run \/ AnyOp(stages, always)!Leave PROVE Goal
  <2>1. dones = <<>> /\ dones' = <<>>
    BY <1>4 DEF AnyOp!run, AnyOp!Leave, AnyOp!position, DoneInv
  <2>2. DoneInv'
    <3>1. CASE AnyOp(stages, always)!run
      BY <3>1, <2>1 DEF AnyOp!run, DoneInv
    <3>2. CASE AnyOp(stages, always)!Leave
      <4>1. thread' = "stopped" /\ timer' = FALSE
        BY <3>2 DEF AnyOp!Leave, DoneInv
      <4>2. QED
        BY <2>1, <4>1 DEF DoneInv
    <3>3. QED
      BY <1>4, <3>1, <3>2
  <2>3. UNCHANGED AnyOp(stages, always)!T!vars
    BY <1>4, <2>1 DEF AnyOp!run, AnyOp!Leave, AnyOp!position, AnyOp!T!vars, AnyOp!Active
  <2>4. QED
    BY <2>2, <2>3
<1>5. ASSUME AnyOp(stages, always)!operationDone PROVE Goal
  <2>1. AnyOp(stages, always)!Error \in BOOLEAN
    BY DEF AnyOp!Error
  <2>2. QED
    BY <1>5, <2>1, EndReported DEF AnyOp!operationDone, AnyOp!holder, AnyOp!T!Next
<1>6. ASSUME NEW throws \in BOOLEAN, AnyOp(stages, always)!executeStage(throws) PROVE Goal
  <2>1. CASE mCurrentStage' = AnyOp(stages, always)!End
    <3>1. mError' \in BOOLEAN
      BY <1>6 DEF AnyOp!executeStage
    <3>2. QED
      BY <1>6, <2>1, <3>1, EndReported DEF AnyOp!executeStage, AnyOp!holder, AnyOp!T!Next
  <2>2. CASE mCurrentStage' # AnyOp(stages, always)!End
    BY <1>6, <2>2 DEF AnyOp!executeStage, AnyOp!holder, DoneInv, AnyOp!T!vars, AnyOp!Active
  <2>3. QED
    BY <2>1, <2>2
<1>7. QED
  BY <1>1, <1>2, <1>3, <1>4, <1>5, <1>6 DEF AnyOp!Next

\* However starts, aborts, exceptions and the end of the thread cross, an operation
\* that runs ends once, and its end is reported before it can run again.
THEOREM OperationImplements ==
    ASSUME NEW stages, NEW always
    PROVE  AnyOp(stages, always)!Spec => AnyOp(stages, always)!ImplementsTask
<1>1. AnyOp(stages, always)!Init => DoneInv /\ AnyOp(stages, always)!T!Init
  BY DEF AnyOp!Init, AnyOp!T!Init, AnyOp!Active, DoneInv
<1>2. DoneInv /\ [AnyOp(stages, always)!Next]_(AnyOp(stages, always)!vars)
        => DoneInv' /\ [AnyOp(stages, always)!T!Next]_(AnyOp(stages, always)!T!vars)
  BY OperationStep
<1>3. QED
  BY <1>1, <1>2, PTL DEF AnyOp!Spec, AnyOp!ImplementsTask, AnyOp!T!Spec

-----------------------------------------------------------------------------
(* The save is an operation.                                               *)

\* The save can only be started while it is shown as not running, but that is no
\* condition of Operation: every step of the document is one of Operation or leaves
\* it alone.
LEMMA StepOperates == [Next]_vars => [Op!Next]_(Op!vars)
<1> SUFFICES ASSUME [Next]_vars
             PROVE  Op!Next \/ UNCHANGED operation
  BY DEF operation, Op!vars, Op!holder, Op!position
<1>1. CASE Work \/ AbortSlot
  BY <1>1 DEF Work, AbortSlot, RenameTmp, RemoveContent, Op!Next
<1>2. CASE GuiEvents
  BY <1>2 DEF GuiEvents, modificationStateChanged, operationDone2, Op!Next
<1>3. CASE Edit \/ Save \/ abortOperation \/ verify \/ startRunning \/ notifySaveOnClose
  BY <1>3 DEF Edit, Save, save, abortOperation, verify, startRunning, notifySaveOnClose, Op!Next
<1>4. CASE AnswerWait \/ AnswerCloseNow \/ AnswerSave \/ AnswerDiscard \/ AnswerCancel
  BY <1>4 DEF AnswerWait, AnswerCloseNow, AnswerSave, AnswerDiscard, AnswerCancel, Op!Next
<1>5. CASE toolsDone \/ stopRunning \/ Terminated \/ UNCHANGED vars
  BY <1>5 DEF toolsDone, stopRunning, Terminated, vars
<1> QED
  BY <1>1, <1>2, <1>3, <1>4, <1>5 DEF Next, User

\* The operation of the document is one of them.
LEMMA SaveIsOperation ==
    ASSUME DoneInv, [Op!Next]_(Op!vars)
    PROVE  DoneInv' /\ [Op!T!Next]_(Op!T!vars)
<1> DEFINE stages == <<1, 1, 2, 1, 1>>
<1>1. AnyOp(stages, TRUE)!Next \/ UNCHANGED AnyOp(stages, TRUE)!vars
  BY DEF Op!Next, Op!vars, Op!holder, Op!position, Op!start, Op!abort, Op!doneSlot, Op!run, Op!Abort,
         Op!operationDone, Op!Leave, Op!executeStage, Op!AbortedAt, Op!GoTo, Op!First, Op!Error,
         Op!Left, Op!Stage, Op!Step, Op!Last, Op!End,
         AnyOp!Next, AnyOp!vars, AnyOp!holder, AnyOp!position, AnyOp!start, AnyOp!abort,
         AnyOp!doneSlot, AnyOp!run, AnyOp!Abort, AnyOp!operationDone, AnyOp!Leave,
         AnyOp!executeStage, AnyOp!AbortedAt, AnyOp!GoTo, AnyOp!First, AnyOp!Error,
         AnyOp!Left, AnyOp!Stage, AnyOp!Step, AnyOp!Last, AnyOp!End
<1>2. DoneInv' /\ (AnyOp(stages, TRUE)!T!Next \/ UNCHANGED AnyOp(stages, TRUE)!T!vars)
  BY <1>1, OperationStep
<1>3. QED
  BY <1>2
  DEF Op!T!Next, Op!T!Start, Op!T!End, Op!T!Report, Op!T!vars, Op!Active,
      AnyOp!T!Next, AnyOp!T!Start, AnyOp!T!End, AnyOp!T!Report, AnyOp!T!vars, AnyOp!Active

\* What the document, its views and the runner see of the save is a Task: it ends and
\* is reported once, before it can be started again.
THEOREM SavingImplements == Spec => ImplementsTask
<1>1. Init => DoneInv /\ Op!T!Init
  BY DEF Init, Op!Init, DoneInv, Op!T!Init, Op!Active
<1>2. DoneInv /\ [Next]_vars => DoneInv' /\ [Op!T!Next]_(Op!T!vars)
  BY StepOperates, SaveIsOperation
<1> QED
  BY <1>1, <1>2, PTL DEF Spec, ImplementsTask, Op!T!Spec

-----------------------------------------------------------------------------
(* What the save has done by each of its stages.                           *)

\* The types that the stages and the files need.
SaveTypes ==
    /\ aborts \in Nat
    /\ mPrepared \in BOOLEAN
    /\ mError \in BOOLEAN
    /\ mCurrentStage \in 1 .. 6
    /\ mCurrentStep \in Nat
    /\ content \in File
    /\ tmp \in File
    /\ mProjectFile \in BOOLEAN
    /\ replacing \in BOOLEAN
    /\ mDirty \in BOOLEAN
    /\ version \in Versions
    /\ clean \in Versions
    /\ clean <= version

\* There is no temporary file, unless one was left behind by a save that could not
\* even remove or rename it.
NoTmp == tmp = Absent \/ "failedFinal" \in excused

\* The temporary file is open, or has been closed.
Records == [of : SUBSET Versions, closed : BOOLEAN]

\* The files as the stage that is next finds them; an error leads to the last stage.
StageInv ==
    /\ Op!Error => Op!Stage \in {Final, Op!End}
    /\ Op!Stage = Project => NoTmp
    /\ Op!Stage = Open => mProjectFile /\ NoTmp
    /\ Op!Stage = Write =>
          /\ tmp \in Records /\ ~mProjectFile
          /\ excused = {} => tmp.of = IF Op!Step = 0 THEN {} ELSE {version}
    /\ Op!Stage = Close =>
          /\ tmp \in Records /\ ~mProjectFile
          /\ excused = {} => tmp.of = {version}
    /\ Op!Stage = Final /\ Op!Error /\ mProjectFile => NoTmp
    /\ Op!Stage = Final /\ ~Op!Error =>
          /\ tmp \in Records /\ tmp.closed /\ ~mProjectFile
          /\ excused = {} => tmp.of = {version}
    /\ Op!Stage = Op!End =>
          /\ NoTmp
          /\ ~Op!Error /\ excused = {} => content = Whole(version)

\* While the timer is on a stage is next; else the files are as the last save left them.
FilesInv ==
    /\ IF timer THEN StageInv ELSE NoTmp
    /\ replacing => timer /\ Op!Stage = Final /\ ~Op!Error
    /\ dones = <<FALSE>> /\ excused = {} => content = Whole(version)

\* The inductive invariant of the documents.
SavingInv == SaveTypes /\ DoneInv /\ FilesInv /\ CleanMeansSaved

LEMMA InitSavingInv == Init => SavingInv
<1> SUFFICES ASSUME Init
             PROVE  SavingInv
  OBVIOUS
<1>1. 0 \in Versions /\ Whole(0) \in Records
  BY BoundsAssumption DEF Whole, Written, Records, Versions
<1>2. SaveTypes
  <2>1. content \in File /\ tmp \in File
    BY <1>1 DEF Init, File, Records
  <2>2. version \in Versions /\ clean \in Versions /\ clean <= version
    BY <1>1 DEF Init
  <2>3. /\ aborts = 0 /\ ~mPrepared /\ ~mError /\ mCurrentStage = 1 /\ mCurrentStep = 0
        /\ ~mProjectFile /\ ~replacing
    BY DEF Init, Op!Init
  <2>4. mDirty \in BOOLEAN /\ mPrepared \in BOOLEAN /\ mError \in BOOLEAN
        /\ mProjectFile \in BOOLEAN /\ replacing \in BOOLEAN
    BY DEF Init, Op!Init
  <2> QED
    BY <2>1, <2>2, <2>3, <2>4 DEF SaveTypes
<1>3. DoneInv
  BY DEF Init, Op!Init, DoneInv
<1>4. FilesInv
  BY DEF Init, Op!Init, FilesInv, NoTmp
<1>5. CleanMeansSaved
  BY DEF Init, Op!Init, CleanMeansSaved, Modified
<1> QED
  BY <1>2, <1>3, <1>4, <1>5 DEF SavingInv

\* Where the search for a stage with a step left ends.
StepsOf(stage) == IF stage = Write THEN 2 ELSE 1

LEMMA StageFound ==
    ASSUME NEW stage \in 1 .. 6, NEW step \in Nat, Op!First = <<stage, step>>,
           NEW found,
           found = IF stage < 6 /\ step >= StepsOf(stage) THEN stage + 1 ELSE stage
    PROVE  Op!Stage = found /\ Op!Step = IF found = stage THEN step ELSE 0
<1> DEFINE P(s) == /\ s = Op!End \/ Op!Left(s)
                   /\ \A r \in Op!First[1] .. s - 1 : ~Op!Left(r)
<1>1. Op!End = 6 /\ Op!First[1] = stage /\ Op!First[2] = step
  BY DEF Op!End
<1>2. \A s \in stage .. 5 : Op!Left(s) <=> (s = stage => step < StepsOf(stage))
  <2> SUFFICES ASSUME NEW s \in stage .. 5
               PROVE  Op!Left(s) <=> (s = stage => step < StepsOf(stage))
    OBVIOUS
  <2>1. s \in 1 .. 5 /\ <<1, 1, 2, 1, 1>>[s] = StepsOf(s)
    BY DEF StepsOf, Write
  <2> QED
    BY <1>1, <2>1 DEF Op!Left, StepsOf
<1>3. found \in stage .. 6
  BY DEF StepsOf
<1>4. P(found)
  BY <1>1, <1>2, <1>3 DEF StepsOf
<1>5. \A s \in stage .. 6 : P(s) => s = found
  BY <1>1, <1>2, <1>3 DEF StepsOf
<1>6. Op!Stage = CHOOSE s \in stage .. 6 : P(s)
  BY <1>1 DEF Op!Stage
<1> HIDE DEF P
<1>7. Op!Stage = found
  BY <1>3, <1>4, <1>5, <1>6
<1> QED
  BY <1>1, <1>7 DEF Op!Step

\* The next stage and step, before and after prepareStages.
Position ==
    /\ Op!Stage \in 1 .. 6
    /\ Op!Step \in Nat
    /\ ~mPrepared => Op!Stage = Project /\ Op!Step = 0 /\ ~Op!Error
    /\ mPrepared => Op!Error = mError
    /\ mPrepared /\ mCurrentStage < 6 /\ mCurrentStep >= StepsOf(mCurrentStage) =>
          Op!Stage = mCurrentStage + 1 /\ Op!Step = 0
    /\ mPrepared /\ ~(mCurrentStage < 6 /\ mCurrentStep >= StepsOf(mCurrentStage)) =>
          Op!Stage = mCurrentStage /\ Op!Step = mCurrentStep

LEMMA PositionFound == SaveTypes => Position
<1> SUFFICES ASSUME SaveTypes
             PROVE  Position
  OBVIOUS
<1>1. CASE mPrepared
  <2>1. Op!First = <<mCurrentStage, mCurrentStep>> /\ Op!Error = mError
    BY <1>1 DEF Op!First, Op!Error, SaveTypes
  <2> QED
    BY <1>1, <2>1, StageFound DEF Position, SaveTypes, StepsOf
<1>2. CASE ~mPrepared
  <2>1. Op!First = <<1, 0>> /\ ~Op!Error
    BY <1>2 DEF Op!First, Op!Error
  <2>2. Op!Stage = 1 /\ Op!Step = 0
    BY <2>1, StageFound DEF StepsOf, Write
  <2> QED
    BY <1>2, <2>1, <2>2 DEF Position, Project
<1> QED
  BY <1>1, <1>2

\* A step that leaves the position of the operation alone.
LEMMA PositionKept ==
    ASSUME SaveTypes, SaveTypes', UNCHANGED <<mPrepared, mError, mCurrentStage, mCurrentStep>>
    PROVE  Op!Stage' = Op!Stage /\ Op!Step' = Op!Step /\ Op!Error' = Op!Error
<1>1. Position /\ Position'
  BY PositionFound, PTL
<1> QED
  BY <1>1 DEF Position, Op!Error, SaveTypes

LEMMA NotFailed == <<>> # <<FALSE>>
OBVIOUS

\* A step that leaves the stages, the files and the versions alone and ends no save.
LEMMA FilesKept ==
    ASSUME SavingInv, SaveTypes', UNCHANGED <<mPrepared, mError, mCurrentStage, mCurrentStep, timer>>,
           UNCHANGED <<content, tmp, mProjectFile, replacing, version, clean, excused>>,
           dones' = dones \/ dones' = <<>>, ~mDirty' => ~mDirty \/ dones = <<FALSE>>
    PROVE  FilesInv' /\ CleanMeansSaved'
<1>1. Op!Stage' = Op!Stage /\ Op!Step' = Op!Step /\ Op!Error' = Op!Error
  BY PositionKept DEF SavingInv
<1>2. StageInv <=> StageInv'
  BY <1>1 DEF StageInv, NoTmp, Op!End, Whole, Written
<1>3. Whole(version)' = Whole(version) /\ NoTmp' = NoTmp
  BY DEF Whole, Written, NoTmp
<1>4. dones' = <<FALSE>> => dones = <<FALSE>>
  BY NotFailed, Zenon
<1>5. FilesInv'
  BY <1>1, <1>2, <1>3, <1>4 DEF SavingInv, FilesInv
<1>6. CleanMeansSaved'
  BY <1>3 DEF SavingInv, FilesInv, CleanMeansSaved, Modified
<1> QED
  BY <1>5, <1>6

\* One step of a stage: an error leads to the last stage, else the next step or stage
\* follows; the last stage ends the save.
LEMMA Executed ==
    ASSUME SaveTypes, NEW throws \in BOOLEAN, Op!executeStage(throws)
    PROVE  /\ thread = "running" /\ timer
           /\ Op!Stage \in 1 .. 5
           /\ mPrepared' /\ mError' = (Op!Error \/ throws)
           /\ mCurrentStage' = IF throws THEN Final ELSE Op!Stage
           /\ mCurrentStep' = IF throws /\ Op!Stage # Final THEN 0 ELSE Op!Step + 1
           /\ UNCHANGED <<mRunning, thread, aborts, timer, dones>>
<1>1. Position /\ Op!Last = 5 /\ Op!End = 6
  BY PositionFound DEF Op!Last, Op!End
<1>2. /\ mCurrentStage' = IF throws THEN Final ELSE Op!Stage
      /\ mCurrentStep' = IF throws /\ Op!Stage # Final THEN 0 ELSE Op!Step + 1
  <2>1. CASE throws
    <3>1. Op!AbortedAt(Op!Stage, Op!Step + 1)
            = IF Op!Stage = Final THEN <<Op!Stage, Op!Step + 1>> ELSE <<Final, 0>>
      BY <1>1 DEF Op!AbortedAt, Final
    <3> QED
      BY <2>1, <3>1 DEF Op!executeStage, Op!GoTo
  <2>2. CASE ~throws
    BY <2>2 DEF Op!executeStage, Op!GoTo
  <2> QED
    BY <2>1, <2>2
<1>3. mCurrentStage' # Op!End
  BY <1>1, <1>2 DEF Op!executeStage, Final
<1> QED
  BY <1>1, <1>2, <1>3 DEF Op!executeStage, Op!holder, Position

LEMMA ExecutedTypes ==
    ASSUME SaveTypes, NEW throws \in BOOLEAN, Op!executeStage(throws)
    PROVE  /\ aborts' \in Nat /\ mPrepared' \in BOOLEAN /\ mError' \in BOOLEAN
           /\ mCurrentStage' \in 1 .. 6 /\ mCurrentStep' \in Nat
<1>1. Position
  BY PositionFound
<1>2. /\ mPrepared' /\ mError' = (Op!Error \/ throws)
      /\ mCurrentStage' = IF throws THEN Final ELSE Op!Stage
      /\ mCurrentStep' = IF throws /\ Op!Stage # Final THEN 0 ELSE Op!Step + 1
      /\ aborts' = aborts
  BY Executed
<1>3. mError' \in BOOLEAN /\ mPrepared' \in BOOLEAN
  BY <1>2 DEF Op!executeStage
<1> QED
  BY <1>1, <1>2, <1>3 DEF SaveTypes, Position, Final

LEMMA NextPosition ==
    ASSUME SaveTypes, SaveTypes', NEW throws \in BOOLEAN, Op!executeStage(throws)
    PROVE  /\ Op!Error' = (Op!Error \/ throws)
           /\ throws /\ Op!Stage # Final => Op!Stage' = Final
           /\ Op!Stage = Final => Op!Stage' = 6
           /\ ~throws /\ Op!Stage # Final =>
                 IF Op!Step + 1 < StepsOf(Op!Stage) THEN Op!Stage' = Op!Stage /\ Op!Step' = Op!Step + 1
                 ELSE Op!Stage' = Op!Stage + 1 /\ Op!Step' = 0
<1>1. Position /\ Position'
  BY PositionFound, PTL
<1>9. /\ mPrepared' /\ mError' = (Op!Error \/ throws)
      /\ Op!Stage \in 1 .. 5
      /\ mCurrentStage' = IF throws THEN Final ELSE Op!Stage
      /\ mCurrentStep' = IF throws /\ Op!Stage # Final THEN 0 ELSE Op!Step + 1
  BY Executed
<1>2. Op!Error' = (Op!Error \/ throws)
  BY <1>9 DEF Op!Error
<1>3. CASE throws
  BY <1>1, <1>3, <1>2, <1>9 DEF Position, StepsOf, Final, Write
<1>4. CASE ~throws
  BY <1>1, <1>4, <1>2, <1>9 DEF Position, StepsOf, Final, Write
<1> QED
  BY <1>3, <1>4

\* An abort: a save that has begun goes on with its last stage.
LEMMA AbortedTypes ==
    ASSUME SaveTypes, Op!Abort
    PROVE  /\ aborts' \in Nat /\ mPrepared' \in BOOLEAN /\ mError' \in BOOLEAN
           /\ mCurrentStage' \in 1 .. 6 /\ mCurrentStep' \in Nat
           /\ timer => mError' /\ mCurrentStage' = Final
                       /\ mCurrentStep' = IF mCurrentStage = Final THEN mCurrentStep ELSE 0
           /\ ~timer => UNCHANGED <<mError, mCurrentStage, mCurrentStep>>
           /\ UNCHANGED <<mRunning, thread, timer, mPrepared, dones>>
<1>1. Op!AbortedAt(mCurrentStage, mCurrentStep)
        = IF mCurrentStage = Final THEN <<mCurrentStage, mCurrentStep>> ELSE <<Final, 0>>
  BY DEF Op!AbortedAt, Op!Last, Final
<1>2. aborts' \in Nat
  BY DEF Op!Abort, SaveTypes
<1>3. CASE timer
  BY <1>1, <1>2, <1>3 DEF Op!Abort, Op!GoTo, Op!holder, SaveTypes, Final
<1>4. CASE ~timer
  BY <1>2, <1>4 DEF Op!Abort, Op!holder, SaveTypes
<1> QED
  BY <1>3, <1>4

LEMMA AbortedPosition ==
    ASSUME SaveTypes, SaveTypes', Op!Abort, timer
    PROVE  IF mPrepared THEN /\ Op!Error'
                             /\ Op!Stage' = IF Op!Stage = 6 /\ mCurrentStage = Final THEN 6 ELSE Final
                             /\ mCurrentStage = Final => Op!Stage \in {Final, 6}
           ELSE ~Op!Error' /\ Op!Stage' = Project /\ Op!Stage = Project
<1>1. Position /\ Position'
  BY PositionFound, PTL
<1>2. /\ mError' /\ mCurrentStage' = Final /\ mPrepared' = mPrepared
      /\ mCurrentStep' = IF mCurrentStage = Final THEN mCurrentStep ELSE 0
  BY AbortedTypes
<1>3. CASE mPrepared
  <2>1. Op!Error'
    BY <1>2, <1>3 DEF Op!Error
  <2> QED
    BY <1>1, <1>2, <1>3, <2>1 DEF Position, StepsOf, Final, Write, SaveTypes
<1>4. CASE ~mPrepared
  BY <1>1, <1>2, <1>4 DEF Position
<1> QED
  BY <1>3, <1>4

\* The steps of the stages, apart from the last one without an error.
LEMMA PerformStep ==
    ASSUME SavingInv, NEW throws \in BOOLEAN, Op!executeStage(throws),
           Op!Stage = Final => Op!Error, perform(throws)
    PROVE  SaveTypes' /\ FilesInv' /\ CleanMeansSaved'
<1>1. /\ SaveTypes /\ StageInv /\ timer /\ timer' = timer /\ dones' = dones
      /\ Position /\ Op!End = 6 /\ Op!Stage \in 1 .. 5
  BY Executed, PositionFound DEF SavingInv, FilesInv, Op!End
<1>2. ~replacing /\ replacing' = replacing
  BY DEF SavingInv, FilesInv, perform, WriteProject, OpenTmp, WriteRecords, CloseTmp, RemoveTmp, files
<1>3. /\ content' = content /\ version' = version /\ clean' = clean /\ mDirty' = mDirty
      /\ excused' = excused \cup IF throws /\ Op!Stage = Final THEN {"failedFinal"} ELSE {}
  BY DEF perform, WriteProject, OpenTmp, WriteRecords, CloseTmp, RemoveTmp, document
<1>4. tmp' \in File /\ mProjectFile' \in BOOLEAN
  <2>1. CASE WriteProject(throws)
    BY <2>1, <1>1 DEF WriteProject, SaveTypes
  <2>2. CASE OpenTmp(throws)
    <3>1. Written({}, FALSE) \in File
      BY DEF Written, File
    <3> QED
      BY <2>2, <3>1, <1>1 DEF OpenTmp, SaveTypes
  <2>3. CASE WriteRecords(throws)
    BY <2>3, <1>1 DEF WriteRecords, SaveTypes, StageInv, Records, File
  <2>4. CASE CloseTmp(throws)
    BY <2>4, <1>1 DEF CloseTmp, SaveTypes, StageInv, Records, File
  <2>5. CASE RemoveTmp(throws)
    BY <2>5, <1>1 DEF RemoveTmp, SaveTypes, File
  <2> QED
    BY <2>1, <2>2, <2>3, <2>4, <2>5 DEF perform
<1>5. SaveTypes'
  BY <1>1, <1>2, <1>3, <1>4, ExecutedTypes DEF SaveTypes, Versions, File
<1>6. /\ Op!Error' = (Op!Error \/ throws)
      /\ throws /\ Op!Stage # Final => Op!Stage' = Final
      /\ Op!Stage = Final => Op!Stage' = 6
      /\ ~throws /\ Op!Stage # Final =>
            IF Op!Step + 1 < StepsOf(Op!Stage) THEN Op!Stage' = Op!Stage /\ Op!Step' = Op!Step + 1
            ELSE Op!Stage' = Op!Stage + 1 /\ Op!Step' = 0
  BY <1>1, <1>5, NextPosition
<1>7. StageInv'
  <2> DEFINE NoTmpNext == tmp' = Absent \/ "failedFinal" \in excused'
  <2>0. (NoTmp' <=> NoTmpNext) /\ Whole(version)' = Whole(version)
    BY <1>1, <1>3 DEF NoTmp, Op!End, Whole, Written
  <2>1. CASE WriteProject(throws)
    <3>1. mProjectFile' /\ NoTmpNext /\ Op!Stage = 1
      BY <1>1, <1>3, <2>1 DEF WriteProject, StageInv, NoTmp, Project
    <3>2. IF throws THEN Op!Stage' = Final ELSE Op!Stage' = Open
      BY <1>1, <1>6, <3>1 DEF Position, StepsOf, Final, Open, Write
    <3> QED
      BY <1>1, <1>6, <2>0, <3>1, <3>2 DEF StageInv, Project, Open, Write, Close, Final
  <2>2. CASE OpenTmp(throws)
    <3>1. ~mProjectFile' /\ Op!Stage = 2 /\ ~Op!Error
      BY <1>1, <2>2 DEF OpenTmp, StageInv, Open, Final
    <3>2. ~throws => tmp' \in Records /\ tmp'.of = {}
      BY <2>2 DEF OpenTmp, Written, Records
    <3>3. IF throws THEN Op!Stage' = Final ELSE Op!Stage' = Write /\ Op!Step' = 0
      BY <1>1, <1>6, <3>1 DEF Position, StepsOf, Final, Write
    <3> QED
      BY <1>1, <1>6, <2>0, <3>1, <3>2, <3>3 DEF StageInv, Project, Open, Write, Close, Final
  <2>3. CASE WriteRecords(throws)
    <3>1. ~mProjectFile' /\ Op!Stage = 3 /\ ~Op!Error
      BY <1>1, <2>3 DEF WriteRecords, StageInv, Write, Final
    <3>2. tmp' \in Records /\ (excused = {} => tmp'.of = {version})
      BY <1>1, <2>3 DEF WriteRecords, StageInv, Records, SaveTypes
    <3>3. Op!Stage' = IF throws THEN Final ELSE IF Op!Step + 1 < 2 THEN Write ELSE Close
      BY <1>1, <1>6, <3>1 DEF Position, StepsOf, Final, Write, Close
    <3>4. Op!Stage' = Write => Op!Step' # 0
      BY <1>1, <1>6, <3>1, <3>3 DEF Position, StepsOf, Final, Write, Close
    <3>5. excused' = excused
      BY <1>3, <3>1 DEF Final
    <3> QED
      BY <1>1, <1>3, <1>6, <2>0, <3>1, <3>2, <3>3, <3>4, <3>5
      DEF StageInv, Project, Open, Write, Close, Final
  <2>4. CASE CloseTmp(throws)
    <3>1. ~mProjectFile' /\ Op!Stage = 4 /\ ~Op!Error
      BY <1>1, <2>4 DEF CloseTmp, StageInv, Close, Final
    <3>2. tmp' \in Records /\ (excused = {} => tmp'.of = {version}) /\ (~throws => tmp'.closed)
      BY <1>1, <2>4 DEF CloseTmp, StageInv, Records, SaveTypes
    <3>3. Op!Stage' = Final
      BY <1>1, <1>6, <3>1 DEF Position, StepsOf, Final, Write, Close
    <3>4. excused' = excused
      BY <1>3, <3>1 DEF Final
    <3> QED
      BY <1>1, <1>3, <1>6, <2>0, <3>1, <3>2, <3>3, <3>4
      DEF StageInv, Project, Open, Write, Close, Final
  <2>5. CASE RemoveTmp(throws)
    <3>1. Op!Stage = Final /\ Op!Error /\ Op!Stage' = 6 /\ Op!Error'
      BY <1>6, <2>5 DEF RemoveTmp
    <3>2. NoTmpNext
      BY <1>1, <1>3, <2>5 DEF RemoveTmp, StageInv, NoTmp
    <3> QED
      BY <1>1, <2>0, <3>1, <3>2 DEF StageInv, Project, Open, Write, Close, Final
  <2> QED
    BY <2>1, <2>2, <2>3, <2>4, <2>5 DEF perform
<1>8. FilesInv'
  BY <1>1, <1>2, <1>3, <1>7 DEF SavingInv, FilesInv, Whole, Written
<1>9. CleanMeansSaved'
  BY <1>2, <1>3 DEF SavingInv, CleanMeansSaved, Modified, Whole, Written
<1> QED
  BY <1>5, <1>8, <1>9

\* The last stage without an error: the old file goes, then the new one takes its place.
LEMMA RemoveContentStep ==
    ASSUME SavingInv, RemoveContent
    PROVE  SaveTypes' /\ FilesInv' /\ CleanMeansSaved'
<1>1. SaveTypes'
  BY DEF SavingInv, RemoveContent, SaveTypes, operation, document, File, Versions
<1>2. Op!Stage' = Op!Stage /\ Op!Step' = Op!Step /\ Op!Error' = Op!Error
  BY <1>1, PositionKept DEF SavingInv, RemoveContent, operation
<1>3. timer /\ timer' = timer /\ StageInv /\ Op!Stage = Final /\ ~Op!Error /\ replacing'
  BY DEF SavingInv, FilesInv, RemoveContent, operation
<1>4. StageInv'
  BY <1>2, <1>3 DEF StageInv, RemoveContent, document, NoTmp, Final, Op!End, Project, Open, Write, Close
<1>5. dones' # <<FALSE>>
  BY NotFailed DEF SavingInv, DoneInv, RemoveContent, operation
<1>6. FilesInv'
  BY <1>2, <1>3, <1>4, <1>5 DEF FilesInv
<1>7. CleanMeansSaved'
  BY <1>3 DEF CleanMeansSaved
<1> QED
  BY <1>1, <1>6, <1>7

LEMMA RenameTmpStep ==
    ASSUME SavingInv, NEW throws \in BOOLEAN, RenameTmp(throws)
    PROVE  SaveTypes' /\ FilesInv' /\ CleanMeansSaved'
<1>1. /\ SaveTypes /\ timer /\ timer' = timer /\ StageInv /\ Op!Stage = Final /\ ~Op!Error
      /\ Op!End = 6 /\ ~replacing' /\ version' = version /\ dones' = dones
  <2>1. SaveTypes /\ Op!executeStage(throws) /\ replacing
    BY DEF SavingInv, RenameTmp
  <2>2. timer /\ timer' = timer /\ dones' = dones
    BY <2>1, Executed
  <2> QED
    BY <2>1, <2>2 DEF SavingInv, FilesInv, RenameTmp, Op!End
<1>2. tmp \in Records /\ tmp.closed /\ (excused = {} => tmp = Whole(version))
  <2>1. tmp \in Records /\ tmp.closed /\ (excused = {} => tmp.of = {version})
    BY <1>1 DEF StageInv
  <2> QED
    BY <2>1 DEF Records, Whole, Written
<1>3. IF throws THEN content' = content /\ tmp' = tmp /\ clean' = clean
      ELSE content' = tmp /\ tmp' = Absent /\ clean' = version
  BY DEF RenameTmp
<1>4. SaveTypes'
  <2>1. content' \in File /\ tmp' \in File
    BY <1>1, <1>2, <1>3 DEF SaveTypes, Records, File
  <2>2. clean' \in Versions /\ clean' <= version
    BY <1>1, <1>3 DEF SaveTypes, Versions
  <2>3. /\ aborts' \in Nat /\ mPrepared' \in BOOLEAN /\ mError' \in BOOLEAN
        /\ mCurrentStage' \in 1 .. 6 /\ mCurrentStep' \in Nat
    BY <1>1, ExecutedTypes DEF RenameTmp
  <2> QED
    BY <1>1, <2>1, <2>2, <2>3 DEF SaveTypes, RenameTmp
<1>5. Op!Stage' = 6 /\ Op!Error' = (Op!Error \/ throws)
  BY <1>1, <1>4, NextPosition DEF RenameTmp
<1>6. excused' # {} \/ (~throws /\ excused' = excused)
  BY DEF RenameTmp
<1>7. NoTmp'
  BY <1>3 DEF RenameTmp, NoTmp
<1>8. excused' = {} => content' = Whole(version)'
  BY <1>1, <1>2, <1>3, <1>6 DEF Whole, Written
<1>9. StageInv'
  BY <1>1, <1>5, <1>7, <1>8 DEF StageInv, Final, Project, Open, Write, Close
<1>10. FilesInv' /\ CleanMeansSaved'
  BY <1>1, <1>8, <1>9 DEF FilesInv, CleanMeansSaved
<1> QED
  BY <1>4, <1>10

\* The other slots of the thread of the operation.
LEMMA AbortStep ==
    ASSUME SavingInv, AbortSlot
    PROVE  SaveTypes' /\ FilesInv' /\ CleanMeansSaved'
<1>1. /\ SaveTypes /\ Op!Abort /\ ~replacing /\ Op!End = 6
      /\ UNCHANGED <<content, tmp, mProjectFile, replacing, version, clean, mDirty, excused>>
      /\ UNCHANGED <<timer, dones>>
  BY AbortedTypes DEF SavingInv, AbortSlot, Quiet, files, document, Op!End
<1>2. SaveTypes'
  BY <1>1, AbortedTypes DEF SaveTypes, Versions, File
<1>3. CASE ~timer
  BY <1>1, <1>2, <1>3, AbortedTypes, FilesKept
<1>4. CASE timer
  <2>1. StageInv /\ (NoTmp' <=> NoTmp)
    BY <1>1, <1>4 DEF SavingInv, FilesInv, NoTmp
  <2>2. IF mPrepared THEN Op!Error' /\ (Op!Stage' = Final \/ (Op!Stage' = 6 /\ Op!Stage = 6))
        ELSE ~Op!Error' /\ Op!Stage' = Project /\ Op!Stage = Project
    BY <1>1, <1>2, <1>4, AbortedPosition
  <2>3. Op!Stage \in 1 .. 6
    BY <1>1, PositionFound DEF Position
  <2>4. Op!Stage = Final \/ mProjectFile => NoTmp \/ Op!Stage = Final
    BY <1>1, <2>1, <2>3 DEF StageInv, Project, Open, Write, Close, Final
  <2>5. Op!Stage = Final /\ mProjectFile => NoTmp
    BY <2>1 DEF StageInv
  <2>6. StageInv'
    BY <1>1, <2>1, <2>2, <2>4, <2>5 DEF StageInv, Project, Open, Write, Close, Final
  <2>7. Whole(version)' = Whole(version)
    BY <1>1 DEF Whole, Written
  <2> QED
    <3>1. FilesInv'
      BY <1>1, <1>4, <2>6, <2>7 DEF SavingInv, FilesInv
    <3>2. CleanMeansSaved'
      BY <1>1, <2>7 DEF SavingInv, CleanMeansSaved, Modified
    <3> QED
      BY <1>2, <3>1, <3>2
<1> QED
  BY <1>3, <1>4 DEF SavingInv, DoneInv

LEMMA RunStep ==
    ASSUME SavingInv, Op!run, Quiet
    PROVE  SaveTypes' /\ FilesInv' /\ CleanMeansSaved'
<1>1. /\ SaveTypes /\ thread = "starting" /\ ~timer /\ timer' /\ mPrepared' = FALSE
      /\ UNCHANGED <<aborts, mError, mCurrentStage, mCurrentStep, dones>>
      /\ UNCHANGED <<content, tmp, mProjectFile, replacing, version, clean, mDirty, excused>>
  BY DEF SavingInv, DoneInv, Op!run, Quiet, files, document
<1>2. SaveTypes'
  BY <1>1 DEF SaveTypes, Versions, File
<1>3. Op!Stage' = Project /\ ~Op!Error'
  <2>1. Position'
    BY <1>2, PositionFound, PTL
  <2> QED
    BY <1>1, <2>1 DEF Position
<1>4. NoTmp' /\ ~replacing' /\ Whole(version)' = Whole(version)
  BY <1>1 DEF SavingInv, FilesInv, NoTmp, Whole, Written
<1>5. StageInv'
  BY <1>3, <1>4 DEF StageInv, Project, Open, Write, Close, Final, Op!End
<1>6. FilesInv'
  BY <1>1, <1>4, <1>5 DEF SavingInv, FilesInv
<1>7. CleanMeansSaved'
  BY <1>1, <1>4 DEF SavingInv, CleanMeansSaved, Modified
<1> QED
  BY <1>2, <1>6, <1>7

LEMMA OperationDoneStep ==
    ASSUME SavingInv, Op!operationDone, Quiet
    PROVE  SaveTypes' /\ FilesInv' /\ CleanMeansSaved'
<1>1. /\ SaveTypes /\ StageInv /\ Op!Stage = Op!End /\ ~timer' /\ ~replacing /\ dones = <<>>
      /\ UNCHANGED <<content, tmp, mProjectFile, replacing, version, clean, mDirty, excused>>
  BY DEF SavingInv, FilesInv, DoneInv, Op!operationDone, Quiet, files, document, Op!End, Final
<1>2. SaveTypes'
  <2>1. aborts' = aborts /\ mPrepared' \in BOOLEAN /\ mError' \in BOOLEAN
    BY DEF Op!operationDone, Op!Error
  <2>2. mCurrentStage' = 6 /\ mCurrentStep' = 0
    BY DEF Op!operationDone, Op!GoTo, Op!End
  <2> QED
    BY <1>1, <2>1, <2>2 DEF SaveTypes, Versions, File
<1>3. NoTmp' /\ Whole(version)' = Whole(version)
  BY <1>1 DEF StageInv, NoTmp, Whole, Written
<1>4. dones' = <<FALSE>> /\ excused' = {} => content' = Whole(version)'
  <2>1. dones' = <<Op!Error>> /\ Op!Error \in BOOLEAN
    BY <1>1 DEF Op!operationDone, Op!Error
  <2> SUFFICES ASSUME dones' = <<FALSE>>, excused' = {}
               PROVE  content' = Whole(version)'
    OBVIOUS
  <2>2. ~Op!Error
    <3>1. PICK failed \in BOOLEAN : failed = Op!Error
      BY <2>1
    <3>2. <<failed>> = <<FALSE>>
      BY <2>1, <3>1
    <3>3. failed = FALSE
      BY <3>2
    <3> QED
      BY <3>1, <3>3
  <2> QED
    BY <1>1, <1>3, <2>2 DEF StageInv
<1>5. FilesInv'
  BY <1>1, <1>3, <1>4 DEF FilesInv
<1>6. CleanMeansSaved'
  BY <1>1, <1>3 DEF SavingInv, CleanMeansSaved, Modified
<1> QED
  BY <1>2, <1>5, <1>6

\* A change to the document: what is on the disk is older, or excused.
LEMMA EditStep ==
    ASSUME SavingInv, Edit
    PROVE  SaveTypes' /\ FilesInv' /\ CleanMeansSaved'
<1>1. /\ SaveTypes /\ version' = version + 1 /\ clean' = clean /\ clean # version'
      /\ UNCHANGED <<operation, content, tmp, mProjectFile, replacing, mDirty>>
      /\ excused' = excused \cup IF Op!Active THEN {"editedDuring"} ELSE {}
  BY DEF SavingInv, SaveTypes, Edit, files, Versions
<1>2. SaveTypes'
  <2>1. version' \in Versions /\ clean <= version'
    BY <1>1, BoundsAssumption DEF Edit, SaveTypes, Versions
  <2> QED
    BY <1>1, <2>1 DEF SaveTypes, operation, Versions, File
<1>3. Op!Stage' = Op!Stage /\ Op!Step' = Op!Step /\ Op!Error' = Op!Error
  BY <1>1, <1>2, PositionKept DEF SavingInv, operation
<1>4. NoTmp => NoTmp'
  BY <1>1 DEF NoTmp
<1>5. timer \/ dones # <<>> => excused' # {}
  BY <1>1 DEF SavingInv, DoneInv, Op!Active
<1>6. timer => StageInv'
  BY <1>1, <1>3, <1>4, <1>5 DEF SavingInv, FilesInv, StageInv, Op!End
<1>7. FilesInv'
  BY <1>1, <1>3, <1>4, <1>5, <1>6, NotFailed DEF SavingInv, FilesInv, operation
<1>8. CleanMeansSaved'
  BY <1>1 DEF CleanMeansSaved, Modified
<1> QED
  BY <1>2, <1>7, <1>8

\* The end of a save is heard of: a document that was dirty is clean after a save that
\* has written all of it.
LEMMA DoneStep ==
    ASSUME SavingInv, operationDone2
    PROVE  SaveTypes' /\ FilesInv' /\ CleanMeansSaved'
<1>1. PICK failed \in BOOLEAN : dones = <<failed>>
  BY DEF SavingInv, DoneInv, operationDone2, Op!doneSlot
<1>2. Tail(<<failed>>) = <<>> /\ Head(<<failed>>) = failed
  OBVIOUS
<1>3. dones' = <<>> /\ mDirty' = (mDirty /\ failed)
  BY <1>1, <1>2 DEF operationDone2, Op!doneSlot, Undirtied
<1>4. ~mDirty' => ~mDirty \/ dones = <<FALSE>>
  BY <1>1, <1>3
<1>5. /\ UNCHANGED <<aborts, mPrepared, mError, mCurrentStage, mCurrentStep, timer>>
      /\ UNCHANGED <<content, tmp, mProjectFile, replacing, version, clean, excused>>
  BY DEF operationDone2, Op!doneSlot, Op!position, files
<1>6. SaveTypes'
  BY <1>3, <1>5 DEF SavingInv, SaveTypes, Versions, File
<1> QED
  BY <1>3, <1>4, <1>5, <1>6, FilesKept

\* The other steps leave alone what the invariant speaks of.
LEMMA OtherStep ==
    ASSUME SavingInv, UNCHANGED <<mPrepared, mError, mCurrentStage, mCurrentStep, timer, dones>>,
           UNCHANGED <<content, tmp, mProjectFile, replacing, version, clean, mDirty, excused>>,
           aborts' = aborts \/ aborts' = aborts + 1
    PROVE  SaveTypes' /\ FilesInv' /\ CleanMeansSaved'
<1>1. SaveTypes'
  BY DEF SavingInv, SaveTypes, Versions, File
<1> QED
  BY <1>1, FilesKept

LEMMA SavingInvStep == SavingInv /\ [Next]_vars => SavingInv'
<1> SUFFICES ASSUME SavingInv, [Next]_vars
             PROVE  SavingInv'
  OBVIOUS
<1> DEFINE Same == /\ UNCHANGED <<mPrepared, mError, mCurrentStage, mCurrentStep, timer, dones>>
                   /\ UNCHANGED <<content, tmp, mProjectFile, replacing>>
                   /\ UNCHANGED <<version, clean, mDirty, excused>>
                   /\ aborts' = aborts \/ aborts' = aborts + 1
           Goal == SaveTypes' /\ FilesInv' /\ CleanMeansSaved'
<1>1. DoneInv'
  BY StepOperates, SaveIsOperation DEF SavingInv
<1> SUFFICES Goal
  BY <1>1 DEF SavingInv
<1>2. Same => Goal
  BY OtherStep
<1>3. CASE Work
  <2>1. ASSUME NEW throws \in BOOLEAN,
               Op!executeStage(throws), Op!Stage = Final => Op!Error, perform(throws)
        PROVE  Goal
    BY <2>1, PerformStep
  <2>2. ASSUME NEW throws \in BOOLEAN, RenameTmp(throws)
        PROVE  Goal
    BY <2>2, RenameTmpStep
  <2>3. CASE RemoveContent
    BY <2>3, RemoveContentStep
  <2>4. CASE Op!run /\ Quiet
    BY <2>4, RunStep
  <2>5. CASE Op!operationDone /\ Quiet
    BY <2>5, OperationDoneStep
  <2>6. CASE Op!Leave /\ Quiet
    BY <1>2, <2>6 DEF Op!Leave, Op!position, Quiet, files, document
  <2> QED
    BY <1>3, <2>1, <2>2, <2>3, <2>4, <2>5, <2>6 DEF Work
<1>4. CASE AbortSlot
  BY <1>4, AbortStep
<1>5. CASE Edit
  BY <1>5, EditStep
<1>6. CASE operationDone2
  BY <1>6, DoneStep
<1>7. CASE modificationStateChanged \/ verify \/ toolsDone \/ stopRunning \/ notifySaveOnClose
  BY <1>2, <1>7 DEF modificationStateChanged, verify, toolsDone, stopRunning, notifySaveOnClose,
                    operation, files, document
<1>8. CASE Save \/ startRunning \/ AnswerSave
  BY <1>2, <1>8 DEF Save, save, startRunning, AnswerSave, Op!start, Op!position,
                    operation, files, document
<1>9. CASE abortOperation \/ AnswerCloseNow
  BY <1>2, <1>9 DEF abortOperation, AnswerCloseNow, Op!abort, Op!position, Quiet, files, document
<1>10. CASE AnswerWait \/ AnswerDiscard \/ AnswerCancel \/ Terminated \/ UNCHANGED vars
  BY <1>2, <1>10 DEF AnswerWait, AnswerDiscard, AnswerCancel, Terminated, vars,
                     operation, files, document
<1> QED
  BY <1>3, <1>4, <1>5, <1>6, <1>7, <1>8, <1>9, <1>10 DEF Next, GuiEvents, User

LEMMA SavingInvHolds == Spec => []SavingInv
BY InitSavingInv, SavingInvStep, PTL DEF Spec

\* A document that is not shown as modified is on the disk as it is in the editor,
\* for any bounds: setClean and the end of mDirty, in two threads, both come after
\* the rename, and the file is not touched again until the next save replaces it.
THEOREM CleanSaved == Spec => []CleanMeansSaved
BY SavingInvHolds, PTL DEF SavingInv

\* When no save is at work there is no temporary file, whatever failed or was aborted
\* before the last stage: the last stage finds it by mProjectFile and removes it.
THEOREM TmpRemoved == Spec => []TmpCleanedUp
<1>1. SavingInv => TmpCleanedUp
  BY DEF SavingInv, FilesInv, NoTmp, DoneInv, TmpCleanedUp, Op!Active
<1> QED
  BY <1>1, SavingInvHolds, PTL

\* The file of the document is removed only while a whole new one is beside it, and
\* only that one is renamed to it.
THEOREM ContentReplacedByWhole == Spec => ReplacedByWhole
<1>1. SavingInv /\ [Next]_vars =>
        [content' # content => tmp # Absent /\ tmp.closed /\ content' \in {Absent, tmp}]_<<content>>
  <2> SUFFICES ASSUME SavingInv, Next, content' # content
               PROVE  tmp # Absent /\ tmp.closed /\ content' \in {Absent, tmp}
    BY DEF vars, files
  <2>1. ASSUME Op!Stage = Final, ~Op!Error, timer
        PROVE  tmp # Absent /\ tmp.closed
    BY <2>1, FilesAssumption DEF SavingInv, FilesInv, StageInv, Records, Versions
  <2>2. ASSUME NEW throws \in BOOLEAN, RenameTmp(throws)
        PROVE  tmp # Absent /\ tmp.closed /\ content' \in {Absent, tmp}
    BY <2>1, <2>2 DEF SavingInv, FilesInv, RenameTmp
  <2>3. CASE RemoveContent
    BY <2>1, <2>3 DEF RemoveContent
  <2>4. ASSUME NEW throws \in BOOLEAN, perform(throws)
        PROVE  content' = content
    BY <2>4 DEF perform, WriteProject, OpenTmp, WriteRecords, CloseTmp, RemoveTmp
  <2>5. CASE AbortSlot \/ GuiEvents \/ User \/ toolsDone \/ stopRunning \/ Terminated
    BY <2>5 DEF AbortSlot, GuiEvents, modificationStateChanged, operationDone2, User, Edit, Save,
                abortOperation, verify, startRunning, notifySaveOnClose, AnswerWait, AnswerCloseNow,
                AnswerSave, AnswerDiscard, AnswerCancel, toolsDone, stopRunning, Terminated, Quiet,
                files, vars
  <2> QED
    BY <2>2, <2>3, <2>4, <2>5 DEF Next, Work, Quiet, files
<1> QED
  BY <1>1, SavingInvHolds, PTL DEF Spec, ReplacedByWhole

\* A game that a SaveWatcher starts finds on the disk what is in the editor: the end
\* of the save that it hears of is the end of one that has written all of it.
THEOREM SavedContentRun == Spec => RunsSavedContent
<1>1. SavingInv /\ [Next]_vars =>
        [watchers' < watchers /\ runner' = "on" /\ excused = {} => content = Whole(version)]_<<watchers>>
  <2> SUFFICES ASSUME SavingInv, Next, watchers' # watchers, watchers' < watchers, runner' = "on",
                      excused = {}
               PROVE  content = Whole(version)
    BY DEF vars, run
  <2>1. operationDone2
    BY DEF Next, Work, Quiet, perform, RenameTmp, RemoveContent, AbortSlot, GuiEvents,
           modificationStateChanged, User, Edit, Save, abortOperation, verify, startRunning,
           notifySaveOnClose, AnswerWait, AnswerCloseNow, AnswerSave, AnswerDiscard, AnswerCancel,
           toolsDone, stopRunning, Terminated, run, vars
  <2>2. PICK failed \in BOOLEAN : dones = <<failed>>
    BY <2>1 DEF SavingInv, DoneInv, operationDone2, Op!doneSlot
  <2>3. Head(<<failed>>) = failed
    OBVIOUS
  <2>4. failed = FALSE
    BY <2>1, <2>2, <2>3 DEF operationDone2, saveDone
  <2> QED
    BY <2>2, <2>4 DEF SavingInv, FilesInv
<1> QED
  BY <1>1, SavingInvHolds, PTL DEF Spec, RunsSavedContent

=============================================================================
