------------------------------ MODULE Operation ------------------------------
(***************************************************************************)
(* CSMDoc::Operation and CSMDoc::OperationHolder: the stages of a lengthy   *)
(* operation run step by step on a timer in a QThread of their own.  The    *)
(* GUI thread starts and aborts them; abort travels to the thread and done  *)
(* back as queued Qt signals.  What a step does (Stage::perform) is added   *)
(* by the module that instantiates this one.                                *)
(***************************************************************************)
EXTENDS Naturals, Sequences

CONSTANTS
    Steps,      \* the number of steps of each stage: what setup() returns
    FinalAlways \* mFinalAlways: the last stage runs even after an error

VARIABLES
    mRunning, \* OperationHolder: what isRunning() tells the GUI thread
    thread,   \* mThread: "stopped", "starting", "running" or "quitting"
    aborts,   \* abort signals posted to the operation, not delivered yet
    timer,    \* mTimer is active
    mPrepared, mError,
    mCurrentStage, mCurrentStep,
    dones     \* done signals posted to the GUI thread: each with its "failed"

holder == <<mRunning, thread>>
position == <<mPrepared, mError, mCurrentStage, mCurrentStep>>
vars == <<holder, aborts, timer, position, dones>>

Last == Len(Steps)
End == Len(Steps) + 1 \* mStages.end()

Init ==
    /\ mRunning = FALSE
    /\ thread = "stopped"
    /\ aborts = 0
    /\ timer = FALSE
    /\ mPrepared = FALSE
    /\ mError = FALSE
    /\ mCurrentStage = 1
    /\ mCurrentStep = 0
    /\ dones = <<>>

-----------------------------------------------------------------------------
(* The GUI thread.                                                         *)

\* QThread::start does nothing while the thread is running, also when it is
\* about to leave its event loop.
start ==
    /\ mRunning' = TRUE
    /\ thread' = IF thread = "stopped" THEN "starting" ELSE thread
    /\ UNCHANGED <<aborts, timer, position, dones>>

abort ==
    /\ mRunning' = FALSE
    /\ aborts' = aborts + 1
    /\ UNCHANGED <<thread, timer, position, dones>>

DoneWithoutQuit ==                                 \* mutant
    /\ dones # <<>>
    /\ dones' = Tail(dones)
    /\ mRunning' = FALSE
    /\ UNCHANGED <<thread, aborts, timer, position>>

doneSlot ==
    /\ dones # <<>>
    /\ dones' = Tail(dones)
    /\ mRunning' = FALSE
    /\ thread' = "quitting"
    /\ UNCHANGED <<aborts, timer, position>>

-----------------------------------------------------------------------------
(* The thread of the operation.                                            *)

\* started() calls run() before the event loop is entered.
run ==
    /\ thread = "starting"
    /\ thread' = "running"
    /\ timer' = TRUE
    /\ mPrepared' = FALSE
    /\ UNCHANGED <<mRunning, aborts, mError, mCurrentStage, mCurrentStep, dones>>

\* Where abort() leaves an operation that is at the given stage and step.
AbortedAt(stage, step) ==
    IF ~FinalAlways THEN <<End, step>>
    ELSE IF stage = Last THEN <<stage, step>> ELSE <<Last, 0>>

GoTo(place) == mCurrentStage' = place[1] /\ mCurrentStep' = place[2]

\* The slot abort(): nothing is left to abort when the timer is off.
Abort ==
    /\ thread \in {"running", "quitting"}
    /\ aborts > 0
    /\ aborts' = aborts - 1
    /\ IF timer
       THEN mError' = TRUE /\ GoTo(AbortedAt(mCurrentStage, mCurrentStep))
       ELSE UNCHANGED <<mError, mCurrentStage, mCurrentStep>>
    /\ UNCHANGED <<holder, timer, mPrepared, dones>>

\* prepareStages() at the first timeout; then stages without a step left are passed.
First == IF mPrepared THEN <<mCurrentStage, mCurrentStep>> ELSE <<1, 0>>
Error == mPrepared /\ mError
Left(stage) == IF stage = First[1] THEN First[2] < Steps[stage] ELSE Steps[stage] > 0
Stage ==
    CHOOSE s \in First[1] .. End :
        /\ s = End \/ Left(s)
        /\ \A r \in First[1] .. s - 1 : ~Left(r)
Step == IF Stage = First[1] THEN First[2] ELSE 0

\* Stage::perform of the current step, which may throw.
executeStage(throws) ==
    /\ thread = "running"
    /\ timer
    /\ Stage # End
    /\ mPrepared' = TRUE
    /\ mError' = (Error \/ throws)
    /\ GoTo(IF throws THEN AbortedAt(Stage, Step + 1) ELSE <<Stage, Step + 1>>)
    /\ IF mCurrentStage' = End
       THEN timer' = FALSE /\ dones' = Append(dones, mError')
       ELSE UNCHANGED <<timer, dones>>
    /\ UNCHANGED <<holder, aborts>>

operationDone ==
    /\ thread = "running"
    /\ timer
    /\ Stage = End
    /\ GoTo(<<End, 0>>)
    /\ mPrepared' = TRUE
    /\ mError' = Error
    /\ timer' = FALSE
    /\ dones' = Append(dones, Error)
    /\ UNCHANGED <<holder, aborts>>

\* QThread::quit has been seen: the event loop is left.
Leave ==
    /\ thread = "quitting"
    /\ thread' = "stopped"
    /\ UNCHANGED <<mRunning, aborts, timer, position, dones>>

Next ==
    \/ start \/ abort \/ doneSlot
    \/ run \/ Abort \/ operationDone \/ Leave
    \/ \E throws \in BOOLEAN : executeStage(throws)

Spec == Init /\ [][Next]_vars

-----------------------------------------------------------------------------
\* The type invariant of an operation and its holder.
TypeOK ==
    /\ mRunning \in BOOLEAN
    /\ thread \in {"stopped", "starting", "running", "quitting"}
    /\ aborts \in Nat
    /\ timer \in BOOLEAN
    /\ mPrepared \in BOOLEAN
    /\ mError \in BOOLEAN
    /\ mCurrentStage \in 1 .. End
    /\ mCurrentStep \in Nat
    /\ dones \in Seq(BOOLEAN)

\* The operation has been started and its end has not reached the GUI thread.
Active == thread \in {"starting", "running"}

\* Refinement: whatever is aborted or started meanwhile, an operation that runs
\* ends and is reported once.
T == INSTANCE Task WITH
    status <- IF dones # <<>> THEN "ended" ELSE IF Active THEN "running" ELSE "idle",
    failed <- dones # <<>> /\ Head(dones)

ImplementsTask == T!Spec

=============================================================================
