-------------------------------- MODULE Saving --------------------------------
(***************************************************************************)
(* A document of OpenMW-CS that is saved, run and closed: CSMDoc::Document, *)
(* the stages of CSMDoc::Saving on top of Operation, the Runner that starts *)
(* the game after a save, and CSVDoc::ViewManager asking the user what to   *)
(* do with a document that is closed while it is saved or modified.         *)
(***************************************************************************)
EXTENDS Naturals, Sequences

CONSTANTS
    Absent,     \* model value: no such file
    MaxEdits,   \* bound on the changes made to the document
    MaxAborts,  \* bound on abort signals on their way
    MaxWatchers \* bound on the SaveWatchers waiting for one save

ASSUME BoundsAssumption == {MaxEdits, MaxAborts, MaxWatchers} \subseteq Nat
ASSUME FilesAssumption == Absent \notin [of : SUBSET (0 .. MaxEdits), closed : BOOLEAN]

VARIABLES
    mRunning, thread, aborts, timer, mPrepared, mError, mCurrentStage, mCurrentStep, dones,
    content, tmp,  \* the file at mSavePath and the one with ".tmp" behind its name
    mProjectFile,  \* SavingState: the project file is being written
    replacing,     \* FinalSavingStage is between remove and rename
    version,       \* the changes made to the document
    clean,         \* the version at which mUndoStack is clean
    cleanChanged,  \* that signal of mUndoStack is on its way to the GUI thread
    mDirty,
    verifying,     \* some operation of mTools runs
    runner,        \* mRunner: "off", "delayed" until the save is done, "on"
    watchers,      \* SaveWatchers
    shown,         \* the state last told to the views
    dialog, shut,  \* the message box that is open; it has been closed by the handler
    handler,       \* stateChanged is connected to onExitWarningHandler
    mExitOnSaveStateChange,
    ended,         \* "no"; "closed", the document deleted; "exited", the application
    excused        \* what has happened that some properties make an exception for

operation == <<mRunning, thread, aborts, timer, mPrepared, mError, mCurrentStage, mCurrentStep, dones>>
files == <<content, tmp, mProjectFile, replacing>>
document == <<version, clean, cleanChanged, mDirty, verifying>>
run == <<runner, watchers>>
closing == <<dialog, shut, handler, mExitOnSaveStateChange, ended>>
vars == <<operation, files, document, run, shown, closing, excused>>

\* The stages of Saving, records of all types being one stage of two steps.
Project == 1
Open == 2
Write == 3
Close == 4
Final == 5
Op == INSTANCE Operation WITH Steps <- <<1, 1, 2, 1, 1>>, FinalAlways <- TRUE

\* A file that has been closed without an error holds all that was written to it.
Written(of, closed) == [of |-> of, closed |-> closed]
Whole(v) == Written({v}, TRUE)

\* Document::getState
Modified == clean # version \/ mDirty
State ==
    [ saving |-> mRunning,
      running |-> runner # "off",
      locked |-> mRunning \/ runner # "off" \/ verifying ]

\* A document that was loaded, or one that a merge has just made.
Init ==
    /\ Op!Init
    /\ mDirty \in BOOLEAN
    /\ content = IF mDirty THEN Absent ELSE Whole(0)
    /\ tmp = Absent
    /\ mProjectFile = FALSE
    /\ replacing = FALSE
    /\ version = 0
    /\ clean = 0
    /\ cleanChanged = FALSE
    /\ verifying = FALSE
    /\ runner = "off"
    /\ watchers = 0
    /\ shown = State
    /\ dialog = "none"
    /\ shut = FALSE
    /\ handler = FALSE
    /\ mExitOnSaveStateChange = FALSE
    /\ ended = "no"
    /\ excused = {}

-----------------------------------------------------------------------------
(* The stages of Saving, in the thread of the operation.                   *)

Alive == ended = "no"

WriteProject(throws) ==
    /\ Op!Stage = Project
    /\ mProjectFile' = TRUE
    /\ UNCHANGED <<content, tmp, replacing>>

OpenContent(throws) ==                        \* mutant: the file itself is opened
    /\ Op!Stage = Open
    /\ mProjectFile' = FALSE
    /\ content' = IF throws THEN content ELSE Written({}, FALSE)
    /\ tmp' = IF throws THEN tmp ELSE Written({}, FALSE)
    /\ UNCHANGED replacing

OpenTmp(throws) ==
    /\ Op!Stage = Open
    /\ mProjectFile' = FALSE
    /\ tmp' = IF throws THEN tmp ELSE Written({}, FALSE)
    /\ UNCHANGED <<content, replacing>>

WriteRecords(throws) ==
    /\ Op!Stage = Write
    /\ tmp' = [tmp EXCEPT !.of = @ \cup {version}]
    /\ UNCHANGED <<content, mProjectFile, replacing>>

CloseTmp(throws) ==
    /\ Op!Stage = Close
    /\ tmp' = [tmp EXCEPT !.closed = ~throws]
    /\ UNCHANGED <<content, mProjectFile, replacing>>

RemoveNothing(throws) ==                      \* mutant
    /\ Op!Stage = Final
    /\ Op!Error
    /\ UNCHANGED files

\* FinalSavingStage after an error; mState has the path of the last file opened.
RemoveTmp(throws) ==
    /\ Op!Stage = Final
    /\ Op!Error
    /\ tmp' = IF throws \/ mProjectFile THEN tmp ELSE Absent
    /\ UNCHANGED <<content, mProjectFile, replacing>>

perform(throws) ==
    /\ \/ WriteProject(throws)
       \/ OpenTmp(throws)
       \/ WriteRecords(throws)
       \/ CloseTmp(throws)
       \/ RemoveTmp(throws)
    /\ UNCHANGED <<document, run, shown, closing>>
    /\ excused' = excused \cup IF throws /\ Op!Stage = Final THEN {"failedFinal"} ELSE {}

\* FinalSavingStage without an error removes the old file first.
RemoveContent ==
    /\ thread = "running"
    /\ timer
    /\ Op!Stage = Final
    /\ ~Op!Error
    /\ ~replacing
    /\ replacing' = TRUE
    /\ content' = Absent
    /\ UNCHANGED <<operation, tmp, mProjectFile, document, run, shown, closing, excused>>

\* Then it renames the new one; setClean is called from this thread.
RenameTmp(throws) ==
    /\ replacing
    /\ Op!executeStage(throws)
    /\ replacing' = FALSE
    /\ IF throws
       THEN /\ excused' = excused \cup {"failedFinal"}
            /\ UNCHANGED <<content, tmp, clean, cleanChanged>>
       ELSE /\ content' = tmp
            /\ tmp' = Absent
            /\ clean' = version
            /\ cleanChanged' = (cleanChanged \/ clean # version)
            /\ excused' = excused
    /\ UNCHANGED <<mProjectFile, version, mDirty, verifying, run, shown, closing>>

Quiet == UNCHANGED <<files, document, run, shown, closing, excused>>

\* A timeout of mTimer, or the thread starts or ends.
Work ==
    /\ Alive
    /\ \/ \E throws \in BOOLEAN :
            \/ Op!executeStage(throws) /\ (Op!Stage = Final => Op!Error) /\ perform(throws)
            \/ RenameTmp(throws)
       \/ RemoveContent
       \/ (Op!run \/ Op!operationDone \/ Op!Leave) /\ Quiet

AbortSlot == Alive /\ ~replacing /\ Op!Abort /\ Quiet

-----------------------------------------------------------------------------
(* The GUI thread.                                                         *)

\* A box is answered, or closed by the handler, before the user does anything else.
Usable == Alive /\ dialog = "none"

\* emit stateChanged: the views are brought up to date; onExitWarningHandler closes
\* the message box, or the application when the user chose to wait for the save.
stateChangedWhen(saving) ==
    /\ shown' = State'
    /\ shut' = (shut \/ (handler /\ ~saving /\ dialog # "none"))
    /\ ended' = IF handler /\ ~saving /\ dialog = "none" /\ mExitOnSaveStateChange
                THEN "exited" ELSE ended
stateChanged == stateChangedWhen(mRunning')

\* A command: editing actions and undo are disabled while the document is locked.
Edit ==
    /\ Usable
    /\ ~shown.locked
    /\ version < MaxEdits
    /\ version' = version + 1
    /\ excused' = excused \cup IF Op!Active THEN {"editedDuring"} ELSE {}
    /\ UNCHANGED <<clean, cleanChanged, mDirty, verifying>>
    /\ UNCHANGED <<operation, files, run, dialog, handler, mExitOnSaveStateChange>>
    /\ IF clean = version THEN stateChanged ELSE UNCHANGED <<shown, shut, ended>>

\* Document::save, its exception being the guard ~mRunning; the menu entry has its own.
save ==
    /\ ~mRunning
    /\ Op!start
    /\ stateChanged

Save ==
    /\ Usable
    /\ ~shown.saving /\ ~shown.running
    /\ UNCHANGED <<files, document, run, dialog, handler, mExitOnSaveStateChange, excused>>
    /\ save

\* The button is there once progress has been reported; nobody is told the new state.
abortOperation ==
    /\ Usable
    /\ thread = "running"
    /\ aborts < MaxAborts
    /\ Op!abort
    /\ Quiet

\* mTools: Document::verify, runSearch, runMerge; and their end.
verify ==
    /\ Usable
    /\ ~verifying
    /\ verifying' = TRUE
    /\ UNCHANGED <<operation, files, version, clean, cleanChanged, mDirty, run, dialog, handler,
                   mExitOnSaveStateChange, excused>>
    /\ stateChanged

toolsDone ==
    /\ Alive
    /\ verifying
    /\ verifying' = FALSE
    /\ UNCHANGED <<operation, files, version, clean, cleanChanged, mDirty, run, dialog, handler,
                   mExitOnSaveStateChange, excused>>
    /\ stateChanged

\* The views hear of the delayed run before the save that it needs is started.
startRunning ==
    /\ Usable
    /\ ~shown.running
    /\ IF Modified
       THEN /\ watchers < MaxWatchers
            /\ runner' = "delayed"
            /\ watchers' = watchers + 1
            /\ IF mRunning THEN UNCHANGED operation ELSE Op!start
       ELSE /\ runner' = "on"
            /\ UNCHANGED <<watchers, operation>>
    /\ UNCHANGED <<files, document, dialog, handler, mExitOnSaveStateChange, excused>>
    /\ stateChangedWhen(mRunning)

\* The user stops the game, or it ends; a SaveWatcher stays.
stopRunning ==
    /\ Alive
    /\ runner # "off"
    /\ runner = "delayed" => Usable
    /\ runner' = "off"
    /\ UNCHANGED <<operation, files, document, watchers, dialog, handler,
                   mExitOnSaveStateChange, excused>>
    /\ stateChanged

modificationStateChanged ==
    /\ Alive
    /\ cleanChanged
    /\ cleanChanged' = FALSE
    /\ UNCHANGED <<operation, files, version, clean, mDirty, verifying, run, dialog, handler,
                   mExitOnSaveStateChange, excused>>
    /\ stateChanged

StartAnyway(failed) ==                        \* mutant
    /\ watchers' = 0
    /\ runner' = IF watchers = 0 THEN runner ELSE "on"

OnlyStart(failed) ==                          \* mutant
    /\ watchers' = 0
    /\ runner' = IF watchers = 0 \/ failed THEN runner ELSE "on"

\* Each SaveWatcher stops the run, or starts it, and is gone.
saveDone(failed) ==
    /\ watchers' = 0
    /\ runner' = IF watchers = 0 THEN runner ELSE IF failed THEN "off" ELSE "on"

UndirtiedAlways(failed) == FALSE                      \* mutant
Undirtied(failed) == mDirty /\ failed

\* OperationHolder::doneSlot, and the two slots its signal done is connected to.
operationDone2 ==
    /\ Alive
    /\ ~cleanChanged
    /\ Op!doneSlot
    /\ mDirty' = Undirtied(Head(dones))
    /\ saveDone(Head(dones))
    /\ UNCHANGED <<files, version, clean, cleanChanged, verifying, dialog, handler,
                   mExitOnSaveStateChange, excused>>
    /\ stateChanged

-----------------------------------------------------------------------------
(* Closing the last view of the document.                                  *)

notifySaveOnClose ==
    /\ Usable
    /\ IF mRunning THEN dialog' = "saving" /\ handler' = TRUE /\ ended' = ended
       ELSE IF Modified THEN dialog' = "modified" /\ handler' = TRUE /\ ended' = ended
       ELSE ended' = "closed" /\ UNCHANGED <<dialog, handler>>
    /\ shut' = FALSE
    /\ UNCHANGED <<operation, files, document, run, shown, mExitOnSaveStateChange, excused>>

Answered(box) == Alive /\ dialog = box /\ dialog' = "none" /\ shut' = FALSE

\* "Wait": the application exits when the save is no longer running.
AnswerWait ==
    /\ Answered("saving")
    /\ ~shut
    /\ mExitOnSaveStateChange' = TRUE
    /\ UNCHANGED <<operation, files, document, run, shown, handler, ended, excused>>

\* "Close Now", also when the handler has closed the box.
AnswerCloseNow ==
    /\ Answered("saving")
    /\ handler' = FALSE
    /\ Op!abort
    /\ mExitOnSaveStateChange' = TRUE
    /\ ended' = "closed"
    /\ UNCHANGED <<files, document, run, shown, excused>>

\* "Save"
AnswerSave ==
    /\ Answered("modified")
    /\ ~shut
    /\ Op!start
    /\ mExitOnSaveStateChange' = TRUE
    /\ UNCHANGED <<files, document, run, handler, ended, excused>>
    /\ shown' = State'

AnswerDiscard ==
    /\ Answered("modified")
    /\ ~shut
    /\ handler' = FALSE
    /\ ended' = "closed"
    /\ UNCHANGED <<operation, files, document, run, shown, mExitOnSaveStateChange, excused>>

\* "Cancel" in either box; in the second one also when the handler has closed it.
AnswerCancel ==
    /\ \/ Answered("saving") /\ ~shut /\ mExitOnSaveStateChange' = FALSE
       \/ Answered("modified") /\ UNCHANGED mExitOnSaveStateChange
    /\ handler' = FALSE
    /\ UNCHANGED <<operation, files, document, run, shown, ended, excused>>

GuiEvents == modificationStateChanged \/ operationDone2

User ==
    \/ Edit \/ Save \/ abortOperation \/ verify \/ startRunning \/ notifySaveOnClose
    \/ AnswerWait \/ AnswerCloseNow \/ AnswerSave \/ AnswerDiscard \/ AnswerCancel

\* The document is deleted with its QThread, or the application has gone: what the
\* operation still had to do is not done.
Terminated == ~Alive /\ UNCHANGED vars

Next == Work \/ AbortSlot \/ GuiEvents \/ User \/ toolsDone \/ stopRunning \/ Terminated

Spec == Init /\ [][Next]_vars

\* Both threads go on with what they have begun or been sent; the user owes nothing.
FairSpec == Spec /\ WF_vars(Work) /\ WF_vars(AbortSlot) /\ WF_vars(GuiEvents)

-----------------------------------------------------------------------------
Versions == 0 .. MaxEdits
File == [of : SUBSET Versions, closed : BOOLEAN] \cup {Absent}

\* The type invariant: also counts what must be bounded, the SaveWatchers that wait.
TypeOK ==
    /\ Op!TypeOK
    /\ {content, tmp} \subseteq File
    /\ {mProjectFile, replacing, cleanChanged, mDirty, verifying, shut, handler,
        mExitOnSaveStateChange} \subseteq BOOLEAN
    /\ {version, clean} \subseteq Versions
    /\ runner \in {"off", "delayed", "on"}
    /\ watchers \in 0 .. MaxWatchers
    /\ shown \in [{"saving", "running", "locked"} -> BOOLEAN]
    /\ dialog \in {"none", "saving", "modified"}
    /\ ended \in {"no", "closed", "exited"}
    /\ excused \subseteq {"editedDuring", "failedFinal"}

\* However a save ends, is aborted or cut off, what is on the disk under the name of
\* the document is all of a version: it goes away only while all of the new one
\* is beside it, and only that takes its place.
ReplacedByWhole ==
    [][content' # content =>
        /\ tmp # Absent /\ tmp.closed
        /\ content' \in {Absent, tmp}]_<<content>>

\* A document that is not shown as modified is on the disk as it is in the editor, though
\* the flags are cleared by two threads (setClean, mDirty), after saves that were
\* aborted, refused or overtaken by others.
CleanMeansSaved ==
    ~Modified /\ ~replacing /\ excused = {} => content = Whole(version)

\* When no save is at work there is no temporary file, also after errors and aborts.
TmpCleanedUp ==
    ~Op!Active /\ "failedFinal" \notin excused => tmp = Absent

\* A game that a SaveWatcher starts reads what is in the editor, whichever save it was
\* that the watcher has heard of.
RunsSavedContent ==
    [][watchers' < watchers /\ runner' = "on" /\ excused = {}
        => content = Whole(version)]_<<watchers>>

\* Refinement: however start, abort and done cross between the threads, an operation
\* that runs ends, its end is reported once, and before it can run again (Task).
ImplementsTask == Op!T!Spec

\* A run that waits for a save is started or given up.
DelayedRunDecided ==
    runner = "delayed" /\ Op!Active ~> runner # "delayed" \/ ~Alive

\* Who closes a modified document and answers "Save", or "Wait" during a save, finds the
\* changes in the file when the application has gone.
ExitMeansSaved ==
    ended = "exited" => ~Modified

=============================================================================
