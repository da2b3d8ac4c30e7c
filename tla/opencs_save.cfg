SPECIFICATION FairSpec
CONSTANTS
    Absent = Absent
    MaxEdits = 1
    MaxAborts = 1
    MaxWatchers = 1
INVARIANTS CleanMeansSaved TmpCleanedUp
PROPERTIES ReplacedByWhole RunsSavedContent ImplementsTask DelayedRunDecided
