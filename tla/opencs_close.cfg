SPECIFICATION Spec
CONSTANTS
    Absent = Absent
    MaxEdits = 1
    MaxAborts = 0
    MaxWatchers = 1
INVARIANTS ExitMeansSaved
