SPECIFICATION Spec
CONSTANTS
    Workers = {w1, w2}
    NotWaiting = NotWaiting
    Actors = {a1, a2}
    Objects = {o1}
    InitialScene = {}
    mLOSCacheExpiry = 0
    mDeferAabbUpdate = TRUE
    WriterPreferring = FALSE
    EarlyDestructor = FALSE
    MaxSteps = 2
    MaxFrames = 2
SYMMETRY Symmetry
INVARIANTS MovedOncePerStep FrameComplete AabbsUpdatedBeforeMoves LinesOfSightFresh JobsInFrame
PROPERTIES BarriersOpenForAll
