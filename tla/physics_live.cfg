SPECIFICATION FairSpec
CONSTANTS
    Workers = {w1, w2}
    NotWaiting = NotWaiting
    Actors = {a1}
    Objects = {o1}
    InitialScene = {a1}
    mLOSCacheExpiry <- CacheOff
    mDeferAabbUpdate = FALSE
    WriterPreferring = FALSE
    EarlyDestructor = FALSE
    MaxSteps = 1
    MaxFrames = 2
PROPERTIES CallsReturn FrameIsRun DestructorEnds
