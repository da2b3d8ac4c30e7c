SPECIFICATION Spec
CONSTANTS
    Agents = {a1}
    Tiles <- ThreeTiles
    Threads = {t1, t2}
    NoThread = NoThread
    NoJob = NoJob
    PostArguments <- WalkUpdate
    MaxTilesNumber = 1
    MaxTiles = 2
    MinUpdateInterval = 1
    WaitUntilMinDistanceToPlayer = 0
    InitialMesh <- LoadedWorld
    MayThrow = FALSE
    MayReset = FALSE
    MaxPosts = 3
    MaxRevision = 1
    MaxGeneration = 1
SYMMETRY ThreadSymmetry
INVARIANTS TypeOK NoLostUpdate FreshFirst PresentTilesExact
