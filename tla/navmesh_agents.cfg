SPECIFICATION Spec
CONSTANTS
    Agents = {a1}
    Tiles <- OneTile
    Threads = {t1, t2}
    NoThread = NoThread
    NoJob = NoJob
    PostArguments <- OneTileAddUpdate
    MaxTilesNumber = 1
    MaxTiles = 2
    MinUpdateInterval = 1
    WaitUntilMinDistanceToPlayer = 1
    InitialMesh <- EmptyWorld
    MayThrow = TRUE
    MayReset = TRUE
    MaxPosts = 3
    MaxRevision = 1
    MaxGeneration = 2
SYMMETRY ThreadSymmetry
INVARIANTS PushedMatchesJobs OneThreadPerTile ThreadJobsDue
