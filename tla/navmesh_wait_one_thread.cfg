SPECIFICATION Spec
CONSTANTS
    Agents = {a1}
    Tiles <- OneTile
    Threads = {t1}
    NoThread = NoThread
    NoJob = NoJob
    PostArguments <- OneTileAdd
    MaxTilesNumber = 1
    MaxTiles = 2
    MinUpdateInterval = 1
    WaitUntilMinDistanceToPlayer = 1
    InitialMesh <- EmptyWorld
    MayThrow = FALSE
    MayReset = FALSE
    MaxPosts = 1
    MaxRevision = 1
    MaxGeneration = 1
PROPERTIES WaitAllJobsDone
