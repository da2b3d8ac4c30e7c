SPECIFICATION FairSpec
CONSTANTS
    Agents = {a1}
    Tiles <- OneTile
    Threads = {t1, t2}
    NoThread = NoThread
    NoJob = NoJob
    PostArguments <- OneTileAdd
    MaxTilesNumber = 1
    MaxTiles = 2
    MinUpdateInterval = 1
    WaitUntilMinDistanceToPlayer = 1
    InitialMesh <- EmptyWorld
    MayThrow = FALSE
    MayReset = FALSE
    MaxPosts = 2
    MaxRevision = 2
    MaxGeneration = 1
PROPERTIES WaitReturns PostedIsSettled DestructorEnds WaitAllJobsDone
