SPECIFICATION Spec
CONSTANTS
    p1 = p1
    p2 = p2
    p3 = p3
    Item = {i1, i2, i3, i4}
    Thread = {t1}
    NoItem = NoItem
    Cell = {c1, c2}
    Position = {p1, p2, p3}
    Same <- SamePositions
    Near <- NearPositions
    mMinCacheSize = 1
    mMaxCacheSize = 1
    mExpiryDelay = 2
    Worlds <- InsideAndOutside
INVARIANTS PreloadedIsWhole NoPartialView
PROPERTIES TerrainLoaded DeletedInBackground ImplementsWorkItems CallsReturn
