SPECIFICATION MCSpec
CONSTANTS
    Rows = 3
    Cols = 3
    N = 9
    Nbh <- C4
    MaxValue = 2
    MaxLabel = 4
    Kinds = {"flooding", "blobs", "geodesic", "front", "topological"}
    Saturations = {0, 2, 10}
    Windows <- MCWindows
INVARIANTS
    FrontsTypeOK
    BasinsSeparate
    QueueHoldsFront
    BasinsAndLine
    BlobsAreObjects
    DistancesAreShortest
    ThinsImage
PROPERTIES
    Returns
CHECK_DEADLOCK FALSE
