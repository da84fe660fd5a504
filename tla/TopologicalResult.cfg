SPECIFICATION MCSpec
CONSTANTS
    Rows = 3
    Cols = 3
    N = 9
    Nbh <- C4
    MaxValue = 2
    MaxLabel = 4
    Kinds = {"topological"}
    Saturations = {0, 2, 10}
    Windows <- MCWindows
INVARIANTS
    NoSiteAboveOneMinimum
CHECK_DEADLOCK FALSE
