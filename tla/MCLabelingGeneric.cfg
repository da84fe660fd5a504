SPECIFICATION MCSpec
CONSTANTS
    Rows = 2
    Cols = 3
    N = 6
    Nbh <- C4
    Value = {1, 2, 3}
    Val = 1
    MaxLabel = 2
    Functors = {"value_and_compute"}
INVARIANTS
    EachLabelHasResult
