SPECIFICATION MCSpec
CONSTANTS
    Rows = 1
    Cols = 2
    N = 2
    Nbh <- MCNbh
    Value = {1, 2, 3}
    MaxValue = 3
    Quants = {"low"}
INVARIANTS
    ReturnsOrder
