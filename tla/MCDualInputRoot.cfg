SPECIFICATION MCSpec
CONSTANTS
    Rows = 1
    Cols = 2
    N = 2
    Nbh <- MCNbh
    Value = {0, 1}
    MaxValue = 1
    Quants = {"low"}
INVARIANTS
    ReturnsRoot
