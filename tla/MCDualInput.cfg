SPECIFICATION MCSpec
CONSTANTS
    Rows = 2
    Cols = 2
    N = 4
    Nbh <- MCNbh
    Value = {1, 2, 3}
    MaxValue = 3
    Quants = {"low", "any"}
INVARIANTS
    DispatchTypeOK
    DispatchFollowsLevels
    DispatchReturnsMaskTree
