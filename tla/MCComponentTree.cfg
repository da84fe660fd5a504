SPECIFICATION MCSpec
CONSTANTS
    Rows = 2
    Cols = 3
    N = 6
    Value = {1, 2, 3}
    Nbh <- Grid4
    NewValues = {9}
INVARIANTS
    TypeOK
    LinksFollowS
    UnionFindComponents
    LevelComponents
    ParentIsNode
    NodesAreComponents
    FilteredAsDefined
    AttributesAreComponents
PROPERTIES
    ParentBoundOnce
