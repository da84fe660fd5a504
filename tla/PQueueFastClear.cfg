SPECIFICATION Spec
CONSTANTS
    Elem = {a, b}
    MaxCells = 4
INVARIANTS
    FrontIsLeastRecent
