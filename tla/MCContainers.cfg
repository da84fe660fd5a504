SPECIFICATION MCSpec
CONSTANTS
    Kind = {"queue", "priority", "set", "pointer", "heap"}
    Elem = {a, b}
    MaxCells = 6
    Obj = {o1, o2}
    Prio = {1, 2}
    MaxLog = 3
    PrioCells = 3
    SetElem = {1, 2, 3, 4}
    Pointer = {p1, p2, p3, p4}
    Datum = {d1, d2, d3, d4, d5}
    HolderSet = {s1, s2, s3, s4}
    Null = Null
    Heap = {h1, h2}
    MaxNodes = 5
    Key = {1, 2}
SYMMETRY HeapSymmetry
INVARIANTS
    ContainersTypeOK
    InRange
    FifoUntilCleared
    FrontIsServed
    PriorityHoldsLog
    SetHoldsElements
    HeapHoldsBag
    DataLiveWhileHeld
