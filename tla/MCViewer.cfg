SPECIFICATION MCSpec
CONSTANTS
    page1 = page1
    page10 = page10
    Image = {page1, page10}
    Absent = Absent
    Broken = Broken
    NoFile = NoFile
    Container = Container
    Gui = Gui
    Longer <- LongerNames
    MaxClicks = 7
    MaxWork = 4
    Menus = {"view", "work"}
CHECK_DEADLOCK FALSE
INVARIANTS
    TypeOK
    RunServesRequest
    TemporaryFilesRemoved
    SceneFollowsOptions
    NoDanglingItem
    CursorRestored
PROPERTIES
    DialogCloses
