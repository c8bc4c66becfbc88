SPECIFICATION DiligentSpec
CONSTANTS
    a = a
    b = b
    Clients = {c1, c2}
    Paths = {p}
    VaultPaths = {p}
    Contents = {a, b}
    Absent = Absent
    NoHead = NoHead
    NoMerge = NoMerge
    NoEdit = NoEdit
    FirstTrees <- MCFirstTrees
    MaxSaves = 2
    MaxFaults = 1
    MaxHistory = 7
    SplitBatches = FALSE
    SavesHeld = TRUE
PROPERTIES
    Converges
    OperationEnds
    OnlyFreshEdits
