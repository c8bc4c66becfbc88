SPECIFICATION Spec
CONSTANTS
    a = a
    b = b
    Clients = {c1, c2}
    Paths = {p, q}
    VaultPaths = {p}
    Contents = {a, b}
    Absent = Absent
    NoHead = NoHead
    NoMerge = NoMerge
    NoEdit = NoEdit
    FirstTrees <- MCFirstTrees
    MaxSaves = 2
    MaxFaults = 1
    MaxHistory = 4
    SplitBatches = TRUE
    SavesHeld = TRUE
INVARIANTS
    BaseIsServerTree
    ContentKept
    EveryCommitKept
    DeletionKept
    PublishedOnce
