SPECIFICATION Spec
CONSTANTS
    h1 = h1
    h2 = h2
    t0 = t0
    t1 = t1
    t2 = t2
    c1 = c1
    c2 = c2
    c3 = c3
    i1 = i1
    i2 = i2
    Heads <- MCHeads
    Null = Null
    Trees <- MCTrees
    TreeAt <- MCTreeAt
    Commits <- MCCommits
    Instances <- MCInstances
    MaxNumber = 3
    CloseWaitSuffices = TRUE
    NoTree = NoTree
    PartialTree = PartialTree
    NoHead = NoHead
    NoJournal = NoJournal
INVARIANTS
    TypeOK
    BaseMatchesHead
PROPERTIES
    
    SnapshotSpec
