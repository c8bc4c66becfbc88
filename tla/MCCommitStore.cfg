SPECIFICATION FairSpec
CONSTANTS
    push1 = push1
    push2 = push2
    key = key
    s1 = s1
    s2 = s2
    Ops = {push1, push2, key}
    KeyRequests = {key}
    Processes = {s1, s2}
    Home <- MCHome
    NoCommit = NoCommit
    Nobody = Nobody
    Nowhere = Nowhere
    MaxFaults = 2
INVARIANTS
    AnswersHold
    NoMoveAfterLoss
    DrainWaits
PROPERTIES
    Settles
    PromisedSpec
