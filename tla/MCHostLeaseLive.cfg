SPECIFICATION FairSpec
CONSTANTS
    Processes = {p1}
    Users = {u1, u2, u3}
    SeatLimit = 1
    Lease = 2
    Stale = 0
    Quit = 1
    TakeWait = 1
    NoRow = NoRow
    NoLease = NoLease
    Never = Never
    MaxTime = 0
    MaxOpens = 3
    MaxRenews = 0
PROPERTIES
    OpenSettles
CHECK_DEADLOCK FALSE
