SPECIFICATION Spec
CONSTANTS
    Processes = {p1, p2}
    Users = {u1, u2}
    SeatLimit = 1
    Lease = 2
    Stale = 1
    Quit = 1
    TakeWait = 1
    NoRow = NoRow
    NoLease = NoLease
    Never = Never
    MaxTime = 5
    MaxOpens = 2
    MaxRenews = 1
SYMMETRY Symmetry
INVARIANTS
    OneHost
    SeatsKept
CHECK_DEADLOCK FALSE
