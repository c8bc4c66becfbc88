SPECIFICATION Spec
CONSTANTS
    a = a
    b = b
    a1 = a1
    a2 = a2
    b1 = b1
    Servers = {p1, p2}
    TenantList <- OneTenant
    Schedules = {a1, a2}
    TenantOf <- MCTenantOf
    Runs = {r1, r2}
    Concurrency = 1
    RunSlots = 1
    NoRun = NoRun
    NoTenant = NoTenant
    Nobody = Nobody
    MaxNows = 0
    MaxEvents = 2
    MaxStarts = 1
SYMMETRY Symmetry
INVARIANTS
    SlotsKept
    StopLeavesNothing
PROPERTIES
    OutcomeStands
CHECK_DEADLOCK FALSE
