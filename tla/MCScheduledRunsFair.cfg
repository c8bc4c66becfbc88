SPECIFICATION FairSpec
CONSTANTS
    a = a
    b = b
    a1 = a1
    a2 = a2
    b1 = b1
    Servers = {p1}
    TenantList <- TwoTenants
    Schedules = {a1, b1}
    TenantOf <- MCTenantOf
    Runs = {r1, r2, r3}
    Concurrency = 1
    RunSlots = 1
    NoRun = NoRun
    NoTenant = NoTenant
    Nobody = Nobody
    MaxNows = 1
    MaxEvents = 0
    MaxStarts = 0
INVARIANTS
    
    KickKept
PROPERTIES
    QueuedSettles
