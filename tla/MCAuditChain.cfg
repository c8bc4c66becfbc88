SPECIFICATION Spec
CONSTANTS
    Servers = {p1, p2}
    MaxEvents = 3
    Forwarded = {1, 2}
    SealBatch = 2
    SweepBatch = 2
    ForwardBatch = 2
    Leases = {l1, l2, l3}
    LeaseTime = 2
    SendTime = 1
    None = None
    MaxFaults = 1
    MaxRemovals = 1
INVARIANTS
    VerifyIsRight
    SentEventsStay
    OneSend
PROPERTIES
    AtLeastOnce
CHECK_DEADLOCK FALSE
