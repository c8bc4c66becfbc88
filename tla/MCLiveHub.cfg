SPECIFICATION Spec
CONSTANTS
    h1 = h1
    h2 = h2
    u1 = u1
    u2 = u2
    s1 = s1
    s2 = s2
    Hubs = {h1, h2}
    Users = {u1, u2}
    Sockets = {s1, s2}
    UserOf <- MCUserOf
    HubOf <- MCHubOf
    QueueLimit = 2
    InboxLimit = 2
    None = None
    MaxMoves = 2
    MaxFaults = 1
    MaxResyncs = 1
SYMMETRY Swap
INVARIANTS
    PresenceAgrees
    RolesAgree
CHECK_DEADLOCK FALSE
