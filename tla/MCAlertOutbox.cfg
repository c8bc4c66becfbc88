SPECIFICATION FairSpec
CONSTANTS
    Servers = {p1, p2}
    Rows = {r1, r2}
    MuteAfter = 1
    MaxAttempts = 2
    Lease = 2
    Backoff = 1
    PassTime = 1
    NoRow = NoRow
    MaxStreak = 2
    MaxFaults = 1
INVARIANTS
    OneSender
    StateIsTrue
    TriesBounded
    
PROPERTIES
    AlertSettles
