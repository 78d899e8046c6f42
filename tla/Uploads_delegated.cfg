SPECIFICATION Spec
CONSTANTS
    u1 = u1
    u2 = u2
    Uploads = {u1, u2}
    Large = {u2}
    Size <- MCSize
    MaxSize = 1
    MaxPending = 1
    w1 = w1
    w2 = w2
    Workers = {w1, w2}
    NoWorker = NoWorker
    TTL = 2
    Lease = 1
    Timeout = 2
    Grace = 1
    MaxTime = 4
    DailyLimit = 1
    StorageLimit = 2
INVARIANTS CleanupIsSafe WithinLimits
CHECK_DEADLOCK FALSE
SYMMETRY Symmetry
