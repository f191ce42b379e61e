CONSTANTS
    t1 = t1
    w1 = w1
    w2 = w2
    None = None
    Threads <- MCThreads
    Workers <- MCWorkers
    Lease = 2
    Backoff = 1
    Cooldown = 1
    MaxSource = 2
    MaxFaults = 1
SPECIFICATION LiveSpec
CHECK_DEADLOCK FALSE
INVARIANT BaselineConsolidated
INVARIANT SelectedConsolidated
PROPERTY Forgets
