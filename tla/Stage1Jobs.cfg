CONSTANTS
    t1 = t1
    t2 = t2
    w1 = w1
    w2 = w2
    None = None
    Threads <- MCThreads
    Workers <- MCWorkers
    MaxRunning = 1
    Lease = 1
    Backoff = 1
    Retries = 2
    MaxSource = 2
    MaxFaults = 1
SPECIFICATION LiveSpec
CHECK_DEADLOCK FALSE
INVARIANT RunningCapped
INVARIANT OutputIsLatest
PROPERTY EventuallyExtracted
