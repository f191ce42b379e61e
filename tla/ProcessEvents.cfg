CONSTANTS
    s1 = s1
    s2 = s2
    Streams <- MCStreams
    MaxOutputs = 2
    Retained = 1
    MaxPending = 1
    MaxLosses = 2
SPECIFICATION EventsLiveSpec
CHECK_DEADLOCK FALSE
INVARIANT FeedIsPrefix
INVARIANT GapIsReal
PROPERTY CloseDelivered
