CONSTANTS
    ChanCap = 2
    MaxOrdinal = 2
    Prefix = 1
    MaxItems = 3
    MaxFaults = 2
    MaxCrashes = 1
SPECIFICATION Spec
CHECK_DEADLOCK FALSE
INVARIANT OrdinalsDense
INVARIANT PrefixIntact
PROPERTY KeepsLog
