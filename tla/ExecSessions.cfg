CONSTANTS
    w1 = w1
    w2 = w2
    Writes <- MCWrites
    MaxStarts = 2
    MaxDrops = 2
SPECIFICATION LiveSpec
CHECK_DEADLOCK FALSE
INVARIANT WrittenOnce
INVARIANT AttachedIsLive
PROPERTY NoOrphans
PROPERTY StartingResolves
