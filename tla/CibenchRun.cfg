SPECIFICATION BatchLiveSpec
CONSTANTS
    i1 = i1
    i2 = i2
    w1 = w1
    w2 = w2
    Instances <- MCTwo
    Workers <- MCThreads
    CommandLines <- MCCommandLines
    MemoryEnabled = FALSE
    Faults <- MCFaults
    MaxFaults = 1
    MaxLaunches = 2
    MaxQueries = 1
INVARIANT EntriesSurvive
INVARIANT ResultsAgree
INVARIANT CostExact
PROPERTY PredictedNotRerun
PROPERTY RunEnds
