CONSTANTS
    r1 = r1
    r2 = r2
    i1 = i1
    p1 = p1
    p2 = p2
    Recorders = {r1, r2}
    Instances = {i1}
    Processes = {p1, p2}
    InstanceOf <- MCInstanceOf
    ProcessOf <- MCProcessOf
    MaxCalls = 1
    MaxFaults = 1
    ReadsCanFail = FALSE
SPECIFICATION LiveSpec
CHECK_DEADLOCK FALSE
INVARIANT OneRunning
INVARIANT CallsAccounted
INVARIANT ReportNeverAhead
PROPERTY CompletedStable
PROPERTY ReportHeals
