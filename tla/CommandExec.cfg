CONSTANTS
    s1 = s1
    s2 = s2
    x = x
    k1 = k1
    c1 = c1
    Requests = {s1, s2, x}
    Keys = {k1}
    Conns = {c1}
    Keyed = {s1, s2, x}
    KeyOf <- MCKeyOf
    SharedRead = {}
    Gated = {s1, s2, x}
    ConnOf <- MCConnOf
    MaxPanics = 0
    Starts = {s1, s2}
    CtlCap = 1
SPECIFICATION ExecSpec
CHECK_DEADLOCK FALSE
INVARIANT Reachable
PROPERTY HandlersReturn
PROPERTY DrainedCommandsEnd
