CONSTANTS
    r1 = r1
    r2 = r2
    r3 = r3
    r4 = r4
    k1 = k1
    c1 = c1
    c2 = c2
    Requests = {r1, r2, r3, r4}
    Keys = {k1}
    Conns = {c1, c2}
    Keyed = {r1, r2, r3}
    KeyOf <- MCKeyOf
    SharedRead = {r1, r2}
    Gated = {r1, r2, r4}
    ConnOf <- MCConnOf
    MaxPanics = 1
SPECIFICATION LiveSpec
CHECK_DEADLOCK FALSE
PROPERTY GrantedInOrder
PROPERTY QuietAfterDrain
PROPERTY Served
