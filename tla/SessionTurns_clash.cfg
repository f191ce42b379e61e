SPECIFICATION Spec
CHECK_DEADLOCK FALSE
CONSTANTS
    u1 = u1
    c1 = c1
    x1 = x1
    m1 = m1
    s1 = s1
    j1 = j1
    Users = {u1}
    Compacts = {c1}
    Interrupts = {x1}
    Mails = {m1}
    Trigger = {m1}
    Steers = {s1}
    Injects = {j1}
    MaxOps = 3
    MaxTwists = 0
    MaxTurns = 5
    MaxObjs = 4
    Loop = Loop
    Guardian = Guardian
PROPERTY InstallsIntoFreeSlot
