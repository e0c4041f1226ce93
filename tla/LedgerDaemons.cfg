SPECIFICATION LockSpec
CONSTANTS
    p1 = p1
    p2 = p2
    p3 = p3
    w1 = w1
    w2 = w2
    w3 = w3
    w4 = w4
    NoPid = NoPid
    NoLock = NoLock
    Procs = {p1, p2}
    Workers = {w1, w2}
    ProcOf <- MCProcOfTwo
    PidOf <- MCOwnPid
    MaxAlive = 2
    MaxKills = 1
    MaxCount = 2
PROPERTY UpdatesSurvive
CHECK_DEADLOCK FALSE
