SPECIFICATION FairLockSpec
CONSTANTS
    p1 = p1
    p2 = p2
    p3 = p3
    w1 = w1
    w2 = w2
    w3 = w3
    w4 = w4
    NoPid = NoPid
    NoLock = NoLock
    Procs = {p1, p2}
    Workers = {w1, w2, w3, w4}
    ProcOf <- MCProcOfOne
    PidOf <- MCSamePid
    MaxAlive = 1
    MaxKills = 1
    MaxCount = 2
INVARIANTS LockTypeOK Serialized
PROPERTIES UpdatesSurvive AbandonedLockRemoved
CHECK_DEADLOCK FALSE
