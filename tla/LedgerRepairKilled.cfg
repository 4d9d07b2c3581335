SPECIFICATION Spec
CONSTANTS
    Procs = {p1, p2}
    Verifiers = {}
    None = None
    k1 = k1
    k2 = k2
    i1 = i1
    i2 = i2
    i9 = i9
    Keys = {k1, k2}
    NoKey = NoKey
    Ids = {i1, i2, i9}
    NoId = NoId
    DetId <- MCDetId
    Bodies = {1, 2}
    Cmds <- PlainCmds
    Batches <- NoBatches
    Kinds = {"append"}
    Torn = Torn
    NoTail = NoTail
    FaultPoints = {"wait", "recover", "check", "write", "rotate", "create", "read", "ret", "fail", "rewrite"}
    MaxCalls = 3
    MaxFaults = 2
INVARIANTS
    AckedDurable
CHECK_DEADLOCK FALSE
