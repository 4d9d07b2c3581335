SPECIFICATION Spec
CONSTANTS
    Callers = {c1, c2}
    Readers = {}
    None = None
    Versions = {v1, v2}
    Retain = 2
    Deployments = {TRUE, FALSE}
    FaultPoints <- InRetention
    MaxGens = 3
    MaxFaults = 1
    MaxEdits <- EditWhenSerial
SYMMETRY Alike
INVARIANT
    PointerReadable
CHECK_DEADLOCK FALSE
