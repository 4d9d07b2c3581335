SPECIFICATION Spec
CONSTANTS
    Callers = {c1, c2}
    Readers = {r1}
    None = None
    Versions = {v1, v2}
    Retain = 2
    Deployments = {TRUE, FALSE}
    FaultPoints <- Published
    MaxGens = 3
    MaxFaults = 1
    MaxEdits <- EditWhenSerial
SYMMETRY Alike
INVARIANTS
    PointerReadable
    HeldFileStays
    ResolvesWithinCall
    PublishesOneSnapshot
    NoteAndIndexAgree
CHECK_DEADLOCK FALSE
