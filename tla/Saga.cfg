SPECIFICATION FairSpec
CONSTANTS
    t1 = t1
    d1 = d1
    Sagas = {t1, d1}
    TaskSagas = {t1}
    None = None
    MaxProcs = 2
    MaxAttempts = 2
    MaxRequests = 2
    MaxStops = 1
INVARIANTS
    AttemptsHonoured
    OneOutcome
PROPERTIES
    EverySagaEnds
CHECK_DEADLOCK FALSE
