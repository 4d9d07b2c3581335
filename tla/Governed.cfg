SPECIFICATION Spec
CONSTANTS
    None = None
    t1 = t1
    t2 = t2
    d0 = d0
    d1 = d1
    e1 = e1
    lead = lead
    other = other
    Tasks = {t1, t2}
    Decisions = {d0, d1}
    Procs = {p1}
    Base <- ClosingBase
    BaseTasks <- MCBaseTasks
    BaseDecisions <- MCBaseDecisions
    Writes <- MCWrites
    Calls <- MCCalls
    MaxEvents = 3
    Ends = {"completed"}
    MaxRevision = 2
INVARIANTS
    
    
    OnlyTasklessFail
    OverridesTakeEffect
CHECK_DEADLOCK FALSE
