SPECIFICATION Spec
CONSTANTS
    t1 = t1
    t2 = t2
    Callers = {t1, t2}
    Intervals = {2}
    Burst = 2
    Start = 4
    MaxTime = 5
    MaxGrants = 2
CHECK_DEADLOCK FALSE
INVARIANT HolderIsKnown
