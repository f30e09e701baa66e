SPECIFICATION Spec
CONSTANTS
    t1 = t1
    t2 = t2
    Callers = {t1}
    Intervals = {2}
    Burst = 2
    Start = 4
    MaxTime = 8
    MaxGrants = 5
CHECK_DEADLOCK FALSE
INVARIANT LimitIsKept
