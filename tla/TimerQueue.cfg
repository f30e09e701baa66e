SPECIFICATION FairSpec
CONSTANTS
    once1 = once1
    once2 = once2
    every = every
    Timers = {once1, once2, every}
    Repeated = {every}
    Interval = 2
    Delays <- AllDelays
    Late = 1
INVARIANTS
    TimerInOnePlace
    NeverEarly
    OneShotRunsOnce
    ArmedForSomeTimer
PROPERTY ArmedTimerRuns
