SPECIFICATION FairSpec
CONSTANTS
    once1 = once1
    once2 = once2
    every = every
    Timers = {once1, every}
    Repeated = {every}
    Interval = 2
    Delays <- FutureDelays
    Late = 1
PROPERTY EveryTimerRuns
