SPECIFICATION FairSpec
CONSTANTS
    Threads = {t1, t2}
    Functors = {f1, f2}
    IoChannels = {sock}
    WakeupChannel = wake
CHECK_DEADLOCK FALSE
INVARIANT NoLostWakeup
PROPERTIES
    ImplementsTaskQueue
    PassIsBounded
    QueuedFunctorRuns
    QuitLeavesLoop
