SPECIFICATION FairSpec
CONSTANTS
    Scripts <- ConnectOnce
    InitDelay = 1
    MaxDelay = 3
CHECK_DEADLOCK FALSE
INVARIANTS
    OneAttempt
    SocketOwned
    AssertsHold
    DestroyIsSafe
PROPERTIES
    
    ConnectionComesUp
    AbandonedAttemptEnds
