SPECIFICATION FairSpec
CONSTANTS
    NumThreads = 2
    MaxConns = 3
CHECK_DEADLOCK FALSE
INVARIANTS
    PolledIsAlive
    RoundRobin
    OnlyRacesLose
PROPERTIES
    AcceptedIsEstablished
    EndedIsReleased
