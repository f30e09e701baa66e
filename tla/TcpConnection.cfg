SPECIFICATION FairSpec
CONSTANTS
    Threads = {t1}
    Owners = {"server", "client"}
    MaxSends = 2
    MsgLen = 2
CHECK_DEADLOCK FALSE
INVARIANTS
    WritingWhileOutput
    FinAfterOutput
    ClosedOnce
PROPERTIES
    ImplementsMessageStream
    ShutdownCompletes
