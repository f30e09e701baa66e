SPECIFICATION Spec
CONSTANTS
    Threads = {t1}
    Owners = {"server"}
    MaxSends = 1
    MsgLen = 2
CHECK_DEADLOCK FALSE
INVARIANT NothingDropped
