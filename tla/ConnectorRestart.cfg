SPECIFICATION Spec
CONSTANTS
    Scripts <- ConnectAfterDisconnect
    InitDelay = 1
    MaxDelay = 3
CHECK_DEADLOCK FALSE
INVARIANT ClosedClientMayConnect
