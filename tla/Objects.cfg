SPECIFICATION ObjectsSpec
CONSTANTS
    c1 = c1
    c2 = c2
    c3 = c3
    c4 = c4
    Channels = {c1, c2, c3, c4}
    FdOf <- MCFdOf
    Byte = {"0", "a", "b"}
    Zero = "0"
    kCheapPrepend = 2
    kInitialSize = 3
    ExtraSize = 3
    Chunks <- MCChunks
    MaxBytes = 4
    t1 = t1
    t2 = t2
    Callers <- TwoCallers
    Intervals <- NoneOrTwo
    Burst = 2
    Start = 4
    MaxTime = 6
    MaxGrants = 2
SYMMETRY Symmetry
CHECK_DEADLOCK FALSE
INVARIANTS
    IndexConsistent
    BookkeepingSound
    MemoryBounded
    WaitIsBounded
    ReservationsAreSpaced
    OnlyLockersHold
PROPERTIES
    OthersUndisturbed
    ImplementsByteFifo
    PrependRoomKept
