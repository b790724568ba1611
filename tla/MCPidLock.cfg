SPECIFICATION BlockSpec
CONSTANTS
    a = a
    b = b
    c = c
    i1 = i1
    i2 = i2
    i3 = i3
    Locks <- MCLocks
    Inodes <- MCInodes
    None = None
    Mode <- AllExclusive
    Blocking <- Nobody
    FailFast <- MCFailFast
    Truncating <- Nobody
    Faults <- HarmlessFaults
    FailClosed <- MCFailClosed
    MaxBlocks = 1
SYMMETRY Alike
CHECK_DEADLOCK FALSE
INVARIANTS BlockTypeOK HolderPublished OutsideHoldsNothing FailClosedOwns
PROPERTY PidImplementsRWLock
