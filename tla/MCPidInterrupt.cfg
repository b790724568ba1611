SPECIFICATION InterruptedSpec
CONSTANTS
    a = a
    b = b
    c = c
    i1 = i1
    i2 = i2
    i3 = i3
    Locks <- MCLocks
    Inodes <- MCInodes
    None = None
    Mode <- AllExclusive
    Blocking <- Nobody
    FailFast <- MCFailFast
    Truncating <- Nobody
    Faults = {}
CHECK_DEADLOCK FALSE
INVARIANT HolderPublished
