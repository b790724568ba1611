SPECIFICATION FairTempSpec
CONSTANTS
    a = a
    b = b
    c = c
    Locks <- MCLocks
    Inodes = {i1, i2, i3}
    None = None
    Mode <- AllExclusive
    Blocking <- Nobody
    Truncating <- MCLocks
    FailFast <- MCFailFast
    Faults <- AllFaults
INVARIANTS TempTypeOK ExclusionUnlessStray HolderOwnsPath FailedHoldsNothing
PROPERTIES TempImplementsRWLock TempAcquireEnds
