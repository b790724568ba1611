SPECIFICATION FairCountedSpec
CONSTANTS
    a = a
    b = b
    c = c
    Locks <- MCLocks
    Inodes = {i1, i2}
    None = None
    Mode <- MCMode
    Blocking <- MCBlocking
    Truncating <- MCTruncating
    FailFast <- MCFailFast
    Faults <- AllFaults
    Flushing <- MCFlushing
    Reentrant <- MCReentrant
    MaxDepth = 2
INVARIANTS CountedTypeOK Exclusion NothingLeaked CountAgrees
PROPERTIES ImplementsRWLock Undisturbed KeptWhileNested AcquireEnds
