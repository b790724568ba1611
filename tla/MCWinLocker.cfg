SPECIFICATION FairWinSpec
CONSTANTS
    a = a
    b = b
    c = c
    d = d
    Handles <- MCHandles
    LOCKER <- MCLOCKER
    Pywin32 <- MCPywin32
    Mode <- MCMode
    Blocking <- MCBlocking
    Length = 2
    Size = 6
    Positions <- MCPositions
    Faults <- AllFaults
INVARIANTS WinTypeOK UnlockFrees PositionKept
PROPERTIES WinImplementsRWLock WinLockEnds
