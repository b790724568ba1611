SPECIFICATION FairSemSpec
CONSTANTS
    a = a
    b = b
    c = c
    d = d
    Instances <- MCInstances
    Maximum = 2
    Free = Free
    Faults <- AllFaults
INVARIANTS SemTypeOK NoSlotLost
PROPERTIES ImplementsSlotPool SlotsAreLocks SemAcquireEnds
