SPECIFICATION AtomicSpec
CONSTANTS
    a = a
    b = b
    c = c
    Writers <- MCWriters
    Renaming <- MCRenaming
    Unremovable <- MCUnremovable
    Others = {other}
    None = None
    Chunks = 1
    Faults <- AllFaults
INVARIANTS AtomicTypeOK PublishedWhole NoTempLeft
PROPERTY ImplementsWriteOnce
