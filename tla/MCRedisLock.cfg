CONSTANTS
    Clients <- MCClients
    Writers <- MCWriters
    FailFast <- MCFailFast
    Faulty <- MCFaulty
SPECIFICATION RedisSpec
INVARIANTS RedisTypeOK OnlyUnseenConflict IdleUncounted
PROPERTIES RedisImplementsRWLock PendingKeepsReadersOut
CHECK_DEADLOCK FALSE
