CONSTANTS
    Clients <- MCClients
    Writers <- OneWriter
    FailFast = {}
    Faulty = {}
SPECIFICATION RedisSpec
INVARIANT RedisExclusion
CHECK_DEADLOCK FALSE
