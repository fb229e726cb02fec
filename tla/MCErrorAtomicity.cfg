\* Spec §7: no command error mutates the store, malformed arguments included.
CONSTANTS
    k1 = k1
    k2 = k2
    KeyName <- MCKeyName
    Patterns <- MCPatterns
    Keys = {k1}
    Values <- MCValues
    TtlArgs = {0, 2}
    UsizeMax <- MCUsizeMax
    OverflowChecks = FALSE
    NoValue = NoValue
    Panic = Panic
    Members <- MCMembers
    Fields <- MCFields
    MinI64 <- MCMinI64
    MaxI64 <- MCMaxI64
    NotANumber = NotANumber
    NonBulk = NonBulk
    SetArgs = {3, NotANumber}
    IntArgs <- MCIntArgs
    RangeArgs <- MCRangeArgs
    MaxArgs = 2
    SendNonBulk = TRUE
    CommandSet = {"SET", "GET", "DEL", "EXISTS", "EXPIRE", "TTL", "INCR", "DECR", "INCRBY", "DECRBY", "LPUSH", "RPUSH", "LRANGE", "LLEN", "SADD", "SMEMBERS", "SCARD", "HSET", "HGET", "HGETALL", "HDEL", "HKEYS", "HINCRBY", "INFO", "FLUSHDB", "CLIENT", "KEYS"}
SPECIFICATION CSpec
CONSTRAINT StateBound
PROPERTY ErrorsLeaveStore
