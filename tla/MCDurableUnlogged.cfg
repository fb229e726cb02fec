\* S5 with the mutations that write no AOF entry: INCRBY, DECR, DECRBY, FLUSHDB, and expiry.
CONSTANTS
    k1 = k1
    k2 = k2
    KeyName <- MCKeyName
    Patterns <- MCPatterns
    Keys = {k1}
    Values <- MCValues
    TtlArgs = {0, 2}
    UsizeMax <- MCUsizeMax
    OverflowChecks = FALSE
    NoValue = NoValue
    Panic = Panic
    Members <- MCMembers
    Fields <- MCFields
    MinI64 <- MCMinI64
    MaxI64 <- MCMaxI64
    NotANumber = NotANumber
    NonBulk = NonBulk
    SetArgs = {3, NotANumber}
    IntArgs <- MCIntArgs
    RangeArgs <- MCRangeArgs
    MaxArgs = 2
    SendNonBulk = FALSE
    CommandSet = {"SET", "GET", "DEL", "EXISTS", "TTL", "INCR", "LPUSH", "RPUSH", "LRANGE", "LLEN", "SADD", "SMEMBERS", "SCARD", "HSET", "HGET", "HGETALL", "HDEL", "HKEYS", "HINCRBY", "INFO", "CLIENT", "KEYS", "INCRBY", "DECR", "DECRBY", "FLUSHDB", "EXPIRE"}
SPECIFICATION CSpec
CONSTRAINT StateBound
INVARIANT DurableMatchesStore
