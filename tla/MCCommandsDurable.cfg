\* Spec S5: the AOF the logged commands write rebuilds the store (release build).
CONSTANTS
    k1 = k1
    k2 = k2
    KeyName <- MCKeyName
    Patterns <- MCPatterns
    Keys = {k1, k2}
    Values <- MCValues
    TtlArgs = {0, 2}
    UsizeMax <- MCUsizeMax
    OverflowChecks = FALSE
    NoValue = NoValue
    Panic = Panic
    Members <- MCMembers
    Fields <- MCFields
    MinI64 <- MCMinI64
    MaxI64 <- MCMaxI64
    NotANumber = NotANumber
    NonBulk = NonBulk
    SetArgs = {3, NotANumber}
    IntArgs <- MCIntArgs
    RangeArgs <- MCRangeArgs
    MaxArgs = 2
    SendNonBulk = FALSE
    CommandSet = {"SET", "GET", "DEL", "EXISTS", "TTL", "INCR", "LPUSH", "RPUSH", "LRANGE", "LLEN", "SADD", "SMEMBERS", "SCARD", "HSET", "HGET", "HGETALL", "HDEL", "HKEYS", "HINCRBY", "INFO", "CLIENT", "KEYS"}
SPECIFICATION CSpec
CONSTRAINT StateBound
INVARIANT DurableMatchesStore
