\* Two connections racing single-key requests on two shards (release build).
CONSTANTS
    k1 = k1
    k2 = k2
    Keys <- MCKeys
    Values <- MCValues
    TtlArgs = {0, 2}
    UsizeMax <- MCUsizeMax
    OverflowChecks = FALSE
    NoValue = NoValue
    Panic = Panic
    Members = {a}
    Fields = {f}
    MinI64 <- MCMinI64
    MaxI64 <- MCMaxI64
    NotANumber = NotANumber
    NonBulk = NonBulk
    SetArgs = {3}
    IntArgs = {1}
    RangeArgs = {0}
    MaxArgs = 2
    SendNonBulk = FALSE
    CommandSet = {}
    Clients <- MCClients
    NumShards = 2
    Route <- MCRoute
    Requests <- LinRequests
    Dropped = Dropped
    KeyName <- MCKeyName
    Patterns = {}
    StatsRounds = 0
SPECIFICATION Spec
CONSTRAINT CounterBound
PROPERTY Linearizable
