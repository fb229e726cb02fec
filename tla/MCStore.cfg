\* The store in a release build: usize arithmetic wraps.
CONSTANTS
    Keys <- MCKeys
    Values <- MCValues
    TtlArgs <- MCTtlArgs
    UsizeMax <- MCUsizeMax
    OverflowChecks = FALSE
    NoValue = NoValue
    Panic = Panic
SPECIFICATION StoreSpec
CONSTRAINT CounterBound
INVARIANT TotalKeysCoversStore
PROPERTY ImplementsKV
