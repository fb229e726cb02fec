CONSTANTS
    Scenarios <- GoodScenarios
    MaxChunk = 4
    Known <- MCKnown
    Arity <- MCArity
    Frontends = {"cluster", "single"}
SPECIFICATION RSpec
CHECK_DEADLOCK FALSE
INVARIANT RepliesInOrder
INVARIANT AnsweredOnce
 
