CONSTANTS
    Scenarios <- PoisonScenarios
    MaxChunk = 4
    Known <- MCKnown
    Arity <- MCArity
    Frontends = {"cluster", "single"}
SPECIFICATION RSpec
CHECK_DEADLOCK FALSE
INVARIANT AnsweredOnce
