\* Every policy, both start-up paths, process crashes and power cuts that
\* keep whole frames.
CONSTANTS
    Keys <- MCKeys
    Vals <- MCVals
    NoValue = NoValue
    Policies <- MCAllPolicies
    Modes = {"single", "sharded"}
    CrashKinds = {"process", "power"}
SPECIFICATION Spec
CONSTRAINT Bound
INVARIANT AckedDurable
