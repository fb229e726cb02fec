\* SyncPolicy::Always on the single-node server, with power cuts that may
\* tear the frame being written.
CONSTANTS
    Keys <- MCKeys
    Vals <- MCVals
    NoValue = NoValue
    Policies <- MCAlways
    Modes = {"single"}
    CrashKinds = {"process", "power_torn"}
SPECIFICATION Spec
CONSTRAINT Bound
INVARIANT AckedDurable
