CONSTANTS
    Jobs = {j1, j2}
    Cleanups = {s1, s2}
    None = None
SPECIFICATION FairSpec
INVARIANTS
    TypeOK
    StoppingIsOwned
PROPERTIES
    IsSerialExecutor
    DoReturns
    StopReturns
CHECK_DEADLOCK FALSE
