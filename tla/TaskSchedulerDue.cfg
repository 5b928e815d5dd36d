CONSTANTS
    Tasks = {t1, t2}
    Runs = {1, 2}
    Editors = {e1}
    None = None
    MaxPasses = 1
    MaxFaults = 1
    MaxRestarts = 1
SPECIFICATION FairSpec
INVARIANTS
    TypeOK
    StartedOnce
    RunningIsMarkedUnlessRaced
PROPERTIES
    DueTaskStarts
    StopReturns
CHECK_DEADLOCK FALSE
