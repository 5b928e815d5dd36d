CONSTANTS
    Tasks = {t1}
    Runs = {1, 2}
    Editors = {e1}
    None = None
    MaxPasses = 1
    MaxFaults = 0
    MaxRestarts = 0
SPECIFICATION Spec
INVARIANTS
    RunningIsMarked
CHECK_DEADLOCK FALSE
