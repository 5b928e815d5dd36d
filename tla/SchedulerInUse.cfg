CONSTANTS
    Requests = {q1, q2, q3}
    Models = {m1}
    Runners = {1, 2, 3}
    None = None
    MaxRunners = 1
    MaxQueue = 2
    RefCountMod = 4
    KeepAlives = {1}
    DefaultKeepAlive = 1
    MaxExpireCalls = 0
    ShutdownAllowed = FALSE
    First = q1
    Late = q3
SPECIFICATION Spec
PROPERTIES
    NeverUnloadInUse
CHECK_DEADLOCK FALSE
