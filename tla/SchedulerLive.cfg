CONSTANTS
    Requests = {q1, q2, q3}
    Models = {m1, m2}
    Runners = {1, 2, 3}
    None = None
    MaxRunners = 1
    MaxQueue = 1
    RefCountMod = 4
    KeepAlives = {1, 2}
    DefaultKeepAlive = 1
    MaxExpireCalls = 1
    ShutdownAllowed = TRUE
    First = q1
    Late = q3
SPECIFICATION FairSpec
ACTION_CONSTRAINT BoundedStep
INVARIANTS
    AtMostMaxRunners
    NeverLoadedTwice
PROPERTIES
    QueuedIsAnswered
    WaitEnds
CHECK_DEADLOCK FALSE
