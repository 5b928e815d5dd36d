CONSTANTS
    Requests = {q1, q2, q3}
    Models = {m1, m2}
    Runners = {1, 2, 3}
    None = None
    MaxRunners = 2
    MaxQueue = 1
    RefCountMod = 4
    KeepAlives = {0, 3}
    DefaultKeepAlive = 1
    MaxExpireCalls = 0
    ShutdownAllowed = FALSE
    First = q1
    Late = q3
SPECIFICATION Spec
SYMMETRY Symmetry
INVARIANTS
    TypeOK
    NoPanic
    NoLeakedServer
    RefCountExact
    IdleRunnersExpire
    NoLostUnload
PROPERTIES
    UnloadOnlyIdle
    IsModelService
CHECK_DEADLOCK FALSE
