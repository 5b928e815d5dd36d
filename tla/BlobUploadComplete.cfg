CONSTANTS
    p1 = p1
    p2 = p2
    r1 = r1
    r2 = r2
    None = None
    Pushes = {p1, p2}
    Repositories = {r1, r2}
    Repository <- MCRepository
    NumParts = 2
    MaxRetries = 2
SPECIFICATION Spec
INVARIANTS
    UploadIsComplete
CHECK_DEADLOCK FALSE
