CONSTANTS
    Pulls = {u1, u2}
    Downloads = {1, 2}
    None = None
    BlobSize = 3
    PartSize = 2
    MaxRetries = 1
    MaxFaults = 0
    MaxCrashes = 1
SPECIFICATION Spec
SYMMETRY Symmetry
INVARIANTS
    ResumesCleanly
CHECK_DEADLOCK FALSE
