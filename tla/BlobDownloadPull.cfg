CONSTANTS
    Pulls = {u1, u2}
    Downloads = {1, 2}
    None = None
    BlobSize = 3
    PartSize = 2
    MaxRetries = 1
    MaxFaults = 1
    MaxCrashes = 1
SPECIFICATION FairSpec
INVARIANTS
    TypeOK
    OneDownload
    SavedIsOnDisk
    IntactUnlessTorn
PROPERTIES
    NeverCancelInUse
    PullReturns
CHECK_DEADLOCK FALSE
