SPECIFICATION FairSpec
CONSTANTS
    u1 = u1
    u2 = u2
    storage = storage
    None = None
    Users = {u1}
    StorageThread = storage
    Drives <- AllDrives
    Switching = FALSE
    MaxEvents = 1
    Retries = 1
    MaxFailures = 1
INVARIANT StorageInv
INVARIANT CommandsReachReadyDrive
INVARIANT AsleepClean
INVARIANT LockReleased
PROPERTY CallsReturn
PROPERTY SettlesAsleep
