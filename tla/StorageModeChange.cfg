SPECIFICATION FairSpec
CONSTANTS
    u1 = u1
    u2 = u2
    storage = storage
    None = None
    Users = {u1, u2}
    StorageThread = storage
    Drives <- AllDrives
    Switching = TRUE
    MaxEvents = 1
    Retries = 1
    MaxFailures = 0
PROPERTY PoweredUpWithPower
