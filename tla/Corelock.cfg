SPECIFICATION FairSpec
CONSTANT CoreId <- AsmIds
INVARIANTS CorelockInv
PROPERTIES LockEventuallyHeld ImplementsExclusiveLock
