SPECIFICATION FairSpec
CONSTANTS
    buffer_len = 8
    StructSize = 1
    PathSize = 0
    HandleAlign = 1
    StorageAlign = 2
    Word = 64
    Sessions <- SmallSessions
    Chunk = 2
    Guard = 2
    Watermark = 3
    Wants = {2}
    Leftovers = {0}
    Cramped = FALSE
    Racing = FALSE
    Finishes = TRUE
    None = None
INVARIANTS TypeOK HandlesIntact CursorsAgree HeldDataStays
PROPERTY ReadReturns
CHECK_DEADLOCK FALSE
