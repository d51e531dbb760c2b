SPECIFICATION FairSpec
CONSTANTS
    owner = owner
    other = other
    s1 = s1
    s2 = s2
    a = a
    b = b
    Nil = Nil
    Threads = {owner, s1}
    Receivers = {owner}
    Ids = {a, b}
    QueueLength = 3
    Wrap = 6
    Starts = {4}
    ScrubDepth = 2
    MaxPosts = 3
INVARIANTS RingExact
PROPERTIES SendReturns TimedWaitReturns
CHECK_DEADLOCK FALSE
