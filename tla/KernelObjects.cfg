SPECIFICATION Spec
CONSTANTS
    t1 = t1
    t2 = t2
    t3 = t3
    t4 = t4
    m1 = m1
    m2 = m2
    l1 = l1
    q1 = q1
    s1 = s1
    None = None
    Threads = {t1, t2, t3}
    Mutexes = {m1}
    Mrsws = {l1}
    Queues = {q1}
    Semaphores = {s1}
    LOWEST_PRIORITY = 3
    ByteBits = 2
    QueueOwner <- Served
    BasePriority <- Base3
    SetTo <- Boost
    Rank <- Order
    MaxClaims = 2
    MaxCount <- One
INVARIANT PriorityExact
INVARIANT RunQueueExact
INVARIANT BookkeepingExact
PROPERTY ImplementsFairLocks
PROPERTY ImplementsPermits
