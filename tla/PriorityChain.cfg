SPECIFICATION Spec
CONSTANTS
    t1 = t1
    t2 = t2
    t3 = t3
    t4 = t4
    m1 = m1
    m2 = m2
    l1 = l1
    q1 = q1
    s1 = s1
    None = None
    Threads = {t1, t2, t3, t4}
    Mutexes = {m1, m2}
    Mrsws = {}
    Queues = {}
    Semaphores = {}
    LOWEST_PRIORITY = 3
    ByteBits = 2
    QueueOwner <- Served
    BasePriority <- Base4
    SetTo <- Never
    Rank <- Order
    MaxClaims = 2
    MaxCount <- One
INVARIANT OwnersInherit
