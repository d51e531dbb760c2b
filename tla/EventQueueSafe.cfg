SPECIFICATION Spec
CONSTANTS
    owner = owner
    other = other
    s1 = s1
    s2 = s2
    a = a
    b = b
    Nil = Nil
    Threads = {owner, s1, s2}
    Receivers = {owner}
    Ids = {a}
    QueueLength = 2
    Wrap = 8
    Starts = {0, 6}
    ScrubDepth = 0
    MaxPosts = 4
SYMMETRY SenderSymmetry
INVARIANTS QueueInv SendersAccounted WaitListExact NoSleepOnMessage
PROPERTIES ImplementsRemoteCall NoForeignWakeup
CHECK_DEADLOCK FALSE
