CONSTANTS
    c1 = c1
    c2 = c2
    a = a
    b = b
    r1 = r1
    r2 = r2
    r3 = r3
    d1 = d1
    d2 = d2
    m1 = m1
    m2 = m2
    None = None
    Callers <- TwoCallers
    Admins <- OneAdmin
    Services <- TwoServices
    Slots <- OneSlot
    Dispatchers <- OneDispatcher
    Remotes <- TwoRemotes
    Messages <- TwoMessages
    Traffic <- Requests
    Priority <- LowB
    Levels = 2
    QueueSize = 1
    MaxRefs = 9
    MaxStarts = 1
    Overlap = FALSE
SPECIFICATION FairSpec
CHECK_DEADLOCK FALSE
INVARIANTS
    CountsUsers
    OneOwner
PROPERTIES
    Answered
    ShutdownFreesAll
