\* The last listener leaves while events are on their way.
CONSTANTS
    fd = fd
    Clients = {fd}
    QueueMax = 4
    MayFail = FALSE
    MaxEvents = 3
    MaxWakeups = 0
    Users = {u1, u2}
    Listeners = {l1, l2}
    MaxThreads = 2
    MayTimeout = TRUE
    ReadFails = TRUE
    FreedKeeps = TRUE
    Quiet = FALSE
    Settled = TRUE
SPECIFICATION ESpec
CHECK_DEADLOCK FALSE
INVARIANTS
    DispatchedInOrder
    FreedOnce
