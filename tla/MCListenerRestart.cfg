\* Reading an event fails, and another listener is registered.
CONSTANTS
    fd = fd
    Clients = {fd}
    QueueMax = 4
    MayFail = FALSE
    MaxEvents = 1
    MaxWakeups = 0
    Users = {u1}
    Listeners = {l1, l2}
    MaxThreads = 1
    MayTimeout = TRUE
    ReadFails = TRUE
    FreedKeeps = TRUE
    Quiet = TRUE
    Settled = TRUE
SPECIFICATION ESpec
CHECK_DEADLOCK FALSE
PROPERTIES
    RegisteredIsPolled
