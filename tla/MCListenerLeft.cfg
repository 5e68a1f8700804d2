\* The last listener leaves while the thread is starting.
CONSTANTS
    fd = fd
    Clients = {fd}
    QueueMax = 4
    MayFail = FALSE
    MaxEvents = 1
    MaxWakeups = 0
    Users = {u1}
    Listeners = {l1}
    MaxThreads = 1
    MayTimeout = TRUE
    ReadFails = FALSE
    FreedKeeps = TRUE
    Quiet = TRUE
    Settled = FALSE
SPECIFICATION ESpec
CHECK_DEADLOCK FALSE
PROPERTIES
    NoThreadLeft
