\* The last listener leaves while an event is dispatched.
CONSTANTS
    fd = fd
    Clients = {fd}
    QueueMax = 4
    MayFail = FALSE
    MaxEvents = 1
    MaxWakeups = 0
    Users = {u1}
    Listeners = {l1}
    MaxThreads = 1
    MayTimeout = TRUE
    ReadFails = FALSE
    FreedKeeps = TRUE
    Quiet = FALSE
    Settled = TRUE
SPECIFICATION ESpec
CHECK_DEADLOCK FALSE
PROPERTIES
    CallsReturn
