\* Two application threads; the last listener leaves a settled thread and a quiet driver.
CONSTANTS
    fd = fd
    Clients = {fd}
    QueueMax = 4
    MayFail = FALSE
    MaxEvents = 2
    MaxWakeups = 0
    Users = {u1, u2}
    Listeners = {l1, l2}
    MaxThreads = 2
    MayTimeout = TRUE
    ReadFails = FALSE
    FreedKeeps = TRUE
    Quiet = TRUE
    Settled = TRUE
SPECIFICATION ESpec
CHECK_DEADLOCK FALSE
PROPERTIES
    EveryEventDispatched
    CallsReturn
    NoThreadLeft
