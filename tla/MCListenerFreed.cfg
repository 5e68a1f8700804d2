\* Freed memory does not keep its contents.
CONSTANTS
    fd = fd
    Clients = {fd}
    QueueMax = 4
    MayFail = FALSE
    MaxEvents = 0
    MaxWakeups = 0
    Users = {u1}
    Listeners = {l1}
    MaxThreads = 1
    MayTimeout = TRUE
    ReadFails = FALSE
    FreedKeeps = FALSE
    Quiet = TRUE
    Settled = TRUE
SPECIFICATION ESpec
CHECK_DEADLOCK FALSE
INVARIANTS
    FreedOnce
