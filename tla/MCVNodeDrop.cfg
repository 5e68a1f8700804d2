\* One client that stops and starts listening; memory does not run out.
CONSTANTS
    Clients = {c1}
    QueueMax = 2
    MayFail = FALSE
    MaxEvents = 4
    MaxWakeups = 0
SPECIFICATION Spec
CHECK_DEADLOCK FALSE
INVARIANTS
    DropsOnlyWhenFull
