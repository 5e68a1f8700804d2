\* Two clients of one device file; the driver sends four events.
CONSTANTS
    Clients = {c1, c2}
    QueueMax = 2
    MayFail = TRUE
    MaxEvents = 4
    MaxWakeups = 1
SPECIFICATION Spec
CHECK_DEADLOCK FALSE
INVARIANTS
    QueueBounded
    EventsInOrder
    NothingQueuedUnlessListening
