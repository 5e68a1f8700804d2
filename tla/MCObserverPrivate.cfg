\* The service is private.
CONSTANTS
    s1 = s1
    s2 = s2
    s3 = s3
    p1 = p1
    p2 = p2
    Subscribers <- ThreeSubscribers
    Publishers <- TwoPublishers
    DeviceOf <- Devices
    Private = TRUE
SPECIFICATION Spec
CHECK_DEADLOCK FALSE
INVARIANTS
    PrivateStaysInside
