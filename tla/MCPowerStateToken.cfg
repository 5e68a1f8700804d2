\* Three threads race through the token; each releases what it acquired.
CONSTANTS
    Threads = {t1, t2, t3}
    Balanced = TRUE
SPECIFICATION Spec
INVARIANTS
    CountIsOwners
    NotLeftActive
    HeldIsActive
PROPERTIES
    NoSuspendWhileHeld
