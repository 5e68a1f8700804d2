\* Two threads that may release more than they acquired.
CONSTANTS
    Threads = {t1, t2}
    Balanced = FALSE
SPECIFICATION Spec
INVARIANTS
    CountNotNegative
