SPECIFICATION Spec
CONSTANTS
    t1 = t1
    t2 = t2
    Threads = {t1, t2}
    Shared = FALSE
    Messages = TRUE
    Veto = TRUE
    Interrupts = FALSE
    MaxLocks = 1
    NoThread = NoThread
SYMMETRY Symmetric
INVARIANTS
    LocksReturned
CHECK_DEADLOCK FALSE
