SPECIFICATION Spec
CONSTANTS
    t1 = t1
    t2 = t2
    Threads = {t1, t2}
    Shared = TRUE
    Messages = FALSE
    Veto = FALSE
    Interrupts = FALSE
    MaxLocks = 1
    NoThread = NoThread
SYMMETRY Symmetric
INVARIANTS
    InUseNotTerminated
CHECK_DEADLOCK FALSE
