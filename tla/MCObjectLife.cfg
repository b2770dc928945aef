SPECIFICATION Spec
CONSTANTS
    t1 = t1
    t2 = t2
    t3 = t3
    Threads = {t1, t2, t3}
    Shared = FALSE
    Messages = FALSE
    Veto = TRUE
    Interrupts = TRUE
    MaxLocks = 2
    NoThread = NoThread
SYMMETRY Symmetric
INVARIANTS
    LifeInv
    InUseNotTerminated
CHECK_DEADLOCK FALSE
