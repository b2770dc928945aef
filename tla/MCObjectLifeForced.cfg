SPECIFICATION Spec
CONSTANTS
    t1 = t1
    t2 = t2
    t3 = t3
    Threads = {t1, t2, t3}
    Shared = TRUE
    Messages = TRUE
    Veto = FALSE
    Interrupts = FALSE
    MaxLocks = 1
    NoThread = NoThread
SYMMETRY Symmetric
INVARIANTS
    PinsCounted
    HeaderOutlivesUsers
    ZombieReleased
CHECK_DEADLOCK FALSE
