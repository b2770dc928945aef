SPECIFICATION Spec
CONSTANTS
    t1 = t1
    t2 = t2
    o1 = o1
    o2 = o2
    Threads = {t1, t2}
    Objects = {o1, o2}
    Entry = {"LockObject"}
    Exit = {"ReleaseObject"}
    Timeouts = {"indefinite"}
    Relock = TRUE
    Wakes = FALSE
    MainThread = NoThread
    MaxDepth = 1
    NoThread = NoThread
    NoObject = NoObject
SYMMETRY Symmetric
INVARIANTS
    DeadlocksDetected
CHECK_DEADLOCK FALSE
