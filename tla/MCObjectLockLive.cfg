SPECIFICATION ReleasingSpec
CONSTANTS
    t1 = t1
    t2 = t2
    t3 = t3
    o1 = o1
    Threads = {t1, t2, t3}
    Objects = {o1}
    Entry = {"LockObject"}
    Exit = {"ReleaseObject"}
    Timeouts = {"finite", "indefinite"}
    Relock = FALSE
    Wakes = FALSE
    MainThread = NoThread
    MaxDepth = 1
    NoThread = NoThread
    NoObject = NoObject
INVARIANTS
    WakeUpOnDuty
PROPERTIES
    CallsReturn
CHECK_DEADLOCK FALSE
