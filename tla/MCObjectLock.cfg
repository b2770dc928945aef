SPECIFICATION Spec
CONSTANTS
    t1 = t1
    t2 = t2
    o1 = o1
    Threads = {t1, t2}
    Objects = {o1}
    Entry = {"LockObject", "lock"}
    Exit = {"ReleaseObject", "unlock"}
    Timeouts = {"finite", "indefinite"}
    Relock = TRUE
    Wakes = TRUE
    MainThread = t1
    MaxDepth = 2
    NoThread = NoThread
    NoObject = NoObject
INVARIANTS
    LockInv
    WaitTimeWakes
PROPERTIES
    ExclusionKept
