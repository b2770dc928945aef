SPECIFICATION Spec
CONSTANTS
    t1 = t1
    t2 = t2
    o1 = o1
    Threads = {t1, t2}
    Objects = {o1}
    Entry = {"LockObject", "lock"}
    Exit = {"ReleaseObject", "unlock"}
    Timeouts = {"finite", "indefinite"}
    Relock = TRUE
    Wakes = TRUE
    MainThread = NoThread
    MaxDepth = 1
    NoThread = NoThread
    NoObject = NoObject
SYMMETRY Symmetric
INVARIANTS
    LockObjectWakes
CHECK_DEADLOCK FALSE
