SPECIFICATION FairSpec
CONSTANTS
    o1 = o1
    o2 = o2
    None = None
    MaxTimers = 2
    Objects = {o1}
    Forms <- MCOwnForms
    Intervals = {1}
    Easings = {1}
    CycleValues = 2
    MaxTime = 2
    MaxNesting = 2
INVARIANTS
    TimersInv
    NotReentered
    SubscriberHeld
PROPERTIES
    OncePerCycle
    OrphansSwept
CHECK_DEADLOCK FALSE
