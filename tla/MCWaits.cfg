SPECIFICATION FairSpec
CONSTANTS
    o1 = o1
    o2 = o2
    Objects = {o1, o2}
    Nobody = Nobody
    Lists <- MCLists
    FailedFrees = FALSE
    Unready = FALSE
    MaxMessages = 2
    MaxCalls = 2
INVARIANTS
    WaitsInv
    NoEarlyReturn
PROPERTIES
    WaitEnds
CHECK_DEADLOCK FALSE
