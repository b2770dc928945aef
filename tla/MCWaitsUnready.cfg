SPECIFICATION Spec
CONSTANTS
    o1 = o1
    o2 = o2
    Objects = {o1, o2}
    Nobody = Nobody
    Lists <- MCLists
    FailedFrees = FALSE
    Unready = TRUE
    MaxMessages = 2
    MaxCalls = 2
INVARIANTS
    NoEarlyReturn
CHECK_DEADLOCK FALSE
