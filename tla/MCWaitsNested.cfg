SPECIFICATION FairSpec
CONSTANTS
    o1 = o1
    o2 = o2
    Objects = {o1}
    Nobody = Nobody
    Lists = {{o1}}
    FailedFrees = FALSE
    Unready = FALSE
    MaxMessages = 2
    MaxCalls = 4
PROPERTIES
    WaitEndsUndisturbed
CHECK_DEADLOCK FALSE
