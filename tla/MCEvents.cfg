SPECIFICATION FairSpec
CONSTANTS
    s1 = s1
    s2 = s2
    s3 = s3
    Subscriptions = {s1, s2, s3}
    Groups = {"gui", "io"}
    Names = {"open", "shut"}
    EventIDs <- MCEventIDs
    Filters <- MCFilters
    Wildcard = "*"
    None = None
    MaxMessages = 2
    MaxNesting = 1
INVARIANTS
    EventsInv
PROPERTIES
    FreeNoticed
    NoneLeftOut
    NoneCalledTwice
    DispatchesEnd
CHECK_DEADLOCK FALSE
