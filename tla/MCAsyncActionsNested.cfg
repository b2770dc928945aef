SPECIFICATION FairSpec
CONSTANTS
    o1 = o1
    o2 = o2
    c1 = c1
    Objects = {o1, o2}
    Callers = {c1}
    Main = Main
    MaxRequests = 2
    Submitters = {Main}
    Cancellers = {}
    WaitsIn = {"callback"}
    Timeouts = FALSE
    Frees = FALSE
    Busy = FALSE
    Shutdowns = FALSE
    None = None
PROPERTIES
    WaitReturns
CHECK_DEADLOCK FALSE
