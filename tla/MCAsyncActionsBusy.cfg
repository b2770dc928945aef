SPECIFICATION FairSpec
CONSTANTS
    o1 = o1
    c1 = c1
    Objects = {o1}
    Callers = {c1}
    Main = Main
    MaxRequests = 2
    Submitters = {Main}
    Cancellers = {}
    WaitsIn = {"code"}
    Timeouts = FALSE
    Frees = FALSE
    Busy = TRUE
    Shutdowns = FALSE
    None = None
PROPERTIES
    WaitReturns
CHECK_DEADLOCK FALSE
