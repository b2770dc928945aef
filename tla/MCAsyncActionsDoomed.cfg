SPECIFICATION Spec
CONSTANTS
    o1 = o1
    c1 = c1
    Objects = {o1}
    Callers = {c1}
    Main = Main
    MaxRequests = 2
    Submitters = {Main}
    Cancellers = {c1}
    WaitsIn = {}
    Timeouts = FALSE
    Frees = FALSE
    Busy = FALSE
    Shutdowns = FALSE
    None = None
INVARIANTS
    CancelDrains
CHECK_DEADLOCK FALSE
