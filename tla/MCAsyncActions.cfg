SPECIFICATION Spec
CONSTANTS
    o1 = o1
    c1 = c1
    Objects = {o1}
    Callers = {c1}
    Main = Main
    MaxRequests = 3
    Submitters = {Main, c1}
    Cancellers = {c1}
    WaitsIn = {}
    Timeouts = FALSE
    Frees = TRUE
    Busy = TRUE
    Shutdowns = TRUE
    None = None
INVARIANTS
    AsyncInv
    Serialised
    ActiveIsServed
    FirstInFirstOut
    CallbackAccounted
CHECK_DEADLOCK FALSE
