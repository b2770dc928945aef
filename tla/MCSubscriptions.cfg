SPECIFICATION Spec
CONSTANTS
    t1 = t1
    t2 = t2
    o1 = o1
    o2 = o2
    c1 = c1
    c2 = c2
    Threads = {t1, t2}
    Objects = {o1, o2}
    Actions = {"Move", "Free"}
    Free = "Free"
    Nil = "Nil"
    Scopes = {"Move"}
    Contexts = {c1, c2}
    Kinds = {"Action", "free"}
    ContextsEnd = TRUE
    Roams = TRUE
    MaxRecords = 2
    MaxDelayed = 1
    MaxCalls = 2
SYMMETRY MCSymmetry
CHECK_DEADLOCK FALSE
INVARIANTS
    SubscriptionsInv
    PassUndisturbed
    UnsubscribedHasNoRecord
