SPECIFICATION Spec
CONSTANTS
    c1 = c1
    c2 = c2
    s1 = s1
    s2 = s2
    Calls = {c1, c2}
    Streams = {s1, s2}
    Blocks = {b1, b2, b3, b4}
    Sizes <- MCSizes
    Rows = 5
    RouteEntries = 2
    Workloads <- MCWorkloads
    Free = Free
    Nobody = Nobody
    Garbage = Garbage
    Stale = Stale
INVARIANTS
    TypeOK
    NothingStale
    FormsMatch
    ReturnedIsComplete
PROPERTY
    CallsDeliver
\* A call that has returned or raised makes no further step.
CHECK_DEADLOCK FALSE
