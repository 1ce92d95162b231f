\* A crash while HEAD is written, then gc.
SPECIFICATION Spec
CONSTANTS
    shared = shared
    own = own
    t1 = t1
    t2 = t2
    w1 = w1
    w2 = w2
    c1 = c1
    c2 = c2
    None = None
    Blob = {shared, own}
    Tree = {t1, t2}
    Content <- MCContent
    Writer = {w1}
    Collector = {c1}
    GcAlone = TRUE
    Faults = {"crash_in_write"}
    MaxHistory = 2
    MaxLanded = 2
INVARIANTS
    CommitsKept
CHECK_DEADLOCK FALSE
