\* Two snapshots at a time, gc when neither is on; two commands on the keys.
SPECIFICATION StoreSpec
CONSTANTS
    shared = shared
    own = own
    t1 = t1
    t2 = t2
    w1 = w1
    w2 = w2
    c1 = c1
    c2 = c2
    None = None
    Blob = {shared}
    Tree = {t1, t2}
    Content <- OneBlob
    Writer = {w1, w2}
    Collector = {c1}
    GcAlone = TRUE
    Faults = {"put_fails", "write_fails", "crash", "crash_in_write"}
    MaxHistory = 2
    MaxLanded = 3
    master = master
    mistyped = mistyped
    d1 = d1
    k1 = k1
    k2 = k2
    Key = {master, mistyped}
    Device = {d1}
    Command = {k1, k2}
    Threshold = 2
    ShareCount = 2
    MaxSlots = 2
    MaxSplits = 1
    MaxGenerations = 2
    Nothing = Nothing
    Torn = Torn
    KeyFaults = {"torn_save", "torn_head"}
SYMMETRY AlikeBoth
INVARIANTS
    TypeOK
    ObjectsWhole
    HeadComplete
    KeyslotsKept
CHECK_DEADLOCK FALSE
