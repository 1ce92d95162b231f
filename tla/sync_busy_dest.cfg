\* A destination that is committed to and synced to meanwhile.
SPECIFICATION Spec
CONSTANTS
    key = key
    phone = phone
    home = home
    p1 = p1
    p2 = p2
    k1 = k1
    x = x
    y = y
    HEAD = HEAD
    Audit = Audit
    None = None
    Store = {key, phone}
    Syncer = {p1}
    Committer = {k1}
    Ref = {HEAD}
    Leaf = {x, y}
    QuietSource = TRUE
    CommitsAlone = FALSE
    QuietDest = FALSE
    Faults = {"link_lost", "crash", "crash_in_write"}
    MaxChain = 2
SYMMETRY Symmetric
INVARIANTS
    RefsClosed
    HeadConflictsAreReal
