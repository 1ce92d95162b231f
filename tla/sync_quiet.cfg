\* Runs between stores that nothing else works on.
SPECIFICATION Spec
CONSTANTS
    key = key
    phone = phone
    home = home
    p1 = p1
    p2 = p2
    k1 = k1
    x = x
    y = y
    HEAD = HEAD
    Audit = Audit
    None = None
    Store = {key, phone}
    Syncer = {p1}
    Committer = {k1}
    Ref = {HEAD}
    Leaf = {x, y}
    QuietSource = TRUE
    CommitsAlone = TRUE
    QuietDest = TRUE
    Faults = {"link_lost", "crash"}
    MaxChain = 2
SYMMETRY Symmetric
INVARIANTS
    TypeOK
PROPERTIES
    SyncDelivers
    MeshSpec
