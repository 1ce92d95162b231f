\* One process, every fault.
SPECIFICATION Spec
CONSTANTS
    b1 = b1
    b2 = b2
    g1 = g1
    g2 = g2
    app = app
    dir = dir
    file = file
    r = r
    w = w
    None = None
    GrantId = {g1, g2}
    Principal <- MCPrincipal
    Resource <- MCResource
    Right <- MCRight
    Under <- MCUnder
    Broker = {b1}
    Pollers = {b1}
    Offers <- MCOffers
    Asks <- MCAsks
    Policy <- DenyAll
    Faults = {"append_fails", "write_fails", "crash", "crash_in_write"}
    MaxTime = 1
    MaxLog = 3
    MaxMints = 2
INVARIANTS
    TypeOK
    HistorySound
PROPERTIES
    DecidedByTheLog
    FabricSpec
SYMMETRY Symmetric
CHECK_DEADLOCK FALSE
