\* Two processes on one store, every fault, one of which polls the log.
SPECIFICATION FairSpec
CONSTANTS
    b1 = b1
    b2 = b2
    g1 = g1
    g2 = g2
    app = app
    dir = dir
    file = file
    r = r
    w = w
    None = None
    GrantId = {g1}
    Principal <- MCPrincipal
    Resource <- MCResource
    Right <- MCRight
    Under <- MCUnder
    Broker = {b1, b2}
    Pollers = {b1}
    Offers <- OneOffer
    Asks <- OneAsk
    Policy <- DenyAll
    Faults = {"append_fails", "write_fails", "crash", "crash_in_write"}
    MaxTime = 0
    MaxLog = 3
    MaxMints = 2
INVARIANTS
    MemoryNoWeakerThanLog
    LogSound
    VerifyHolds
CHECK_DEADLOCK FALSE
PROPERTIES
    RevocationSeen
