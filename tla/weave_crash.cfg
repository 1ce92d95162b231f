\* One process that may crash between steps.
SPECIFICATION Spec
CONSTANTS
    b1 = b1
    b2 = b2
    g1 = g1
    g2 = g2
    app = app
    dir = dir
    file = file
    r = r
    w = w
    None = None
    GrantId = {g1, g2}
    Principal <- MCPrincipal
    Resource <- MCResource
    Right <- MCRight
    Under <- MCUnder
    Broker = {b1}
    Pollers = {b1}
    Offers <- OneOffer
    Asks <- MCAsks
    Policy <- RulesPolicy
    Faults = {"crash"}
    MaxTime = 1
    MaxLog = 4
    MaxMints = 3
INVARIANTS
    AuditComplete
PROPERTIES
    NoUseAfterRevokeOk
CHECK_DEADLOCK FALSE
