\* A revoke whose log call failed is tried again.
SPECIFICATION Spec
CONSTANTS
    b1 = b1
    b2 = b2
    g1 = g1
    g2 = g2
    app = app
    dir = dir
    file = file
    r = r
    w = w
    None = None
    GrantId = {g1, g2}
    Principal <- MCPrincipal
    Resource <- MCResource
    Right <- MCRight
    Under <- MCUnder
    Broker = {b1}
    Pollers = {b1}
    Offers <- OneOffer
    Asks <- OneAsk
    Policy <- DenyAll
    Faults = {"append_fails"}
    MaxTime = 0
    MaxLog = 3
    MaxMints = 2
PROPERTIES
    NoUseAfterRevokeOk
CHECK_DEADLOCK FALSE
