CONSTANTS
    r1 = r1
    r2 = r2
    Requests = {r1, r2}
    Close = Close
    Askable <- MCAskable
    MaxConnections = 2
SPECIFICATION WsSpec
CHECK_DEADLOCK FALSE
INVARIANTS
    ConnectionsSafe
    RefusedSessionServesNothing
PROPERTIES
    ServesAsPromised
    WsSettles
