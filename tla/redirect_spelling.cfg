CONSTANTS
    p1 = p1
    p2 = p2
    host = host
    other = other
    None = None
    Urls <- Spelled
    Origins <- MCOrigins
    Approved <- MCApproved
    MaxHops = 2
    InScope <- MCInScope
    Peers = {p1, p2}
    AllowedPeers <- MCAllowedPeers
SPECIFICATION Spec
INVARIANT Recordable
