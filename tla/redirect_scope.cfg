CONSTANTS
    p1 = p1
    p2 = p2
    host = host
    other = other
    None = None
    Urls <- Canonicals
    Origins <- MCOrigins
    Approved <- MCApproved
    MaxHops = 2
    InScope <- MCInScope
    Peers = {p1, p2}
    AllowedPeers <- MCAllowedPeers
SPECIFICATION Spec
INVARIANTS OnlyApproved PeerOfItsUrl Bounded NothingLost TrueStory Recordable
