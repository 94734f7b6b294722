CONSTANTS
    i1 = i1
    i2 = i2
    i3 = i3
    local = local
    near = near
    far = far
    None = None
    Empty = ""
    Labels = {"test", "a", "b", "x", "y"}
    Segments = {"", "a", "b", "ab"}
    Hosts <- MCHosts
    Addresses <- MCAddresses
    Special = {local}
    Networks <- MCNetworks
    Schemes = {"http", "https"}
    Ports = {80, 443}
    Paths <- MCPaths
    Queries = {"q"}
    Ids = {i1, i2, i3}
    Entries <- MCEntries
    Stored <- MCStored
    Asked <- MCAsked
    MaxRules = 3
SPECIFICATION Spec
INVARIANTS DecisionsWellFormed PrecedenceIsAuthority DocumentedPrecedence PeersOnlyNarrow
PROPERTY AddingIsMonotone
SYMMETRY Symmetry
