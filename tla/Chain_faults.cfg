SPECIFICATION Spec
CONSTANTS
    b1 = b1  b2 = b2  b3 = b3  f2 = f2
    p = p  q = q  self = self
    None = None
    Self = self
    Blocks <- NarrowBlocks
    Parent <- NarrowParent
    Height <- NarrowHeight
    Peers <- MCPeers
    PeerRegistries <- NarrowPeerRegistries
    AheadOfClock <- AllOnTime
    Mining = FALSE
    Crashes = TRUE
    Faults = TRUE
PROPERTIES
    ImplementsLedger
