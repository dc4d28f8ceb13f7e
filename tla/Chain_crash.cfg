SPECIFICATION Spec
CONSTANTS
    b1 = b1  b2 = b2  b3 = b3  f2 = f2
    p = p  q = q  self = self
    None = None
    Self = self
    Blocks <- WideBlocks
    Parent <- WideParent
    Height <- WideHeight
    Peers <- MCPeers
    PeerRegistries <- WidePeerRegistries
    AheadOfClock <- AllOnTime
    Mining = FALSE
    Crashes = TRUE
    Faults = FALSE
INVARIANTS
    ParentsStored
    IntegrityNeverLost
    RegisteredBlocksApplied
    RegisteredOnce
    GapsAreWithheld
PROPERTIES
    WithheldByCrash
