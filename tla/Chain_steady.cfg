SPECIFICATION FairSpec
CONSTANTS
    b1 = b1  b2 = b2  b3 = b3  f2 = f2
    p = p  q = q  self = self
    None = None
    Self = self
    Blocks <- WideBlocks
    Parent <- WideParent
    Height <- WideHeight
    Peers <- MCPeers
    PeerRegistries <- ShortPeerRegistries
    AheadOfClock <- TipAhead
    Mining = TRUE
    Crashes = FALSE
    Faults = FALSE
INVARIANTS
    TypeOK
    SingleWriter
    StoreRegistered
    RegistryParentsFirst
    LastBlockRegistered
    StoredBlocksValid
PROPERTIES
    SyncEnds
    PostSyncEnds
\* The node may wait for an announcement that never comes.
CHECK_DEADLOCK FALSE
