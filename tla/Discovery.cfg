SPECIFICATION FairSpec
CONSTANTS
    b = b  c = c  n = n  o = o  p = p
    Bootstraps <- MCBootstraps
    Peers <- MCPeers
    Public <- MCPublic
    MaxFailures = 2
    MaxLosses = 2
INVARIANTS
    TypeOK
PROPERTIES
    PeersConnect
\* Nodes that are all connected have nothing to do.
CHECK_DEADLOCK FALSE
