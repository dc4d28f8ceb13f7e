SPECIFICATION Spec
CONSTANTS
    u = u  uPeer = uPeer  s = s  sHost = sHost  sPeer = sPeer  m1 = m1  m2 = m2  f = f
    None = None
    Users <- MCUsers
    StorageNodes <- MCStorageNodes
    Miners <- MCMiners
    FullNodes <- MCFullNodes
    Files <- MCFiles
    MaxAhead = 1
    MaxSkew = 1
    MaxTime = 4
    MaxDeletions = 1
    MaxBlocks = 2
INVARIANTS
    TypeOK
    PoolStaysValid
    BlocksAccepted
    HonestTransactionsAdmitted
    MerkleRootIdentifies
CHECK_DEADLOCK FALSE
