SPECIFICATION Spec
CONSTANTS
    f = f  g = g  u = u  v = v  n = n  m = m
    None = None
    Files <- MCFiles
    Owners <- WideOwners
    OwnerOf <- WideOwnerOf
    Nodes <- WideNodes
    Hears <- WideHears
    Size <- MCSize
    FileSizeLimit = 3
    Capacity <- WideCapacity
    BlockSize = 1
    Modulus = 64
    MaxTxs = 3
    MaxInBlock = 2
    MinedAgain = {}
    Faulty = {m}
    Crashes <- OneCrash
INVARIANTS
    TypeOK
    EntriesUnique
    ProvidersHoldFile
    RegistryFollowsChain
    KeptOnceListed
PROPERTIES
    OnlyBlocksOverfill
\* Nobody is obliged to send a file, to read a message or to mine.
CHECK_DEADLOCK FALSE
