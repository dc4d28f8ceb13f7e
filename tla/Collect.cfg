SPECIFICATION FairSpec
CONSTANTS
    f = f  g = g  u = u  v = v  n = n  m = m
    None = None
    Files <- MCFiles
    Owners <- NarrowOwners
    OwnerOf <- NarrowOwnerOf
    Nodes <- NarrowNodes
    Hears <- NarrowHears
    Size <- MCSize
    FileSizeLimit = 3
    Capacity <- NarrowCapacity
    BlockSize = 1
    Modulus = 64
    MaxTxs = 6
    MaxInBlock = 1
    MinedAgain <- NarrowMinedAgain
    Faulty = {n}
    Crashes <- NoCrash
INVARIANTS
    KeptOnceListed
PROPERTIES
    DeletedIsCollected
\* Nobody is obliged to send a file, to read a message or to mine.
CHECK_DEADLOCK FALSE
