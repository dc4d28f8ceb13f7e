SPECIFICATION FairSpec
CONSTANTS
    t = t
    Txs <- OneTx
    MaxOwn = 1
    MaxForeign = 2
    Forks = FALSE
    Reorder = FALSE
    SlowNonce = TRUE
    Founded = FALSE
PROPERTIES
    DeliveredBlocksStored
    MinerResumes
