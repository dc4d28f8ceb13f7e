SPECIFICATION FairSpec
CONSTANTS
    t = t
    Txs = {}
    MaxOwn = 1
    MaxForeign = 2
    Forks = TRUE
    Reorder = FALSE
    SlowNonce = FALSE
    Founded = TRUE
PROPERTIES
    SignalTaken
CHECK_DEADLOCK FALSE
