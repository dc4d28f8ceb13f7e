SPECIFICATION Spec
CONSTANTS
    t = t
    Txs = {}
    MaxOwn = 2
    MaxForeign = 2
    Forks = TRUE
    Reorder = TRUE
    SlowNonce = FALSE
    Founded = TRUE
INVARIANTS
    OneOwnChildPerParent
    OwnBlocksExtendStore
\* Handler, cleaner and miner may wait on one another for ever: see Mining_signal.
CHECK_DEADLOCK FALSE
