\* Undecodable, boundary and headless blocks, the clustering purge, and every swallowed failure.
SPECIFICATION Spec
CONSTANTS
    o = o
    g = g
    a1 = a1
    a2 = a2
    b1 = b1
    none = none
    t1 = t1
    t2 = t2
    Block <- ForkBlocks
    Origin <- o
    Anchor <- g
    NoBlock <- none
    Tx = {t1, t2}
    Chain <- ForkChain
    Slot <- ForkSlot
    Txs <- OddTxs
    Slotless = {b1}
    Undecodable = {a1, a2}
    Headless = {a2}
    Salvaged <- OddSalvaged
    Unparseable = {}
    NoInputs = {}
    RawBlocking = FALSE
    Cleanup = TRUE
    Clustering = TRUE
    EngineOn = TRUE
    DelayCoversBatch = FALSE
    MaxAttempts = 2
    Faults = {"raw", "lifecycle", "mark", "clustering", "crash"}
    MaxMoves = 3
    MaxFaults = 1
INVARIANT CheckpointComplete
CHECK_DEADLOCK FALSE
