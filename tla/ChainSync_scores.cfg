\* Scores across rollbacks, and convergence once the node is still and failures have stopped.
SPECIFICATION FairSpec
CONSTANTS
    o = o
    g = g
    a1 = a1
    a2 = a2
    b1 = b1
    none = none
    t1 = t1
    t2 = t2
    Block <- ForkBlocks
    Origin <- o
    Anchor <- g
    NoBlock <- none
    Tx = {t1, t2}
    Chain <- ForkChain
    Slot <- ForkSlot
    Txs <- ForkTxs
    Slotless = {}
    Undecodable = {}
    Headless = {}
    Salvaged <- NothingSalvaged
    Unparseable = {}
    NoInputs = {t2}
    RawBlocking = FALSE
    Cleanup = TRUE
    Clustering = FALSE
    EngineOn = TRUE
    DelayCoversBatch = TRUE
    MaxAttempts = 1
    Faults = {"connection", "crash", "postgres", "purge", "enqueue", "repurge", "insert", "engine"}
    MaxMoves = 3
    MaxFaults = 1
INVARIANT StaleScoreCovered
PROPERTY EventuallySettled
CHECK_DEADLOCK FALSE
