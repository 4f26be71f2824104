\* The whole module with every failure except the ones the other runs isolate.
SPECIFICATION Spec
CONSTANTS
    o = o
    g = g
    a1 = a1
    a2 = a2
    b1 = b1
    none = none
    t1 = t1
    t2 = t2
    Block <- ForkBlocks
    Origin <- o
    Anchor <- g
    NoBlock <- none
    Tx = {t1, t2}
    Chain <- ForkChain
    Slot <- ForkSlot
    Txs <- ForkTxs
    Slotless = {}
    Undecodable = {}
    Headless = {}
    Salvaged <- NothingSalvaged
    Unparseable = {}
    NoInputs = {}
    RawBlocking = TRUE
    Cleanup = TRUE
    Clustering = FALSE
    EngineOn = FALSE
    DelayCoversBatch = TRUE
    MaxAttempts = 2
    Faults = {"connection", "crash", "raw", "insert", "postgres", "purge", "enqueue", "repurge"}
    MaxMoves = 2
    MaxFaults = 2
INVARIANTS CheckpointComplete NoOrphanRows RawBeforeRow
CHECK_DEADLOCK FALSE
