\* A rollback handler dies after its purge and the node returns to the old branch.
SPECIFICATION Spec
CONSTANTS
    o = o
    g = g
    a1 = a1
    a2 = a2
    b1 = b1
    none = none
    t1 = t1
    t2 = t2
    Block <- ForkBlocks
    Origin <- o
    Anchor <- g
    NoBlock <- none
    Tx = {t1, t2}
    Chain <- ForkChain
    Slot <- ForkSlot
    Txs <- ForkTxs
    Slotless = {}
    Undecodable = {}
    Headless = {}
    Salvaged <- NothingSalvaged
    Unparseable = {}
    NoInputs = {}
    RawBlocking = TRUE
    Cleanup = TRUE
    Clustering = FALSE
    EngineOn = FALSE
    DelayCoversBatch = TRUE
    MaxAttempts = 2
    Faults = {"postgres"}
    MaxMoves = 3
    MaxFaults = 1
INVARIANT CheckpointAlwaysComplete
CHECK_DEADLOCK FALSE
