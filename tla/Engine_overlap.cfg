\* Two passes may overlap; two rows, one per batch.
SPECIFICATION Spec
CONSTANTS
    t1 = t1
    t2 = t2
    w1 = w1
    w2 = w2
    NoWorker = NoWorker
    Tx = {t1, t2}
    Worker = {w1, w2}
    Truncated = {t1}
    Lost = {t1}
    Batch = 1
    Overlap = 1
    Window = 0
    RawAttempts = 2
    DeferAttempts = 2
    DeferEnabled = TRUE
    MaxClock = 4
    MaxFaults = 2
INVARIANTS
    WatermarkSafe
    BudgetIsPaced
SYMMETRY Symmetric
