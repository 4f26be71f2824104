\* The fair sweep.
SPECIFICATION FairSpec
CONSTANTS
    t1 = t1
    t2 = t2
    c1 = c1
    c2 = c2
    g1 = g1
    NoGroup = NoGroup
    Sweep = Sweep
    Tx = {t1, t2}
    Group = {g1}
    GroupOf <- Ungrouped
    MaxBand = 2
    Courier = {c1}
    MaxAttempts = 2
    PerTick = 1
    MaxRaises = 2
    MaxFaults = 1
PROPERTIES
    RetryEnds
CHECK_DEADLOCK FALSE
