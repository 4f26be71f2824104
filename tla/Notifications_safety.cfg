\* Two transactions of one group, two deliveries and the sweep.
SPECIFICATION Spec
CONSTANTS
    t1 = t1
    t2 = t2
    c1 = c1
    c2 = c2
    g1 = g1
    NoGroup = NoGroup
    Sweep = Sweep
    Tx = {t1, t2}
    Group = {g1}
    GroupOf <- Grouped
    MaxBand = 2
    Courier = {c1, c2}
    MaxAttempts = 2
    PerTick = 1
    MaxRaises = 3
    MaxFaults = 1
INVARIANTS
    AlertKept
    LedgersProveDelivery
CHECK_DEADLOCK FALSE
SYMMETRY Symmetric
