SPECIFICATION Spec
CONSTANTS
    \* Auth
    User = {u1, u2}
    Request = {q1, q2}
    NoOne = NoOne
    FirstAdmin = {u1, u2}
    FirstLinked = u1
    Redemptions = 2
    MaxLinks = 2
    MaxLogins = 3
    MaxCalls = 3
    \* RateLimiter
    Key = {k1, k2}
    MaxRequests = 2
    WindowSeconds = 2
    TicksPerSecond = 2
    \* CycleSearch
    Pool <- MCPool
    MissingIndex <- MCMissing
    Origin = 1
    MaxHops = 3
    MaxFanout = 2
    MaxOutputFanout = 2
    RowLimit = 4
    MaxAge = 5
    MinCycle = 3
    MaxCycle = 4
    SubsetMax = 4
    MaxArrivals = 1
    \* HistoryWalk
    Height <- MCHeight
    SlotOf <- MCSlotOf
    HostStart = 6
    SafetySlots = 3
    SafetyBlocks = 2
    PageSize = 2
    FirstCap = 3
    RaisedCap = 4
    FitWindow = 4
    MinHost = 3
    Unserved = {1}
    \* InputFlow
    Catalogue <- MCCatalogue
    GenesisOuts <- MCGenesisOuts
    GenesisStored = {0, 1}
    MaxBlock = 3
    \* Publish
    LastTx = 3
    Local = {2}
    FirstHost = {1}
    FirstBenign = {}
    WindowSize = 2
    MaxClock = 1
    MaxFits = 1
    MaxClassifies = 1
    MaxLabels = 1
    MaxPublishFaults = 1
    \* Baselines
    Script = {"s1"}
    Readings <- MCReadings
    DriftPct = 50
    Ttl = 1
    RetryAfterTicks = 1
    RecomputeTicks = 2
    MaxTicks = 2
    MaxBaselineFaults = 1
    \* Reports
    Alert = {a1}
    Anomalous = {n1}
    Interval = 2
    WindowDays = 2
    InsertDelay = 1
    MaxReportTime = 4
    MaxReportFaults = 1
    \* DetectionConfig
    Shipped <- MCShipped
    EditValues = {30, 31, 59, 60, 79, 80, 100}
    MaxEdits = 2
    \* Verdict
    MinSamples = 200
    MinSpread = 10
    CapMultiplier = 5
    SpreadFraction = 25
    FrontRunningCfg <- MCFrontRunning
    SandwichCfg <- MCSandwich
    CircularCfg <- MCCircular
    LargeValueCfg <- MCLargeValue
    TokenDustCfg <- MCTokenDust
    LargeDatumCfg <- MCLargeDatum
    MultipleSatCfg <- MCMultipleSat
    PhishingCfg <- MCPhishing
    FakeTokenCfg <- MCFakeToken
    Transactions <- MCTransactions
    Enabled <- Classes
INVARIANTS
    AuthSound
    LimiterFair
    CycleResultRight
    HistoryExact
    ValueFlowTrue
    ProjectionRight
    LookupFresh
    ReportsRight
    LoadedConfigSound
    ScoresMonotone
    AttacksSurface
PROPERTIES
    DriftBounded
CHECK_DEADLOCK FALSE
