SPECIFICATION Spec
CONSTANTS
    \* Reconnect
    Base = 1
    MaxDelay = 4
    Jitter = 30
    Threshold = 2
    Window = 4
    Cooldown = 3
    Poll = 2
    StableReset = 3
    SupBase = 1
    SupMax = 2
    SupStable = 4
    MaxAttempt = 4
    MaxStreak = 4
    \* Leader
    Proc = {p1, p2}
    Nobody = Nobody
    MaxStarts = 2
    MaxTroubles = 2
    \* WebSocketFeed
    Client = {s1, s2}
    QueueSize = 2
    MaxConn = 1
    MaxPayloads = 3
    MaxSessions = 1
    \* Backfill
    Address = {u1, u2}
    Slots = 3
    Orphaned = {2}
    Unparseable = {3}
    MaxConcurrent = 1
    Retention = 1
    Capped = TRUE
    MaxJobs = 2
    \* KupoHistory
    MaxTriggers = 3
    MaxCap = 2
    MaxForeign = 2
    MaxHostFaults = 1
    \* ClusterJobs
    Contract = {c1}
    JobId = {j1, j2}
    NoJobId = NoJobId
    PerTick = 1
    Others = TRUE
    Interval = 1
    MaxApiCalls = 2
    MaxJobFaults = 1
    \* AnomalyPoller
    Flaggable = {f1, f2}
    Target = {w1, w2}
    Budget = 1
    MaliciousFloor = 80
    ConsensusScale = 100
    AnomalyScale = 59
    RoutedRank = 2
    MaxPublications = 2
    MaxPollFaults = 1
INVARIANTS
    AttemptsPaced
    LeadershipSound
    FeedSound
    NothingTwice
    ReportsHonest
PROPERTIES
    KeepsTrying
    StandbyLeads
    HistorySettles
    
    PollerDrains
CHECK_DEADLOCK FALSE
