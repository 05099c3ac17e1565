SPECIFICATION Spec
CONSTANTS
    Services = {"sessions", "telemetry", "mail", "failover", "windows", "geometry",
                "upgrade", "watchdog", "node", "suite", "fleet"}
    i1 = i1
    e1 = e1
    e2 = e2
    e3 = e3
    g1 = g1
    g2 = g2
    i2 = i2
    MaxSets = 4
    Invocations = {i1, i2}
    None = None
    LastDate = 2
    Figures = {f1, f2}
    Threshold = 1
    Cooldown = 2
    MaxTime = 3
    MaxChecks = 3
    MaxBoots = 2
    Nodes = {"n1", "n2"}
    MaxClaims = 3
    MaxFaults = 3
    Jobs = {"j1", "j2"}
    MaxWindowRevision = 4
    MaxWindows = 2
    ClusterNodes = {"n1"}
    NoName = NoName
    Stale = 2
    Interval = 1
    MaxNodeTime = 6
    MaxFailedPasses = 1
    Edges = {e1, e2, e3}
    Groups = {g1, g2}
    NoGroup = NoGroup
    Hardware <- SharedBundle
    Concurrency = 2
    MaxFleetFaults = 2
    SiteEvents <- SentNumbers
    Payload <- SentEvents
    Batches <- SentBatches
    DayLength = 3
    ReportHours = {1, 2}
    StaleAfter = 1
    AlertCooldown = 2
    MaxSessionTime = 4
    ReplayEvicted = FALSE
    StoredEvents <- StoredNumbers
    Contents <- SnapshotContents
    Attached <- AttachedContents
    Size <- SnapshotSizes
    High = 8
    Low = 6
    MaxEvents = 2
    Batch = 2
    MaxCrashes = 1
    Deployments = {"d1"}
    Shapes = {"s1", "s2"}
    ZoneNames = {"gate_entry"}
    MaxRevision = 2
    MaxGeometrySets = 3
    Images = {i1, i2}
    NoImage = NoImage
    MaxCommits = 3
    MaxPods = 2
    MaxStateClaims = 2
CHECK_DEADLOCK FALSE
INVARIANTS
    TypeOK
    UpgradeExtendsSource
    RecordsHold
    ActivatedOnPreparedPlatform
    RestartsBounded
    QualifiedIsRecent
    PassedIsWitnessed
    VerifiedIsInstalled
    VisitsConsistent
    DerivedExact
    SnapshotsServed
    OneMailPerDate
    EnrollmentHasWindow
    SavedShapesServed
PROPERTIES
    RetentionEffective
    LeavesFailedNode
    ResumingCompletes
