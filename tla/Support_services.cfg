\* Two of everything that can disagree; bounds for two rounds of each exchange.
CONSTANTS
    sv1 = sv1  sv2 = sv2  s1 = s1  s2 = s2
    \* ServerRelay
    Servers = {sv1, sv2}
    MaxGateways = 2
    MaxConnectors = 3
    MaxRelayed = 2
    \* Monitoring
    Feeds = {f1, f2}
    TelemetryCap = 2
    AuditCap = 3
    QueueCap = 1
    MaxRecords = 4
    MaxPurges = 1
    \* PeerGossip
    Members = {n1, n2}
    Strangers = {rogue}
    RowTtl = 1
    MaxTime = 3
    MaxHeard = 2
    MaxDigests = 3
    \* SimulationControl
    ClientCount = 2
    MaxSimCalls = 4
    MaxSimFailures = 1
    \* ExternalSimulator
    Engines = {s1, s2}
    Others = {cp}
    MaxSimReports = 2
    \* UserStore
    Users = {warrior, scout}
    DefaultUser = warrior
    MaxStarts = 3
    MaxEdits = 2
    MaxLogins = 2
    \* SimScenario
    Rosters <- MCRosters
    BlockRoles <- MCBlockRoles
    ScenarioTicks = 9
    \* DedupCache
    Keys = {k1, k2, k3, k4, k5, k6}
    NoKey = NoKey
    Window = 2
SPECIFICATION SupportSpec
SYMMETRY SupportSymmetry
INVARIANTS
    SupportTypeOK
    
    StampedByItsGateway
    FeedComplete
    DashboardTruth
    SimulationTruth
    AckOnce
    SessionsSurvive
    SimulationReport
    TranslationLaws
    CacheTruth
PROPERTY ImplementsWindow
CHECK_DEADLOCK FALSE
