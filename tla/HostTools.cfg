SPECIFICATION HostSpec
CONSTANTS
    Absent = Absent
    Malformed = Malformed
    Config <- FleetConfig
    Requests <- CommandLines
    Units = {"protocol", "shaper"}
    ExpectedUnits = {"protocol"}
    MaxBuilds = 2
    MaxBuildEdits = 1
    Options <- PublishOptions
    MaxEdits = 1
    MaxVersion = 2
    MaxPublishes = 2
    MaxSequenceId = 201
    MalformedModulus = 100
    ErrCodes <- SuiteErrCodes
    Tags = {}
    Modes <- SuiteModes
    MaxLosses = 2
    SeqModulus = 3
    RefreshFrames = 2
    InFlight = 2
    MaxFrames = 4
    MaxEvents = 2
    Edge = 3
    Tries = 2
    StaleAfter = 1
    MaxJobs = 3
    NSlots = 2
    Networks = {"home", "wrong", "long"}
    Right = {"home"}
    TooLong = {"long"}
    CommandLists <- Provisionings
    InAir = 4
    MaxCalls = 3
    Spots = {0, 100, 300}
    Skew = {0, 900}
    Corners <- CornerOfTour
    Wild = 5000
    MaxPose = 2000
    DistanceTol = 60
    HeadingTol = 800
    Circumstances <- Captures
    MaxSamples = 4
    Turns <- Angles
    Poses <- StartPoses
    Goals <- ParkGoals
    Places <- Near
    MaxRows = 5
    Dots = 3
    WindowRadius = 15
    Nothing = Nothing
    MountsFile <- Calibrated
    MountTags = {1, 2, 3, 53, 100, 101}
    Levers = {0, 3, 4}
    Skews <- Plates
    PathPoints <- PathGrid
    PathTimes = {3, 10, 40, 60}
    PathRows = 3
    PathCorners <- Rectangles
    EnoughRows = 3
    Robots = {"tovez", "vevov", "gopiv"}
    OnWifi = {"tovez", "vevov"}
    AddressOf <- Flashed
    Calibration <- RadioEntries
    NoEntry = NoEntry
    ProbeTries = 3
    SaidLines = 3
    Attempts = 3
    Jobs = 2
    KeepAlive = 4
    Silence = 16
    LossesInARow = 1
    Clients = {"c1", "c2"}
    Stdin <- ClientInputs
    ReplyLines <- VerbReplies
    TxSlots = 2
    RxSlots = 2
    DrainPerPass = 2
    ReplyWait = 1
    UartHolds = 2
    StdinLines = 2
    BenchPlans <- AllSeries
    Slips = {0, 12}
    Trajectories <- ArcPaths
    ChunkSize = 2
    SampleCap = 5
    PivotFixes = 4
    MinPivots = 3
    FrameStep = 80
    MissedFrames = 1
    MinFrames = 2
    BenchLosses = 2
    BadReads = 1
    BlocksArgs <- BlocksCalls
    BlocksRuns = 3
    FieldTables <- FieldHeaders
    Layouts <- ToolboxCsvs
    Blank = Blank
    BlockFiles <- SourceFiles
    GenRuns = 3
    Rewirers = {"protocol"}
    MotorRequests <- WiringRequests
    MaxRewires = 2
    MaxDeaf = 1
    MaxHardFaults = 1
INVARIANTS
    HostTypeOK DeploysAreSound PublishedIsAuthored AcceptanceIsSound TelemetryIsHonest
    FieldRunsAreSound ProvisioningIsSound CarriersAreSound PipesAreSound GeometryIsRight
    WorkspaceIsSound WiringIsSound ReportsAreFaithful OutputsAreFaithful
CHECK_DEADLOCK FALSE
