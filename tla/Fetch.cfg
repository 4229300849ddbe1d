SPECIFICATION Spec
CONSTANTS
    Parts = {"lanes", "breaker", "pacer", "outage", "token", "scan", "adopt", "siblings", "record", "schedule"}
    Scans = {"s"}
    ScanOptions <- OptionChoices
    Embedded = "unsynced"
    ScanEdits = {"retag", "replace"}
    ScanFaults = {"db", "open", "probe", "link", "multivalue", "cancel"}
    MaxEdits = 1
    MaxSides = 1
    MaxFaults = 1
    TokenLookups = {"l1", "l2"}
    TokenFaults = {"mint", "db"}
    MaxMints = 2
    MaxSaves = 1
    MaxStarts = 2
    MaxExpired = 2
    Callers = {"a", "b"}
    Bases = {2, 5}
    PacerWidth = 3
    adaptiveMaxLevel = 2
    adaptiveSuccessThreshold = 2
    adaptiveDecayInterval = 3
    PacerNow = 6
    MaxSlot = 12
    MaxThrottles = 3
    Probers = {"a", "b", "c"}
    ZeroResultThreshold = 3
    MaxFails = 1
    Providers <- ProviderOrder
    WordLanes = {"p1", "p2"}
    Detector = "dt"
    LaneChoices <- LaneConfigs
    NotReadyBound = 1
    LaneBase = 1
    LaneCap = 1
    LaneWidth = 4
    LaneTrips = 2
INVARIANTS ScanIsHonest RecordDescribesDisk
PROPERTIES DispatchIsSound BreakerIsExact ClientsAreSound AdoptionIsSafe ScheduleIsSound
CHECK_DEADLOCK FALSE
