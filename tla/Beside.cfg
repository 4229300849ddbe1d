SPECIFICATION Spec
CONSTANTS
    Parts = {"sweeps", "passes", "realign", "marks", "writer", "blocks", "purge", "identity", "recalibrate", "gather", "access", "limiter", "server", "runner", "settings", "autoruns", "flac", "handedit", "reports", "paging"}
    Getters = {"g1", "g2"}
    Tracks = {"a", "b"}
    flacMaxConversions = 2
    MaxFiles = 1
    MaxJobs = 2
    MaxReplaced = 1
    MaxGets = 2
    SyncVerdicts = {"ok", "mis_synced", "categorical"}
    Classes = {"throttle", "write", "other"}
    Wts = {"served", "absent"}
    PageIds = {1, 2, 3}
    Vals = {1, 2}
    TooLong = {2}
    PageSize = 1
    MaxChanges = 2
    Writers = {"w"}
    Outs = {"o"}
    WordSync = FALSE
    WithCompanion = TRUE
    FirstDisks <- FoundDisks
    WriteFaults = {"companion", "temp", "unlink", "rename", "stale", "elrc"}
    MaxWrites = 3
    Rows = {"r1"}
    Bodies = {"b1", "b2"}
    NoBody = "nobody"
    NoBlockRow = "norow"
    Hooks = {"h1", "h2"}
    ServeTasks = {"worker"}
    KeyIds = {"conf", "made"}
    SeededKeys = {"conf"}
    ServeStarts = 2
    RepairKeys = {"a", "b"}
    RepairRuns = 3
    Browsers = {"p1", "p2"}
    maxConcurrent = 1
    MaxAligned = 2
    MaxResaved = 1
    Editors = {"e1", "e2"}
    EditFaults = {"read", "mark", "restore", "write"}
    MaxEditRequests = 2
    MaxEditCrashes = 1
    maxDegradedAttempts = 2
INVARIANTS WritesAreSafe FlacCacheIsSound ReportsAgree
PROPERTIES PruneIsSafe RealignIsSafe MarksAreSafe PurgeIsSafe IdentityIsSafe InstrumentalsAreSafe AccessIsSound LifecycleIsSound SettingsAreSound AutoRunsAreSound HandEditIsSafe
CHECK_DEADLOCK FALSE
