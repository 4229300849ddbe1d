SPECIFICATION ServeSpec
CONSTANTS
    r1 = r1
    r2 = r2
    s1 = s1
    s2 = s2
    l1 = l1
    NoScan = NoScan
    NoRow = NoRow
    Rows = {r1}
    Scans = {s1}
    Libs = {l1}
    LibOf <- OneLib
    MaxWaits = 1
    AttCap = 1
    UpgradeMaxAttempts = 2
    MissCap = 2
    MaxMiss = 2
    Features = {"word", "upgrade", "webhook", "operator", "manual", "detector", "backfill", "prune", "dberror", "shutdown", "crash"}
    Verdicts = {"synced", "below"}
INVARIANTS ServeTypeOK OwnershipHolds ReTripShape
PROPERTIES ReTripKeepsMissBudget
