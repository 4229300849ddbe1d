SPECIFICATION ServeSpec
CONSTANTS
    r1 = r1
    r2 = r2
    s1 = s1
    s2 = s2
    l1 = l1
    NoScan = NoScan
    NoRow = NoRow
    Rows = {r1, r2}
    Scans = {s1}
    Libs = {l1}
    LibOf <- OneLib
    MaxWaits = 0
    AttCap = 0
    UpgradeMaxAttempts = 1
    MissCap = 0
    MaxMiss = 0
    Features = {"operator", "rescan", "prune"}
    Verdicts = {"synced"}
PROPERTIES  DoneIsHonest
SYMMETRY RowSymmetry
