SPECIFICATION Spec
CONSTANTS
    r1 = r1
    r2 = r2
    s1 = s1
    s2 = s2
    l1 = l1
    l2 = l2
    NoScan = NoScan
    Rows = {r1}
    Scans = {s1, s2}
    Libs = {l1, l2}
    LibOf <- TwoLibs
    MaxWaits = 1
    AttCap = 1
    MissCap = 1
    Features = {"word", "upgrade", "detector", "manual", "webhook", "rescan", "operator", "prune"}
    Verdicts = {"synced", "below", "categorical"}
INVARIANTS TypeOK TripDisarmed SettledBudgetFresh ManualMarkSticks
