SPECIFICATION Spec
CONSTANTS
    Lookups = {l1, l2}
    Faults = {"mint", "db"}
    MaxMints = 2
    MaxSaves = 0
    MaxStarts = 1
    MaxExpired = 1
INVARIANT OneMintPerToken
CHECK_DEADLOCK FALSE
