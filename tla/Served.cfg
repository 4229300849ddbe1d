SPECIFICATION LiveSpec
CONSTANTS
    Rows = {1, 2, 3}
    BatchSize = 2
    Parts = {"lookahead", "watch", "outage", "token", "adopt", "edits", "flac", "settings"}
PROPERTIES ImplementsClaims WorkIsServed
CHECK_DEADLOCK FALSE
