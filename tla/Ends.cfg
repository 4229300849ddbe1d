SPECIFICATION LiveSpec
CONSTANTS
    Parts = {"lanes", "scan", "realign", "purge", "gather", "runner", "server"}
PROPERTIES RunsEnd
CHECK_DEADLOCK FALSE
