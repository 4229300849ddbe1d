SPECIFICATION LiveSpec
CONSTANTS
  Sources = {"lrclib", "mxm"}
  Faults = {"report", "db", "remove", "crash"}
  MaxRuns = 2
  MaxWrites = 4
  MaxFaults = 1
PROPERTIES PurgedIsRefetched
CHECK_DEADLOCK FALSE
