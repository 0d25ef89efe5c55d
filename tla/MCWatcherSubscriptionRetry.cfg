SPECIFICATION SubFairSpec
CONSTANTS
  MaxWatches = 1
  MaxErrors = 1
  MaxRefusals = 1
  MaxPolicies = 0
  MaxStreams = 12
  MaxRetries = 2
  BusyFailures = FALSE
  RefusedFor = {"recover"}
PROPERTIES WatchedIsCovered
CHECK_DEADLOCK FALSE
