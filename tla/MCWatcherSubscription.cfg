SPECIFICATION SubFairSpec
CONSTANTS
  MaxWatches = 2
  MaxErrors = 3
  MaxRefusals = 2
  MaxPolicies = 2
  MaxStreams = 18
  MaxRetries = 2
  BusyFailures = FALSE
  RefusedFor = {"start", "policy", "probe"}
INVARIANTS NoLeakedStream DetachedIsQuiet
PROPERTIES WatchedIsCovered PollingEnds
CHECK_DEADLOCK FALSE
