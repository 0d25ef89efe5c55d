SPECIFICATION LifeSpec
CONSTANTS
  MaxProcs = 3
  MaxStops = 1
  MaxFaults = 1
  SleepAnywhere = FALSE
  StopWhileWatching = FALSE
INVARIANTS OneStoreOwner PublishedIsReachable OneSurvives
PROPERTY EverythingSettles
CHECK_DEADLOCK FALSE
