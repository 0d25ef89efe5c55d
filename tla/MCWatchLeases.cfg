SPECIFICATION WatchFairSpec
CONSTANTS
  Holders = {m, cli}
  Cli = cli
  Renewing = {m}
  ExclusiveOps = {"cleanup", "bounded", "repair"}
  MaxExclusive = 2
  MaxTasks = 3
  MaxFaults = 1
INVARIANTS LeasedIsWatched
PROPERTIES NoDetachUnderLease RenewedIsWatched
CHECK_DEADLOCK FALSE
