SPECIFICATION WatchFairSpec
CONSTANTS
  Holders = {m, cli}
  Cli = cli
  Renewing = {}
  ExclusiveOps = {"bounded"}
  MaxExclusive = 1
  MaxTasks = 2
  MaxFaults = 0
PROPERTIES UnleasedGetsUnwatched
CHECK_DEADLOCK FALSE
