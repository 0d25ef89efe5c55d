SPECIFICATION PoolFairSpec
CONSTANTS
  FileTasks = {f1, f2}
  Queries = {}
  Existing = {e}
  FileOf <- OwnFiles
  Ids = {1, 2, 3}
  MaxWorkers = 2
  FileCpuLimit = 2
  Backlog = 1
  WaiterLimit = 1
  MaxRespawns = 1
  MayDeny = TRUE
  MayReap = TRUE
  None = None
INVARIANT SearchesFindRoom
PROPERTY EveryTaskSettles
CHECK_DEADLOCK FALSE
