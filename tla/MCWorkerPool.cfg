SPECIFICATION PoolSpec
CONSTANTS
  FileTasks = {f1, f2}
  Queries = {q}
  Existing = {e}
  FileOf <- OneFile
  Ids = {1, 2, 3, 4}
  MaxWorkers = 3
  FileCpuLimit = 3
  Backlog = 1
  WaiterLimit = 1
  MaxRespawns = 1
  MayDeny = TRUE
  MayReap = TRUE
  None = None
INVARIANTS OneOwnerPerFile NoWorkBesideIdle SearchesFindRoom StrictMeansQuiet
CHECK_DEADLOCK FALSE
