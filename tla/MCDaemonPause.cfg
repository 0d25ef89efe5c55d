SPECIFICATION PauseFairSpec
CONSTANTS
  Reads = {r1, r2}
  Writes = {}
  Watches = {}
  Cleanups = {c}
  Bounded = {b}
  Repairs = {}
  QueueLimit = 1
  Wedged = {}
  PausedReads = {r1, r2}
  GateLimit = 1
  NoCall = NoCall
INVARIANTS ExclusiveRunsAlone SealedMeansQuiet NoOrphanedWaiter QuietWhileClosing
PROPERTIES AbortedNeverStarts NothingHangs
CHECK_DEADLOCK FALSE
