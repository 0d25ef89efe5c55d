SPECIFICATION FairSpec
CONSTANTS
  n1 = n1  n2 = n2  n3 = n3  p1 = p1  p2 = p2 
  Tokens = {n1, n2, n3}
  Procs = {p1, p2}
  ProcOf <- TwoAndOne
  None = None  Torn = Torn
  Patient = {n3}
  Crashable = {p1}
  CrashInGap = TRUE
INVARIANTS MutualExclusion
PROPERTIES NeverReclaimedLive ImplementsLock EventuallyGranted CrashedReaderReclaimed
CHECK_DEADLOCK FALSE
