SPECIFICATION BatchSpec
CONSTANTS
  Paths = {p1, p2}
  MaxEdits = 2
  MaxFaults = 1
  MaxRetries = 2
  MaxLive = 1
  MayRevert = FALSE
  FirstTimeGap = FALSE
  SilentRules = FALSE
INVARIANTS NothingForgotten CachedIsSearchable NoStrandedWork StopIsQuiet RepairStaysDue
SYMMETRY PathSymmetry
CHECK_DEADLOCK FALSE
