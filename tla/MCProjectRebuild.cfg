SPECIFICATION RebuildFairSpec
CONSTANTS
  Projects = {p, q}
  Gens = {g, h}
  First = g
  None = None
  MaxChanges = 1
  Ids = {i}
  MaxRemoves = 1
  MaxFaults = 2
  HiddenRows = FALSE
  LateRestore = FALSE
INVARIANTS IndexedIsBuilt ReadyIsWhole
PROPERTIES RebuildSettles
