CONSTANTS
  s = s  x = x  y = y  z = z
  None = None
  Blocks = {s, x, y, z}
  Workflows <- AllWorkflows
  MaxParallel = 2
  MaxRuns = 2
  MaxCrashes = 1
SPECIFICATION FairSpec
INVARIANTS TypeOK OncePerStart ConnectedIsVisible DurableBeforeNext NobodyLeftBehind DoneAfterEveryItem
PROPERTIES ExecutionEnds
CHECK_DEADLOCK FALSE
