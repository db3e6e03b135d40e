CONSTANTS
  s = s  x = x  y = y  z = z
  None = None
  Blocks = {s, x, y, z}
  Workflows <- DoneWorkflows
  MaxParallel = 2
  MaxRuns = 2
  MaxCrashes = 0
SPECIFICATION Spec
INVARIANTS DoneFiresLast
CHECK_DEADLOCK FALSE
