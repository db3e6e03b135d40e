CONSTANTS
  a = a  b = b  c1 = c1  c2 = c2  h1 = h1  h2 = h2
  p1 = p1  p2 = p2  g1 = g1  g2 = g2
  None = None
  Tick = Tick
  Members = {a, b}
  Cards = {c1, c2}
  Handlers = {h1}
  Passes = {p1, p2}
  Coords = {g1}
  Slots = 1
  Teams <- PairTeams
  Deps <- ChainDeps
  Recurring = {}
  Pausable = {}
  Fireable = {}
  MaxRounds = 1
  MaxCrashes = 0
SPECIFICATION PromptFair
INVARIANTS ReviewHasEveryPass
PROPERTIES WorkComesBack QueuedIsServed
CHECK_DEADLOCK FALSE
