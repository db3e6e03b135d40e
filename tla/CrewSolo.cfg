CONSTANTS
  a = a  b = b  c1 = c1  c2 = c2  h1 = h1  h2 = h2
  p1 = p1  p2 = p2  g1 = g1  g2 = g2
  None = None
  Tick = Tick
  Members = {a, b}
  Cards = {c1, c2}
  Handlers = {h1}
  Passes = {p1, p2}
  Coords = {}
  Slots = 2
  Teams <- SoloTeams
  Deps <- ChainDeps
  Recurring = {c2}
  Pausable = {b}
  Fireable = {}
  MaxRounds = 2
  MaxCrashes = 0
SPECIFICATION Spec
SYMMETRY Symmetry
INVARIANTS TypeOK
PROPERTIES ClaimsRespectDeps LandsInItsRound BoardSpec
CHECK_DEADLOCK FALSE
