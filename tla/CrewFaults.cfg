CONSTANTS
  a = a  b = b  c1 = c1  c2 = c2  h1 = h1  h2 = h2
  p1 = p1  p2 = p2  g1 = g1  g2 = g2
  None = None
  Tick = Tick
  Members = {a, b}
  Cards = {c1}
  Handlers = {h1}
  Passes = {p1, p2}
  Coords = {g1}
  Slots = 2
  Teams <- PairTeams
  Deps <- NoDepsOne
  Recurring = {c1}
  Pausable = {a}
  Fireable = {b}
  MaxRounds = 2
  MaxCrashes = 1
SPECIFICATION Spec
SYMMETRY Symmetry
INVARIANTS NothingShipsUnseen OneCardPerMember CardsAtRest
CHECK_DEADLOCK FALSE
