SPECIFICATION Spec
CONSTANTS
  Conn = {c1, c2}
  c1 = c1
  c2 = c2
  Session = {s1}
  s1 = s1
  Req = {r1, r2}
  r1 = r1
  r2 = r2
  Runtime = {l1}
  l1 = l1
  None = None
  Greeted = {}
  Seeded = {s1}
  Faults = {"error", "close"}
INVARIANTS TypeOK AttachmentsTold NoIdleRuntime NothingLeftBehind NeverLockedOut
PROPERTIES TurnsAreKept
SYMMETRY Symmetry
CHECK_DEADLOCK FALSE
