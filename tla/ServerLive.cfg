SPECIFICATION FairSpec
CONSTANTS
  Conn = {c1, c2}
  c1 = c1
  c2 = c2
  Session = {s1}
  s1 = s1
  Req = {r1, r2}
  r1 = r1
  r2 = r2
  Runtime = {l1}
  l1 = l1
  None = None
  Greeted = {c1, c2}
  Seeded = {s1}
  Faults = {"open", "snapshot"}
PROPERTIES EveryRequestIsAnswered
CHECK_DEADLOCK FALSE
