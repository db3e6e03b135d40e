SPECIFICATION FairSpec
CONSTANTS
  Lease = {a1, a2}
  a1 = a1
  a2 = a2
  None = None
  Faults = {"break", "removal", "chunk"}
  MaxRequests = 4
  MaxInbox = 1
  MaxBreaks = 2
INVARIANTS TypeOK ExclusiveIsAlone NobodyIsCutOff CountIsHeld
PROPERTIES AcquisitionsEnd
CHECK_DEADLOCK FALSE
