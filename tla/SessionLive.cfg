SPECIFICATION FairSpec
CONSTANTS
  MaxTexts = 2
  Prompter = {p1, p2}
  None = None
  Faults <- Overlap
  MaxRetries = 1
  MaxCalls = 1
  MaxReplies = 1
  MaxBash = 1

PROPERTIES RunsSettle
CHECK_DEADLOCK FALSE
