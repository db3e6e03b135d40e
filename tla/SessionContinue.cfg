SPECIFICATION Spec
CONSTANTS
  MaxTexts = 3
  Prompter = {p1}
  None = None
  Faults <- NoFaults
  MaxRetries = 1
  MaxCalls = 2
  MaxReplies = 4
  MaxBash = 1
INVARIANTS ContinuesWhenItCan

CHECK_DEADLOCK FALSE
