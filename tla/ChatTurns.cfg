SPECIFICATION FairSpec
CONSTANTS
  Turn = {t1, t2}
  None = None
  MaxAsked = 1
  MaxMishaps = 1
  MaxChunks = 1
  MaxImages = 1
  MaxRounds = 1
  MaxKept = 2
  MaxRetries = 1
INVARIANTS TypeOK ImageComesOnce NothingSaidIsMissed
PROPERTIES WaitEnds
CHECK_DEADLOCK FALSE
