CONSTANTS
  Events = {e1, e2}
  AttemptCap = 4
  Workers = {w1, w2}
  MaxAttempts = 3
  MayCrash = TRUE
SPECIFICATION FairSpec
INVARIANTS
  OneDispatcher
PROPERTIES
  RetriesNotCutShort
  EventIsDecided
CHECK_DEADLOCK FALSE
