SPECIFICATION FairSpec
CONSTANTS
  a1 = a1
  Algorithms = {a1}
  MaxMissedPongs = 1
  MaxSends = 1
  MaxSessions = 2
  MaxQuiet = 1
  MaxChanges = 2
INVARIANTS IdsIncrease NoChangeLost
PROPERTIES SilenceNoticed StopEnds
CHECK_DEADLOCK FALSE
