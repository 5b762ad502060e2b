SPECIFICATION Spec
CONSTANTS
  a1 = a1
  Algorithms = {a1}
  MaxMissedPongs = 1
  MaxSends = 1
  MaxSessions = 1
  MaxQuiet = 0
  MaxChanges = 0
INVARIANT IdsOnlyInCommandPhase
CHECK_DEADLOCK FALSE
