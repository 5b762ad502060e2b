\* Three decisions of an algorithm in a process, over two rounds of a replay and
\* a restart, a backend that may raise, and a client that polls throughout.
SPECIFICATION PollingSpec
CONSTANTS
  a1 = a1
  Algorithms = {a1}
  Capacity = 2
  Backends <- MCBackends
  Failing = {"influx"}
  Replayed = TRUE
  Limits <- MCLimits
  FirstCursors <- MCFirstCursors
  MaxDecisions = 3
  MaxRounds = 2
  MaxWall = 1
  MaxEpochs = 2
INVARIANTS FeedAccounts FeedFaithful NoDecisionLost SameStampInReplay
PROPERTIES CatchesUp
