SPECIFICATION FairSpec
CONSTANTS
  connector = connector  api = api
  Order <- MCOrder
  Server = api
  RestartEnabled = TRUE
  MaxRestarts = 2
  Requests = 2
INVARIANTS FailureIsReported DownHasCrashed
PROPERTIES StopReachesServer
CHECK_DEADLOCK FALSE
