\* Strict lockstep: crashes, exits, restarts, a spent budget, and a signal at
\* any point.
SPECIFICATION FairSpec
CONSTANTS
  a1 = a1  a2 = a2  meter = meter  plug = plug  stranger = stranger
  replayWorker = replayWorker  none = none
  Algorithms = {a1, a2}
  Devices = {meter, plug}
  UnknownDevice = stranger
  Replay = replayWorker
  NoTime = none
  Times <- MCTimes
  Entries <- MCEntries
  Required <- MCPlugRequired
  StopOrder <- MCStopOrder
  FileOutcomes = {"ok", "raise"}
  MainOutcomes = {"return", "raise", "exit"}
  LoopFile = FALSE
  MaxPasses = 1
  Paced = TRUE
  StepTimeout = "never"
  GateTimeout = TRUE
  RestartEnabled = TRUE
  MaxRestarts = 1
  OtherConnector = FALSE
  Interruptible = TRUE
INVARIANTS SeesOwnTimestep ParticipantUntilRetired NoWallClockAfterStep
PROPERTIES EveryStepOnce ImplementsBacktest RunEnds
