\* A replay file that does not load, beside a live connector.
SPECIFICATION FairSpec
CONSTANTS
  a1 = a1  a2 = a2  meter = meter  plug = plug  stranger = stranger
  replayWorker = replayWorker  none = none
  Algorithms = {a1, a2}
  Devices = {meter, plug}
  UnknownDevice = stranger
  Replay = replayWorker
  NoTime = none
  Times <- MCTimes
  Entries <- MCEntries
  Required <- MCNothingRequired
  StopOrder <- MCStopOrder
  FileOutcomes = {"none"}
  MainOutcomes = {"return"}
  LoopFile = FALSE
  MaxPasses = 1
  Paced = FALSE
  StepTimeout = "never"
  GateTimeout = TRUE
  RestartEnabled = TRUE
  MaxRestarts = 1
  OtherConnector = TRUE
  Interruptible = FALSE
PROPERTIES LiveCadenceOtherwise
