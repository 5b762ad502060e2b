\* A finite step timeout, and algorithms that may hang for ever, a looping, paced
\* replay and a signal at any point.
SPECIFICATION HungSpec
CONSTANTS
  a1 = a1  a2 = a2  meter = meter  plug = plug  stranger = stranger
  replayWorker = replayWorker  none = none
  Algorithms = {a1, a2}
  Devices = {meter, plug}
  UnknownDevice = stranger
  Replay = replayWorker
  NoTime = none
  Times <- MCTimes
  Entries <- MCShortEntries
  Required <- MCPlugRequired
  StopOrder <- MCStopOrder
  FileOutcomes = {"ok"}
  MainOutcomes = {"return", "raise"}
  LoopFile = TRUE
  MaxPasses = 2
  Paced = TRUE
  StepTimeout = "finite"
  GateTimeout = FALSE
  RestartEnabled = TRUE
  MaxRestarts = 1
  OtherConnector = FALSE
  Interruptible = TRUE
PROPERTIES StepsIncrease ReplayCompletes
