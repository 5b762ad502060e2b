\* Every connector, two algorithms that send, a stop at any point.
SPECIFICATION FairSpec
CONSTANTS
  worker = worker  a1 = a1  a2 = a2  nobody = nobody
  Worker = worker
  Algorithms = {a1, a2}
  NoOne = nobody
  Senders <- MCSenders
  Kinds = {"http", "openems", "modbus", "serial", "lorawan"}
  Declared <- MCDeclared
  MaxRestarts = 1
  MaxBackoff = 2
  MaxHandles = 2
  Commands <- MCCommands
  RegisterOptions <- MCOptions
  CloseOnError = TRUE
  InitCommands = 1
  Spellings <- MCSpellings
  Uplinks <- MCUplinks
  MaxUplinks = 2
  Commanded = 1
  Downlink <- MCDownlink
  Intervals = {2}
  QueueModes = {"push", "replace"}
  MaxCommands = 1
  MaxTime = 3
INVARIANTS OwnReply HandsOutOpen NothingLeftOpen FieldsAreNewest
PROPERTIES EachDevicePolled StopEnds DownlinksApart
CHECK_DEADLOCK FALSE
