SPECIFICATION FairSpec
CONSTANTS
  meter = meter
  plug = plug
  Devices = {meter}
  Capacity = 2
  Stopped = TRUE
  MaxPayloads = 4
  MaxDeaths = 1
  MaxRestarts = 1
INVARIANTS NewestKept
PROPERTIES ReadingsMoveForward DeviceNotSilenced StopEnds
CHECK_DEADLOCK FALSE
