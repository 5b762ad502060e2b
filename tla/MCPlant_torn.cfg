\* A Shelly plug on a live broker, and an algorithm that copies it meanwhile.
SPECIFICATION Spec
CONSTANTS
  nobody = nobody  null = null
  NoOne = nobody
  Null = null
  Documents <- MCLive
  Environments <- MCEnvironments
  Outcomes <- AllBuilt
  DeviceNames <- MCDeviceNames
  AlgorithmNames <- MCAlgorithmNames
  Payloads <- MCTripped
  MaxPayloads = 2
  MaxSnapshots = 1
INVARIANTS NoRacingSnapshot
CHECK_DEADLOCK FALSE
