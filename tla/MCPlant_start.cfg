\* Seven configurations, from the first line of main() to its last.
SPECIFICATION FairSpec
CONSTANTS
  nobody = nobody  null = null
  NoOne = nobody
  Null = null
  Documents <- MCDocuments
  Environments <- MCEnvironments
  Outcomes <- MCOutcomes
  DeviceNames <- MCDeviceNames
  AlgorithmNames <- MCAlgorithmNames
  Payloads <- MCPayloads
  MaxPayloads = 2
  MaxSnapshots = 1
INVARIANTS BarrierIsTheBuilt WiredAsConfigured SnapshotIsAReading StoredIsTheReading
PROPERTIES RunEndsClosed
CHECK_DEADLOCK FALSE
