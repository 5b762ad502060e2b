SPECIFICATION FairSpec
CONSTANTS
  w1 = w1  w2 = w2
  first = first  influxdb = influxdb  second = second  directory = directory
  Writers = {w1, w2}
  Backends <- MCBackends
  Csv = {first, second}
  Influx = {influxdb}
  File <- MCFile
  Failing = {second}
  MaxRows <- MCRows
  MaxRuns = 2
INVARIANTS HeaderOnce NoRowLost NothingLeftOpen
PROPERTIES CloseAllEnds
CHECK_DEADLOCK FALSE
