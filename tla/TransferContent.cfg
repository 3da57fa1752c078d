CONSTANTS
  Sizes = {5}
  SlowSizes = {}
  ByteRead = 2
  RealLen = 2
  SendPeriod = 3
  RecvPeriod = 0
  FirstTries = 3
  Tries = 3
  MaxFaults = 1
  SlowFaults = 0
SPECIFICATION Spec
INVARIANTS CopyIsFile
