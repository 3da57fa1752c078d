CONSTANTS
  Sizes = {0, 1, 3, 4, 5, 6, 7}
  SlowSizes = {0, 1, 3}
  ByteRead = 2
  RealLen = 3
  SendPeriod = 3
  RecvPeriod = 0
  FirstTries = 4
  Tries = 3
  MaxFaults = 3
  SlowFaults = 0
SPECIFICATION FairSpec
INVARIANTS TypeOK Patient
PROPERTIES Implements Completes SenderEnds
