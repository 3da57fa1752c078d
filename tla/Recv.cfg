CONSTANTS
  Sizes = {0, 3}
  Pieces <- MCPieces
  InitBlocks = 2
  FirstTries = 1
  Tries = 0
  MaxPackets = 2
  GrowthFails = TRUE
SPECIFICATION FairSpec
INVARIANTS TypeOK PacketsInOrder PrefixWritten OkMeansComplete ReportSane
PROPERTIES ImplementsQueue BlockKept StopIsFinal ReceiverEnds CloseReturns
