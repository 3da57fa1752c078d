CONSTANTS
  Sizes = {2}
  Pieces <- MCPieces
  InitBlocks = 2
  FirstTries = 0
  Tries = 0
  MaxPackets = 1
  GrowthFails = FALSE
SPECIFICATION Spec
INVARIANTS OkIsReportedDone
