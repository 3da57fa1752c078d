CONSTANTS
  Feeds <- MCFeeds
  MaxByte = 40
SPECIFICATION Spec
INVARIANTS TypeOK InOrder WordsKept AllExported
PROPERTIES UpdateReturns
