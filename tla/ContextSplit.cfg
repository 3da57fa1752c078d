CONSTANTS
  Feeds <- SplitFeeds
  MaxByte = 40
SPECIFICATION Spec
INVARIANTS NothingSkipped
