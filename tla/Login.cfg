CONSTANTS
  Tries = 4
  Room = 3
  Lengths = {1, 2, 3, 4}
SPECIFICATION Spec
CHECK_DEADLOCK FALSE
INVARIANTS OnlyGranted LatestChallenge
PROPERTIES GoneFor KindGrants LoginEnds
