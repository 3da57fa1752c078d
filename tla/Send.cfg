CONSTANTS
  Sizes = {0, 1, 3, 4, 5}
  ByteRead = 2
  InitSlots = 1
  Requests <- MCRequests
  MaxRequests = 1
SPECIFICATION FairSpec
INVARIANTS TypeOK NoGap AnnouncedAllSent OwedTracked MessageBounded
PROPERTIES SlotKept OwedServed WaitEnds CloseAfterPassReturns
