CONSTANTS
  Sizes = {3}
  ByteRead = 2
  InitSlots = 1
  Requests <- MCRequests
  MaxRequests = 1
SPECIFICATION Spec
INVARIANTS NoUseAfterClose
