\* A ring of three slots whose indices wrap.
SPECIFICATION FairSpec
CONSTANTS
  Capacity = 3
  MaxMessages = 8
  MaxPeeks = 2
INVARIANTS TypeOK IndicesCount AssertionsHold PromisesKept NoFalseShowstopper
PROPERTIES ImplementsFifo SendReturns ClosedChannelEnds
