\* Items of no, one and three bytes; two item slots and four byte slots wrap.
SPECIFICATION FairSpec
CONSTANTS
  ControlCapacity = 2
  PayloadCapacity = 4
  Lengths = {0, 1, 3}
  Targets = {4}
  MaxItems = 3
INVARIANTS TypeOK Paired SlicesInRange PromisesKept  FinishedLeavesNoBytes
PROPERTIES ImplementsStream SendsReturn ClosedStreamEnds
