\* The producer sends and closes between the two looks of is_closed_and_empty.
SPECIFICATION Spec
CONSTANTS
  Capacity = 2
  MaxMessages = 2
  MaxPeeks = 1
INVARIANT ClosedAndEmptyIsFinal
