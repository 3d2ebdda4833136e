\* A byte buffer too small for the item at the end of the first slice.
SPECIFICATION Spec
CONSTANTS
  ControlCapacity = 2
  PayloadCapacity = 4
  Lengths = {1, 3}
  Targets = {2}
  MaxItems = 3
INVARIANT DeliveredWhole
