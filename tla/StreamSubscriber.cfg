\* Three sessions; messages of one to three fragments, one as large as the ring.
SPECIFICATION FairSpec
CONSTANTS
  ControlCapacity = 3
  PayloadCapacity = 6
  Fragment = 2
  Published <- MCPublished
INVARIANT MessagesWhole
PROPERTY EverythingArrives
CHECK_DEADLOCK FALSE
