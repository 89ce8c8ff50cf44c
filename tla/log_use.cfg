SPECIFICATION FairSpec
CONSTANTS
  MaxMessages = 3
  MaxSignals = 1
CHECK_DEADLOCK FALSE
INVARIANTS
  InOrder
  Exclusive
PROPERTIES
  EventuallyPrinted
