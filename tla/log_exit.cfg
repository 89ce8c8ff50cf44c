SPECIFICATION FairSpec
CONSTANTS
  MaxMessages = 1
  MaxSignals = 0
CHECK_DEADLOCK FALSE
PROPERTIES
  FinaliseEnds
