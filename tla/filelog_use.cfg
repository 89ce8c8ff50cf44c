SPECIFICATION Spec
CONSTANTS
  FILE_SIZE = 2
  Day = {1, 2}
  MaxMessages = 5
  MaxFaults = 2
  MaxKills = 2
CHECK_DEADLOCK FALSE
INVARIANTS
  OneCurrentFile
  FiledByDay
  NothingLost
  InOrder
