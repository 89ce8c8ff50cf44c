SPECIFICATION Spec
CONSTANTS
  MAXLEN = 2
  LIMIT_LEN = 4
  MAX_LEN_CACHE_IN_MEM = 1
  HeaderRoom = 3
  ConnectOutcomes = {"progress"}
  ServerSpeaksFirst = FALSE
  DiskFaults = {"none", "torn"}
  MaxSessions = 1
  MaxClient = 2
  MaxServer = 1
  MaxExtra = 0
CHECK_DEADLOCK FALSE
INVARIANTS
  JustifiedErrors
