SPECIFICATION Spec
CONSTANTS
  MAXLEN = 2
  LIMIT_LEN = 4
  MAX_LEN_CACHE_IN_MEM = 1
  HeaderRoom = 3
  ConnectOutcomes = {"now", "progress", "fail"}
  ServerSpeaksFirst = TRUE
  DiskFaults = {"none", "torn"}
  MaxSessions = 2
  MaxClient = 2
  MaxServer = 2
  MaxExtra = 2
CHECK_DEADLOCK FALSE
INVARIANTS
  QuietWhenIdle
  HalvesAgree
  UpstreamIntact
  DownstreamIntact
  HeaderSound
PROPERTIES
  ImplementsSession
