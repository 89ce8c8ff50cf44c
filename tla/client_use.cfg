SPECIFICATION FairSpec
CONSTANTS
  FdLimit = 6
  SetSize = 5
  CACHE_TUN_SIZE = 1
  MaxAccepts = 2
  MaxTunnels = 2
  MaxBacklog = 2
INVARIANTS PollerExact HandlersOwn NoFdLeak PoolSound NoStaleEvent
PROPERTIES TunnelsAreSessions LoopEnds Admitted
