SPECIFICATION FairSpec
CONSTANTS
  MAXLEN = 2
  LIMIT_LEN = 4
  MaxBytes = 5
  MaxSend = 3
  MaxUnread = 5
INVARIANTS
  StreamIntact
  WatchExact
  PacketsNonEmpty
PROPERTIES
  Drains
  NoticesEnd
