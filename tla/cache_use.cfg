SPECIFICATION Spec
CONSTANTS
  MAX_LEN_CACHE_IN_MEM = 2
  MaxStored = 4
  MaxPiece = 2
  MaxClears = 2
  DiskFaults = {"none", "torn"}
INVARIANTS
  RecordsAligned
  CountersCover
  BytesExact
PROPERTIES
  ImplementsFifo
