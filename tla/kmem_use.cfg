SPECIFICATION Spec
CONSTANTS
  Thread = {a, b}
  IMCACHE_LRU_COUNT = 2
  Num = 2
  Limit = 3
  IMROUNDSIZE = 1
  GrowLimit = 1
  MaxHeld = 1
  MaxOther = 1
SYMMETRY Symmetry
INVARIANTS
  OnePlace
  BooksExact
  DescriptorsCovered
