SPECIFICATION Spec
CONSTANTS
  SearchAlphabet = {64, 65, 96, 97}
  MaxText = 5
  MaxSubstr = 3
  LineAlphabet = {10, 13, 65}
  MaxHeader = 6
  FieldAlphabet = {58, 65, 66}
  Separator = 58
  MaxFields = 6
  Byte = {0, 27, 180, 255}
  MaxBytes = 4
  MaxSpace = 9
  Ignored = {10, 61}
  MaxRequest = 67000
  PageShift = 16
INVARIANTS
  TextExact
  RoundTrip
  LargeEnough
  SlabsHold
