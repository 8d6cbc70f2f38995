SPECIFICATION Spec
CONSTANTS
  Readers = {r1}
  Historians = {}
  MaxReaders = 1
  Capacity = 3
  HistoryDepth = 0
  MaxVersion = 3
  MaxSpin = 1
INVARIANTS
  StaleOnlyPastCap
