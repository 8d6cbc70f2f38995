SPECIFICATION Spec
CONSTANTS
  Readers = {r1, r2}
  Historians = {}
  MaxReaders = 1
  Capacity = 3
  HistoryDepth = 0
  MaxVersion = 2
  MaxSpin = 1
PROPERTIES
  PinIsOwn
