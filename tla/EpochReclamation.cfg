\* One reader that also browses history: snapshots that outlive their pin, pins
\* moved back and forth, the ring lapped once.
SPECIFICATION Spec
CONSTANTS
  Readers = {r1}
  Historians = {r1}
  MaxReaders = 1
  Capacity = 3
  HistoryDepth = 1
  MaxVersion = 4
  MaxSpin = 2
INVARIANTS
  TypeOK
  ReadsAreIntact
  SnapshotsAreWhole
  RetentionIsBounded
PROPERTIES
  CurrentMovesForward
  ImplementsRetention
