\* Two readers of the current version: attachments, detachments and pins under
\* the two scans of the reader table.
SPECIFICATION Spec
CONSTANTS
  Readers = {r1, r2}
  Historians = {}
  MaxReaders = 2
  Capacity = 2
  HistoryDepth = 0
  MaxVersion = 2
  MaxSpin = 1
SYMMETRY MCSymmetry
INVARIANTS
  ReclaimSparesPinned
PROPERTIES
  ImplementsRetention
