CONSTANTS
  Readers = {r1}
  Cells = {c1, c2}
  MaxVersion = 4
  RetryCap = 2
  Blank = 0
  Values <- MCValues
  Mirrors <- MCMirrors
SPECIFICATION Spec
SYMMETRY MCSymmetry
INVARIANTS
  TypeOK
  SyncedCopyIsOneCommit
  RetryPaidByPublish
PROPERTIES
  SyncNotOlderThanCall
  ImplementsCommitLog
