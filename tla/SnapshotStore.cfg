\* Four commits: one in the file, one being written, one chained behind it and
\* one pending behind the timer.
SPECIFICATION Spec
CONSTANT MaxCommits = 4
INVARIANTS
  TypeOK
  FileIsWhole
  LastValueIsCarried
PROPERTIES
  FileNeverGoesBack
  CommitsLand
