CONSTANTS
  Readers = {r1}
  Cells = {c1}
  MaxVersion = 4
  RetryCap = 2
  Blank = 0
  Values <- MCValues
  Mirrors <- MCMirrors
SPECIFICATION Spec
PROPERTIES
  SyncsMonotone
