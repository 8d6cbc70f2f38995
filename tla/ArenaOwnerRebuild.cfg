SPECIFICATION Spec
CONSTANTS
  ArenaOffset = 8
  ByteLength = 512
  MaxByteLength = 2048
  VerifyMode = "Full"
  BITS = 1
  MAX_SHIFT = 1
  EditSlots <- MCEditSlots
  Scripts <- MCScripts
  LengthOf <- MCLengthOf
  HashOf <- MCHashOf
  KeyOrder <- MCKeyOrder
  Readers = {r}
  RetainedCapacity = 3
  HistoryDepth = 0
  Commits <- RebuildCommits
  Elements <- NewElements
  Properties = {"a"}
  Indices = {0}
  Lengths = {}
  Methods = {}
  MaxVersion = 4
  MaxOps = 4
  ResizeAfterEdit = TRUE
  UpdateAfterAdopt = FALSE
INVARIANT VersionsReadBack
