SPECIFICATION Spec
CONSTANTS
  ArenaOffset = 8
  ByteLength = 512
  MaxByteLength = 11500
  VerifyMode = "Full"
  BITS = 1
  MAX_SHIFT = 1
  EditSlots <- MCEditSlots
  Scripts <- MCScripts
  LengthOf <- MCLengthOf
  HashOf <- MCHashOf
  KeyOrder <- MCKeyOrder
  Readers = {r}
  RetainedCapacity = 2
  HistoryDepth = 0
  Commits <- MCCommits
  Elements <- MCElements
  Properties = {"a", "b", "c"}
  Indices = {0, 1}
  Lengths = {1}
  Methods = {"reverse", "shift", "unshift"}
  MaxVersion = 4
  MaxOps = 3
  ResizeAfterEdit = FALSE
  UpdateAfterAdopt = FALSE
INVARIANTS
  TypeOK
  LifetimeTypeOK
  VersionsReadBack
  CurrentVersionVerifies
  BlocksHaveOneOwner
  NothingLeaks
  RejectedWriteLeavesNothing
  VersionsAreRetained
  LazyReadsAgree
  VectorFollowsEdits
PROPERTIES
  NoEditIsLost
  RetainedBlocksStand
  LifetimeSpec
