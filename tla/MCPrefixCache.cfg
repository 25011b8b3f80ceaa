\* Requests run out, so the system comes to rest.
CHECK_DEADLOCK FALSE
SPECIFICATION Spec
CONSTANTS
  PageCapacity = 2
  NumRequests = 3
  Tokens = {1, 2}
  MaxTokens = 2
  ChunkSize = 2
  ReuseNum = 1
  ReuseDen = 2
  Configs <- MCConfigs
  MaxInterrupts = 1
  PreemptDecoding = FALSE
INVARIANTS
  TreeWellFormed
  MatchIsLongest
  TreeHoldsKV
  ContextIsOwn
  ActiveHasOwner
  FreeIdsUnused
