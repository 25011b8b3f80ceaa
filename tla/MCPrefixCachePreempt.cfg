CHECK_DEADLOCK FALSE
SPECIFICATION Spec
CONSTANTS
  PageCapacity = 2
  NumRequests = 1
  Tokens = {1, 2}
  MaxTokens = 3
  ChunkSize = 2
  ReuseNum = 1
  ReuseDen = 2
  Configs <- MCConfigs
  MaxInterrupts = 1
  PreemptDecoding = TRUE
INVARIANTS
  TreeHoldsKV
