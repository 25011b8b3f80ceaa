SPECIFICATION FairSpec
CONSTANT Deployments <- Served
INVARIANTS
  NoFault
  IdsUnused
  KVHoldsTokens
  QueuesHoldRequests
  CacheIsFresh
  UsageOnce
  WithinLimits
PROPERTIES
  FirstComeFirstServed
  EveryRequestAnswered
CHECK_DEADLOCK FALSE
