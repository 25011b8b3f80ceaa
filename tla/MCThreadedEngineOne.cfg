SPECIFICATION FairSpec
CONSTANTS
  Callers = {c1}
  Requests = {r1}
  Configs = {good, bad}
  BadConfigs = {bad}
  MaxCalls = 3
  MaxOutputs = 2
PROPERTIES
  SynchronousCallsTakeEffect
  CallReturns
  RequestAnswered
  StreamsBack
CHECK_DEADLOCK FALSE
