SPECIFICATION FairSpec
CONSTANTS
  Callers = {c1}
  Requests = {r1}
  Configs = {good}
  BadConfigs = {}
  MaxCalls = 1
  MaxOutputs = 1
PROPERTIES
  TerminateReturns
CHECK_DEADLOCK FALSE
