SPECIFICATION Spec
CONSTANTS
  r1 = r1
  r2 = r2
  Requests = {r1, r2}
  NumServers = 3
  Modes = {"disagg", "round-robin"}
  Balances = {0, 40}
  PromptLength <- MCLengths
  MaxTokens = 2
  MaxPreempts = 1
INVARIANTS
  CountsAreExact
  EachPositionOnce
  KeptOnlyWhenBrokenOff
PROPERTIES
  PicksLeastCongested
  EveryRequestEnds
CHECK_DEADLOCK FALSE
