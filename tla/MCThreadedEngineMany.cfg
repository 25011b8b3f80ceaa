SPECIFICATION Spec
CONSTANTS
  Callers = {c1, c2}
  Requests = {r1}
  Configs = {good}
  BadConfigs = {}
  MaxCalls = 2
  MaxOutputs = 2
INVARIANTS
  NoLostInstruction
  NoLostOutput
  OutputsInOrder
SYMMETRY ClientSymmetry
CHECK_DEADLOCK FALSE
