SPECIFICATION Spec
CONSTANTS
  Jobs <- AllJobs
  GroupSize = 4
  NumElem = 2
  Block = 2
  MaxJobs = 2
INVARIANTS
  AcceptedConverts
  RefusedForCause
  DequantizesOwnShard
CHECK_DEADLOCK FALSE
