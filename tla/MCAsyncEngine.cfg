SPECIFICATION FairSpec
CONSTANTS
  t1 = t1
  t2 = t2
  t3 = t3
  a = a
  b = b
  NoTask = NoTask
  MaxOutputs = 2
  Tasks = {t1, t2, t3}
  Ids = {a, b}
  IdOf <- TwoShare
  Abortable = {a}
  MaxFaults = 2
  MayTerminate = TRUE
INVARIANTS
  NoStreamLeaks
  CancelledIsAborted
PROPERTIES
  OwnAnswerInOrder
  EveryAnswerEnds
CHECK_DEADLOCK FALSE
