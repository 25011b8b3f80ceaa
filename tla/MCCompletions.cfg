SPECIFICATION Spec
CONSTANTS
  Requests <- EveryRequest
  MaxTokens = 3
  None = None
  Errors = {"abort", "preempt"}
  Interrupted <- SingleRequests
INVARIANTS
  TextIsTheGeneration
  AnswerIsComplete
  FailsOnlyWhenExpected
CHECK_DEADLOCK FALSE
