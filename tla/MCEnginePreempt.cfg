SPECIFICATION Spec
CONSTANT Deployments <- OnlyPreempt
INVARIANT NoFault
CHECK_DEADLOCK FALSE
