SPECIFICATION Spec
CONSTANTS
  Lines = {1}
  Foreign = 0
  MaxDepth = 1
  MaxSteps = 3
  MaxRequests = 4
INVARIANT EvaluatorIsParked
CHECK_DEADLOCK FALSE
