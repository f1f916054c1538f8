SPECIFICATION Spec
CONSTANTS
  Lines = {1}
  Foreign = 0
  MaxDepth = 1
  MaxSteps = 3
  MaxRequests = 4
INVARIANT NextStepsOver
CHECK_DEADLOCK FALSE
