SPECIFICATION Spec
CONSTANTS
  Lines = {1, 2}
  Foreign = 0
  MaxDepth = 2
  MaxSteps = 4
  MaxRequests = 4
INVARIANTS StopMatchesCommand StopIsAnswerable DepthIsReal BreakpointsInForce
PROPERTIES NoStopIsMissed Responsive
CHECK_DEADLOCK FALSE
