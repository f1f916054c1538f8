SPECIFICATION Spec
CONSTANTS
  MaxTasks = 3
  MaxMap = 2
INVARIANTS DrainComplete UniqueTasks NeverStuck
PROPERTIES ResultsAreFinal ImplementsFutures DrainReturns
CHECK_DEADLOCK FALSE
