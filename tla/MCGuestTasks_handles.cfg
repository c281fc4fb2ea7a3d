SPECIFICATION Spec
CONSTANTS
  t1 = t1
  t2 = t2
  Tasks <- MCTasks
  Scenarios <- MCScenarios
INVARIANT HandlesLive
CHECK_DEADLOCK FALSE
