SPECIFICATION FairSpec
CONSTANTS
  t1 = t1
  t2 = t2
  Tasks <- MCTasks
  Scenarios <- MCScenarios
INVARIANTS NoBug Admission StatusesOnce Placed NoneForgotten Reclaimed
PROPERTIES CallsReturn
CHECK_DEADLOCK FALSE
