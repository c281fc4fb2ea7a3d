SPECIFICATION Spec
CONSTANTS
  MaxCount = 2
  MaxItems = 3
  CancelOnce = TRUE
  LiftWhole = FALSE
INVARIANT NoBug
CHECK_DEADLOCK FALSE
