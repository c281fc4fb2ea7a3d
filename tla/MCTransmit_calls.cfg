SPECIFICATION FairSpec
CONSTANTS
  MaxCount = 3
  MaxItems = 5
  CancelOnce = TRUE
  LiftWhole = TRUE
INVARIANTS NoBug Lossless BusyExact NoStall Reclaimed
PROPERTIES ImplementsChannel CallsEnd
CHECK_DEADLOCK FALSE
