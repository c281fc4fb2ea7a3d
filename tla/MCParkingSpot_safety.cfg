CONSTANTS
  Threads = {t1, t2, t3}
  Addrs = {a1}
  Values = {0, 1}
  Nil = Nil
  MaxN = 2
  MaxCalls = 2
  MaxSpurious = 1
SPECIFICATION Spec
SYMMETRY ThreadSymmetry
INVARIANTS AssertsHold ListInv NotifyResults
PROPERTY NoLostWakeup
CHECK_DEADLOCK FALSE
