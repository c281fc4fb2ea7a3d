CONSTANTS
  Threads = {t1, t2, t3}
  Addrs = {a1, a2}
  Values = {0}
  Nil = Nil
  MaxN = 2
  MaxCalls = 1
  MaxSpurious = 1
SPECIFICATION FairSpec
PROPERTIES ImplementsWaitQueues CallsReturn
CHECK_DEADLOCK FALSE
