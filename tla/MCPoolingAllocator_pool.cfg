SPECIFICATION FairSpec
CONSTANTS
  Threads = {t1, t2}
  m1 = m1
  m2 = m2
  b1 = b1
  b2 = b2
  s1 = s1
  MemorySlots <- MCMemorySlots
  TableSlots <- MCTableSlots
  StackSlots <- MCStackSlots
  Modules = {mod}
  Configs <- MCConfigs
  None = None
INVARIANTS OneOwner BuiltOnClean ImageSlots LimitMeansFull PurgeComplete
PROPERTY CallsReturn
