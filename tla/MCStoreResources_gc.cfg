SPECIFICATION Spec
CONSTANTS
  Stores = {s1, s2}
  Instances = {i1}
  MemorySlots = {m1, m2}
  TableSlots = {b1}
  HeapSlots = {h1}
  NumMemories = 1
  NumTables = 1
  TotalCoreInstances = 2
  Faults = {}
  None = None
SYMMETRY Symmetry
INVARIANTS ReleasedAtDrop
