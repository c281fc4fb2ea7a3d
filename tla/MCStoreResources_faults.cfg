SPECIFICATION Spec
CONSTANTS
  Stores = {s1, s2, s3}
  Instances = {i1, i2, i3}
  MemorySlots = {m1, m2, m3}
  TableSlots = {b1, b2}
  HeapSlots = {h1, h2}
  NumMemories = 1
  NumTables = 1
  TotalCoreInstances = 2
  Faults = {"guard", "new", "heap"}
  None = None
SYMMETRY Symmetry
INVARIANTS WithinLimit MemoriesDisjoint Conserved
