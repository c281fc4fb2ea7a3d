SPECIFICATION Spec
CONSTANTS
  NumPages = 4
  Images = {"a", "b", "c"}
  Extent <- ThreeExtents
  MinSize <- ThreeMinSizes
  KeepResident = 2
  None = None
INVARIANTS FreshMemory GuardPages CleanInPool
