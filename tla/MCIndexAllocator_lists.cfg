SPECIFICATION Spec
CONSTANTS
  Capacity = 4
  Memories = {m1, m2}
  WarmLimits = {0, 2}
  Resident = {0, 1}
  None = None
SYMMETRY Symmetry
INVARIANTS ListsExact FootprintBounded
PROPERTY ImplementsQueue
