SPECIFICATION Spec
CONSTANTS
  Threads = {t1, t2}
  Idx = {i1, i2, i3}
  Nil = Nil
  MaxEntries = 5
  Shapes = {"f", "g", "t", "a", "b", "c"}
  Refs <- MCRefs
  Super <- MCSuper
  Trampoline <- MCTrampoline
  Programs <- MCPrograms
SYMMETRY Symmetry
INVARIANTS RefCounts AssertsHold HandlesResolve Canonical
PROPERTY DrainTerminates
