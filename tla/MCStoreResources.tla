--------------------------- MODULE MCStoreResources ---------------------------
(* StoreResources with two or three stores. *)
EXTENDS StoreResources, TLC

Symmetry == Permutations(Stores) \cup Permutations(Instances) \cup Permutations(MemorySlots)
              \cup Permutations(TableSlots) \cup Permutations(HeapSlots)
=============================================================================
