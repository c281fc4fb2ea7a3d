-------------------------- MODULE MCPoolingAllocator --------------------------
(* PoolingAllocator with a few slots of each kind. *)
EXTENDS PoolingAllocator

CONSTANTS m1, m2, b1, b2, s1

MCMemorySlots == {m1, m2}
MCTableSlots  == {b1, b2}
MCStackSlots  == {s1}

Config(ss, batch) == [slots |-> ss, batch_size |-> batch, zeroing |-> TRUE]

\* Batches that mix two kinds, and no queue with affinity to choose between two slots.
MCConfigs ==
  {Config({m1, b1}, 2), Config({b1, s1}, 2), Config({b1, b2}, 2), Config({m1, m2}, 1)}
=============================================================================
