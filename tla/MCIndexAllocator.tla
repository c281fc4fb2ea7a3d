--------------------------- MODULE MCIndexAllocator ---------------------------
(* IndexAllocator on a few slots, and the queue that it implements. *)
EXTENDS IndexAllocator, TLC

\* Walking a list from its head: the slot after n steps.
Walk(list, link) ==
  LET at[n \in 0 .. Capacity] ==
        IF n = 0 THEN list.head
        ELSE IF at[n - 1] = None THEN None ELSE link[at[n - 1]].next
  IN at

\* The warm list, from its head.
WarmOrder ==
  LET at == Walk(warm, unused_list_link)
  IN [i \in 1 .. Cardinality(WarmSlots) |-> at[i - 1]]

Queue == INSTANCE SlotQueue WITH freed <- WarmOrder

\* The intrusive lists implement the documented policy: an allocation takes the
\* most recently freed slot of its own memory, else, depending on the number of
\* warm slots, the least recently freed slot or the next one never used; a slot
\* that is freed becomes the most recent one, and the bytes reported resident are
\* those of the queue.
ImplementsQueue == Queue!Spec

Symmetry == Permutations(Memories)
=============================================================================
