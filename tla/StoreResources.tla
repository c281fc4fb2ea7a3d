---------------------------- MODULE StoreResources ----------------------------
(***************************************************************************)
(* What stores take from an engine's pooling allocator and give back:      *)
(* instances with their memories and tables (allocate_module and           *)
(* deallocate_module of runtime/vm/instance/allocator.rs), and GC heaps    *)
(* with the memory behind them (allocate_gc_store of runtime/store.rs,     *)
(* gc_heap_pool.rs).  Stores run concurrently; a store does one thing at a *)
(* time.  A single memory or table is obtained or returned in one step:    *)
(* PoolingAllocator has the details.                                       *)
(***************************************************************************)
EXTENDS Integers, FiniteSets

CONSTANTS
  Stores,
  Instances,            \* identities for InstanceHandles, reused
  MemorySlots, TableSlots, HeapSlots,
  NumMemories, NumTables,  \* defined by the module that is instantiated
  TotalCoreInstances,   \* limits.total_core_instances
  Faults,               \* where the host may be out of memory
  None

ASSUME StoreResourcesAssumption ==
  /\ NumMemories \in Nat /\ NumTables \in Nat /\ TotalCoreInstances \in Nat
  /\ Faults \subseteq {"guard", "new", "heap"}
  /\ IsFiniteSet(Instances)
  /\ IsFiniteSet(MemorySlots) /\ IsFiniteSet(TableSlots) /\ IsFiniteSet(HeapSlots)
  /\ None \notin MemorySlots \cup HeapSlots \cup Instances \cup Stores

VARIABLES
  live_core_instances, live_memories, live_tables, live_gc_heaps,
  memories, tables, gc_heaps,  \* slots in use in the three index allocators
  heaps,      \* HeapSlot: whether a heap exists, and the memory it is in use with
  status, owned_memories, owned_tables,  \* of every instance
  store,      \* the store of an instance
  gc_store,   \* the GC heap and memory of a store
  pc, cur,    \* what a store does, and with which instance
  lost        \* history: what was taken and is held by nobody any more

counters == <<live_core_instances, live_memories, live_tables, live_gc_heaps>>
pools == <<memories, tables, gc_heaps, heaps>>
instances == <<status, owned_memories, owned_tables, store>>
vars == <<counters, pools, instances, gc_store, pc, cur, lost>>

NoHeap == [heap |-> None, memory |-> None]

Init ==
  /\ live_core_instances = 0 /\ live_memories = 0 /\ live_tables = 0 /\ live_gc_heaps = 0
  /\ memories = {} /\ tables = {} /\ gc_heaps = {}
  /\ heaps = [h \in HeapSlots |-> [made |-> FALSE, in_use |-> None]]
  /\ status = [i \in Instances |-> "none"]
  /\ owned_memories = [i \in Instances |-> {}] /\ owned_tables = [i \in Instances |-> {}]
  /\ store = [i \in Instances |-> None]
  /\ gc_store = [t \in Stores |-> NoHeap]
  /\ pc = [t \in Stores |-> "idle"] /\ cur = [t \in Stores |-> None]
  /\ lost = [instances |-> 0, memories |-> {}, tables |-> {}, gc_heaps |-> {}]

Goto(t, from, to) == pc[t] = from /\ pc' = [pc EXCEPT ![t] = to]

-----------------------------------------------------------------------------
(* allocate_module *)

\* Mutant: the limit itself is still admitted.
IncrementAtLimit(t) ==
  \E i \in Instances :
    /\ status[i] = "none"
    /\ live_core_instances' = live_core_instances + 1
    /\ status' = [status EXCEPT ![i] = IF live_core_instances > TotalCoreInstances
                                       THEN "refused" ELSE "building"]
    /\ Goto(t, "idle", IF live_core_instances > TotalCoreInstances THEN "refused" ELSE "guard")
    /\ store' = [store EXCEPT ![i] = t]
    /\ cur' = [cur EXCEPT ![t] = i]
    /\ UNCHANGED <<live_memories, live_tables, live_gc_heaps, pools, owned_memories, owned_tables, gc_store>>

\* increment_core_instance_count: count first, then compare.
Increment(t) ==
  \E i \in Instances :
    /\ status[i] = "none"
    /\ live_core_instances' = live_core_instances + 1
    /\ status' = [status EXCEPT ![i] = IF live_core_instances >= TotalCoreInstances
                                       THEN "refused" ELSE "building"]
    /\ Goto(t, "idle", IF live_core_instances >= TotalCoreInstances THEN "refused" ELSE "guard")
    /\ store' = [store EXCEPT ![i] = t]
    /\ cur' = [cur EXCEPT ![t] = i]
    /\ UNCHANGED <<live_memories, live_tables, live_gc_heaps, pools, owned_memories, owned_tables, gc_store>>

\* The identity of instance i can be used again.
Forget(t, i) ==
  /\ status' = [status EXCEPT ![i] = "none"]
  /\ owned_memories' = [owned_memories EXCEPT ![i] = {}]
  /\ owned_tables' = [owned_tables EXCEPT ![i] = {}]
  /\ store' = [store EXCEPT ![i] = None]
  /\ cur' = [cur EXCEPT ![t] = None]

Refused(t) ==
  /\ Goto(t, "refused", "idle")
  /\ live_core_instances' = live_core_instances - 1
  /\ Forget(t, cur[t])
  /\ UNCHANGED <<live_memories, live_tables, live_gc_heaps, pools, gc_store>>

\* The guard DeallocateOnDrop is built from two maps with reserved capacity.
Guard(t) ==
  /\ Goto(t, "guard", "memories")
  /\ UNCHANGED <<counters, pools, instances, gc_store, cur>>

\* Reserving the capacity fails: there is no guard yet that would count down.
GuardFails(t) ==
  /\ "guard" \in Faults
  /\ lost' = [lost EXCEPT !.instances = @ + 1]
  /\ Goto(t, "guard", "idle")
  /\ Forget(t, cur[t])
  /\ UNCHANGED <<counters, pools, gc_store>>

\* allocate_memories: one memory after the other into the guard.
AllocateMemory(t) ==
  LET i == cur[t]
  IN /\ pc[t] = "memories"
     /\ \/ /\ Cardinality(owned_memories[i]) < NumMemories
           /\ \E m \in MemorySlots \ memories :
                /\ memories' = memories \cup {m}
                /\ owned_memories' = [owned_memories EXCEPT ![i] = @ \cup {m}]
           /\ live_memories' = live_memories + 1
           /\ UNCHANGED pc
        \/ /\ Cardinality(owned_memories[i]) = NumMemories
           /\ Goto(t, "memories", "tables")
           /\ UNCHANGED <<memories, owned_memories, live_memories>>
        \/ /\ Cardinality(owned_memories[i]) < NumMemories  \* no slot, or refused by the limiter
           /\ Goto(t, "memories", "unwind")
           /\ UNCHANGED <<memories, owned_memories, live_memories>>
     /\ UNCHANGED <<live_core_instances, live_tables, live_gc_heaps, tables, gc_heaps, heaps,
                    status, owned_tables, store, gc_store, cur>>

\* allocate_tables
AllocateTable(t) ==
  LET i == cur[t]
  IN /\ pc[t] = "tables"
     /\ \/ /\ Cardinality(owned_tables[i]) < NumTables
           /\ \E b \in TableSlots \ tables :
                /\ tables' = tables \cup {b}
                /\ owned_tables' = [owned_tables EXCEPT ![i] = @ \cup {b}]
           /\ live_tables' = live_tables + 1
           /\ UNCHANGED pc
        \/ /\ Cardinality(owned_tables[i]) = NumTables
           /\ Goto(t, "tables", "new")
           /\ UNCHANGED <<tables, owned_tables, live_tables>>
        \/ /\ Cardinality(owned_tables[i]) < NumTables
           /\ Goto(t, "tables", "unwind")
           /\ UNCHANGED <<tables, owned_tables, live_tables>>
     /\ UNCHANGED <<live_core_instances, live_memories, live_gc_heaps, memories, gc_heaps, heaps,
                    status, owned_memories, store, gc_store, cur>>

\* Instance::new succeeds and the store keeps the handle.
New(t) ==
  /\ Goto(t, "new", "idle")
  /\ status' = [status EXCEPT ![cur[t]] = "live"]
  /\ cur' = [cur EXCEPT ![t] = None]
  /\ UNCHANGED <<counters, pools, owned_memories, owned_tables, store, gc_store>>

\* Instance::new is out of memory.  The guard's maps were moved into it and
\* are dropped with it; the guard unwinds with empty maps.
NewFails(t) ==
  LET i == cur[t]
  IN /\ "new" \in Faults
     /\ Goto(t, "new", "unwind")
     /\ owned_memories' = [owned_memories EXCEPT ![i] = {}]
     /\ owned_tables' = [owned_tables EXCEPT ![i] = {}]
     /\ lost' = [lost EXCEPT !.memories = @ \cup owned_memories[i],
                             !.tables = @ \cup owned_tables[i]]
     /\ UNCHANGED <<counters, pools, status, store, gc_store, cur>>

-----------------------------------------------------------------------------
(* deallocate_module, and the guard when it unwinds *)

DeallocateMemories(t) ==
  LET i == cur[t]
  IN /\ pc[t] = "unwind"
     /\ \E m \in owned_memories[i] :
          /\ memories' = memories \ {m}
          /\ live_memories' = live_memories - 1
          /\ owned_memories' = [owned_memories EXCEPT ![i] = @ \ {m}]
     /\ UNCHANGED <<live_core_instances, live_tables, live_gc_heaps, tables, gc_heaps, heaps,
                    status, owned_tables, store, gc_store, pc, cur>>

DeallocateTables(t) ==
  LET i == cur[t]
  IN /\ pc[t] = "unwind" /\ owned_memories[i] = {}
     /\ \E b \in owned_tables[i] :
          /\ tables' = tables \ {b}
          /\ live_tables' = live_tables - 1
          /\ owned_tables' = [owned_tables EXCEPT ![i] = @ \ {b}]
     /\ UNCHANGED <<live_core_instances, live_memories, live_gc_heaps, memories, gc_heaps, heaps,
                    status, owned_memories, store, gc_store, pc, cur>>

\* Mutant: the last step of the guard and of deallocate_module is left out.
KeepCount(t) ==
  LET i == cur[t]
  IN /\ pc[t] = "unwind" /\ owned_memories[i] = {} /\ owned_tables[i] = {}
     /\ Goto(t, "unwind", IF status[i] = "live" THEN "drop" ELSE "idle")
     /\ Forget(t, i)
     /\ UNCHANGED <<counters, pools, gc_store>>

\* decrement_core_instance_count comes last.
Decrement(t) ==
  LET i == cur[t]
  IN /\ pc[t] = "unwind" /\ owned_memories[i] = {} /\ owned_tables[i] = {}
     /\ Goto(t, "unwind", IF status[i] = "live" THEN "drop" ELSE "idle")
     /\ live_core_instances' = live_core_instances - 1
     /\ Forget(t, i)
     /\ UNCHANGED <<live_memories, live_tables, live_gc_heaps, pools, gc_store>>

-----------------------------------------------------------------------------
(* allocate_gc_store *)

\* The memory behind the heap comes first; without it there is nothing to undo.
GcMemory(t) ==
  /\ gc_store[t] = NoHeap
  /\ \E m \in MemorySlots \ memories :
       /\ memories' = memories \cup {m}
       /\ gc_store' = [gc_store EXCEPT ![t].memory = m]
  /\ Goto(t, "idle", "gc_index")
  /\ live_memories' = live_memories + 1
  /\ UNCHANGED <<live_core_instances, live_tables, live_gc_heaps, tables, gc_heaps, heaps, instances, cur>>

\* GcHeapPool::allocate takes an index ...
GcIndex(t) ==
  /\ \E h \in HeapSlots \ gc_heaps :
       /\ gc_heaps' = gc_heaps \cup {h}
       /\ gc_store' = [gc_store EXCEPT ![t].heap = h]
  /\ Goto(t, "gc_index", "gc_slot")
  /\ UNCHANGED <<counters, memories, tables, heaps, instances, cur>>

\* ... or fails at the limit, and the memory is dropped with the error.
GcLimit(t) ==
  /\ HeapSlots \subseteq gc_heaps
  /\ Goto(t, "gc_index", "idle")
  /\ gc_store' = [gc_store EXCEPT ![t] = NoHeap]
  /\ lost' = [lost EXCEPT !.memories = @ \cup {gc_store[t].memory}]
  /\ UNCHANGED <<counters, pools, instances, cur>>

\* HeapSlot::alloc, under the mutex: the heap of the slot, or a new one.
GcSlot(t) ==
  LET h == gc_store[t].heap
  IN /\ Goto(t, "gc_slot", IF heaps[h].made THEN "gc_count" ELSE "gc_new")
     /\ heaps' = [heaps EXCEPT ![h] = [made |-> FALSE, in_use |-> gc_store[t].memory]]
     /\ UNCHANGED <<counters, memories, tables, gc_heaps, instances, gc_store, cur>>

\* new_gc_heap
GcNew(t) ==
  /\ Goto(t, "gc_new", "gc_count")
  /\ UNCHANGED <<counters, pools, instances, gc_store, cur>>

\* new_gc_heap is out of memory: index, slot and memory stay taken.
GcNewFails(t) ==
  /\ "heap" \in Faults
  /\ Goto(t, "gc_new", "idle")
  /\ gc_store' = [gc_store EXCEPT ![t] = NoHeap]
  /\ lost' = [lost EXCEPT !.memories = @ \cup {gc_store[t].memory},
                          !.gc_heaps = @ \cup {gc_store[t].heap}]
  /\ UNCHANGED <<counters, pools, instances, cur>>

GcCount(t) ==
  /\ Goto(t, "gc_count", "idle")
  /\ live_gc_heaps' = live_gc_heaps + 1
  /\ UNCHANGED <<live_core_instances, live_memories, live_tables, pools, instances, gc_store, cur>>

-----------------------------------------------------------------------------
(* Drop for StoreOpaque *)

DropStore(t) ==
  /\ gc_store[t] # NoHeap \/ \E i \in Instances : store[i] = t
  /\ Goto(t, "idle", IF gc_store[t] = NoHeap THEN "drop" ELSE "drop_heap")
  /\ UNCHANGED <<counters, pools, instances, gc_store, cur>>

\* Mutant: the memory's slot is freed before the store has let go of it.
DropHeapAndMemory(t) ==
  LET h == gc_store[t].heap
  IN \/ /\ Goto(t, "drop_heap", "drop_index")
        /\ live_gc_heaps' = live_gc_heaps - 1
        /\ heaps' = [heaps EXCEPT ![h] = [made |-> TRUE, in_use |-> None]]
        /\ memories' = memories \ {gc_store[t].memory}
        /\ UNCHANGED <<live_core_instances, live_memories, live_tables, tables, gc_heaps,
                       instances, gc_store, cur>>
     \/ /\ Goto(t, "drop_index", "drop_memory")
        /\ gc_heaps' = gc_heaps \ {h}
        /\ UNCHANGED <<counters, memories, tables, heaps, instances, gc_store, cur>>

\* deallocate_gc_heap: the heap goes back into its slot, then the index is freed.
DropHeap(t) ==
  LET h == gc_store[t].heap
  IN \/ /\ Goto(t, "drop_heap", "drop_index")
        /\ live_gc_heaps' = live_gc_heaps - 1
        /\ heaps' = [heaps EXCEPT ![h] = [made |-> TRUE, in_use |-> None]]
        /\ UNCHANGED <<live_core_instances, live_memories, live_tables, memories, tables, gc_heaps,
                       instances, gc_store, cur>>
     \/ /\ Goto(t, "drop_index", "drop_memory")
        /\ gc_heaps' = gc_heaps \ {h}
        /\ UNCHANGED <<counters, memories, tables, heaps, instances, gc_store, cur>>

\* The memory that the heap's slot named is deallocated.
DropMemory(t) ==
  /\ Goto(t, "drop_memory", "drop")
  /\ memories' = memories \ {gc_store[t].memory}
  /\ live_memories' = live_memories - 1
  /\ gc_store' = [gc_store EXCEPT ![t] = NoHeap]
  /\ UNCHANGED <<live_core_instances, live_tables, live_gc_heaps, tables, gc_heaps, heaps, instances, cur>>

\* Then every instance; the store is gone, and another may take its place.
DropInstance(t) ==
  /\ \/ \E i \in Instances :
          /\ store[i] = t
          /\ Goto(t, "drop", "unwind")
          /\ cur' = [cur EXCEPT ![t] = i]
     \/ /\ \A i \in Instances : store[i] # t
        /\ Goto(t, "drop", "idle")
        /\ UNCHANGED cur
  /\ UNCHANGED <<counters, pools, instances, gc_store>>

-----------------------------------------------------------------------------

\* Steps that give back what they take, or pass it on.
Step(t) ==
  \/ Increment(t) \/ Refused(t) \/ Guard(t)
  \/ AllocateMemory(t) \/ AllocateTable(t) \/ New(t)
  \/ DeallocateMemories(t) \/ DeallocateTables(t) \/ Decrement(t)
  \/ GcMemory(t) \/ GcIndex(t) \/ GcSlot(t) \/ GcNew(t) \/ GcCount(t)
  \/ DropStore(t) \/ DropHeap(t) \/ DropMemory(t) \/ DropInstance(t)

\* Early returns that do not.
Leak(t) == GuardFails(t) \/ NewFails(t) \/ GcLimit(t) \/ GcNewFails(t)

Next == \E t \in Stores : (Step(t) /\ UNCHANGED lost) \/ Leak(t)

Spec == Init /\ [][Next]_vars

-----------------------------------------------------------------------------
(* Properties *)

TypeOK ==
  /\ live_core_instances \in Nat
  /\ live_memories \in 0 .. Cardinality(MemorySlots)
  /\ live_tables \in 0 .. Cardinality(TableSlots)
  /\ live_gc_heaps \in 0 .. Cardinality(HeapSlots)
  /\ memories \subseteq MemorySlots /\ tables \subseteq TableSlots /\ gc_heaps \subseteq HeapSlots
  /\ heaps \in [HeapSlots -> [made : BOOLEAN, in_use : MemorySlots \cup {None}]]
  /\ status \in [Instances -> {"none", "refused", "building", "live"}]
  /\ store \in [Instances -> Stores \cup {None}] /\ cur \in [Stores -> Instances \cup {None}]
  /\ gc_store \in [Stores -> [heap : HeapSlots \cup {None}, memory : MemorySlots \cup {None}]]
  /\ lost \in [instances : Nat, memories : SUBSET MemorySlots, tables : SUBSET TableSlots,
               gc_heaps : SUBSET HeapSlots]

\* Instances that were admitted, live or on the way.
Admitted == {i \in Instances : status[i] \in {"building", "live"}}

\* However many threads overshoot the counter at once, and whatever was leaked,
\* the instances that exist never exceed total_core_instances.
WithinLimit == Cardinality(Admitted) <= TotalCoreInstances

\* The memories that stores hold, each with its holder.
Holdings ==
  {x \in Instances \X MemorySlots : x[2] \in owned_memories[x[1]]}
    \cup {x \in Stores \X MemorySlots : gc_store[x[1]].memory = x[2]}

\* HeapSlot::alloc and dealloc do not panic, and a dropped store gets back the
\* memory it gave: a slot whose index is free, or was just taken, is Free, and
\* the slot of a store's heap names the store's own memory.
HeapSlotsAgree ==
  /\ \A h \in HeapSlots \ gc_heaps : heaps[h].in_use = None
  /\ \A t \in Stores :
       /\ pc[t] = "gc_slot" => heaps[gc_store[t].heap].in_use = None
       /\ gc_store[t].heap # None /\ pc[t] \notin {"gc_slot", "drop_index", "drop_memory"} =>
            heaps[gc_store[t].heap].in_use = gc_store[t].memory

\* A memory slot is in use for one instance or one GC heap at a time, and a
\* slot that somebody holds is not free; nor does a heap's slot name another's memory.
MemoriesDisjoint ==
  /\ HeapSlotsAgree
  /\ \A x, y \in Holdings : x[2] = y[2] => x = y
  /\ \A x \in Holdings : x[2] \in memories

\* Whatever fails in between, a count or a slot that was taken is held by an
\* instance or a store, or was given up by one of the early returns of Leak:
\* the guard of allocate_module, deallocate_module and the drop of a store
\* give back everything, once.
Conserved ==
  LET owned  == {x[2] : x \in Holdings}
      owned_heaps == {gc_store[t].heap : t \in {u \in Stores : pc[u] # "drop_memory"}} \ {None}
      counted_heaps == {t \in Stores : gc_store[t].heap # None
                           /\ pc[t] \notin {"gc_slot", "gc_new", "gc_count", "drop_index", "drop_memory"}}
  IN /\ TypeOK
     /\ live_core_instances = Cardinality({i \in Instances : status[i] # "none"}) + lost.instances
     /\ memories = owned \cup lost.memories /\ owned \cap lost.memories = {}
     /\ live_memories = Cardinality(memories)
     /\ tables = (UNION {owned_tables[i] : i \in Instances}) \cup lost.tables
     /\ live_tables = Cardinality(tables)
     /\ gc_heaps = owned_heaps \cup lost.gc_heaps
     /\ live_gc_heaps = Cardinality(counted_heaps)

\* What Drop for PoolingInstanceAllocator asserts: once every store is gone, all
\* counters are zero and all pools are empty.
ReleasedAtDrop ==
  (\A t \in Stores : pc[t] = "idle" /\ gc_store[t] = NoHeap)
    /\ (\A i \in Instances : status[i] = "none") =>
    /\ counters = <<0, 0, 0, 0>>
    /\ memories = {} /\ tables = {} /\ gc_heaps = {}
=============================================================================
