-------------------------- MODULE StoreMemoriesProofs --------------------------
(***************************************************************************)
(* Stores that create and drop instances and GC heaps at once never share  *)
(* a memory slot, for any number of stores, instances and slots and        *)
(* wherever the host runs out of memory.                                   *)
(*                                                                         *)
(* MemoriesDisjoint is not inductive.  A store that drops its heap keeps   *)
(* naming the heap's index after it has freed it (pc = "drop_memory"), so  *)
(* two stores may name one index for a while.  The invariant says when:    *)
(* every index a store names is taken until then, and the slot of an index *)
(* that is about to be freed is already Free.                              *)
(***************************************************************************)
EXTENDS StoreResourcesProofs

\* Where a store has the index of a heap in any case.
WithHeap == {"gc_slot", "gc_new", "gc_count", "drop_heap", "drop_index", "drop_memory"}

\* Where it may have one and does nothing with it.
Quiet == {"idle", "refused", "unwind", "drop"} \cup Building

SlotTypes ==
  /\ memories \subseteq MemorySlots /\ gc_heaps \subseteq HeapSlots
  /\ heaps \in [HeapSlots -> [made : BOOLEAN, in_use : MemorySlots \cup {None}]]
  /\ owned_memories \in [Instances -> SUBSET MemorySlots]
  /\ gc_store \in [Stores -> [heap : HeapSlots \cup {None}, memory : MemorySlots \cup {None}]]

\* What store t has of a GC heap agrees with where it is.
GcStore(t) ==
  /\ gc_store[t].memory = None => gc_store[t].heap = None
  /\ gc_store[t].heap = None => gc_store[t].memory = None \/ pc[t] = "gc_index"
  /\ pc[t] = "gc_index" => gc_store[t].heap = None /\ gc_store[t].memory # None
  /\ pc[t] \in WithHeap => gc_store[t].heap # None
  /\ gc_store[t].heap # None /\ pc[t] # "drop_memory" => gc_store[t].heap \in gc_heaps
  /\ pc[t] = "drop_index" => heaps[gc_store[t].heap].in_use = None

GcStores == \A t \in Stores : GcStore(t)

\* Two stores name one heap only while one of them has already freed it.
OneHeap ==
  \A t, u \in Stores :
    t # u /\ gc_store[t].heap # None /\ gc_store[t].heap = gc_store[u].heap =>
      pc[t] = "drop_memory" \/ pc[u] = "drop_memory"

\* Memories that are held are taken, and by one holder.
InstancesHold ==
  \A i \in Instances :
    /\ owned_memories[i] \subseteq memories
    /\ \A j \in Instances \ {i} : owned_memories[i] \cap owned_memories[j] = {}

StoresHold ==
  \A t \in Stores : gc_store[t].memory # None =>
    /\ gc_store[t].memory \in memories
    /\ \A u \in Stores \ {t} : gc_store[u].memory # gc_store[t].memory
    /\ \A i \in Instances : gc_store[t].memory \notin owned_memories[i]

\* The inductive invariant.
SlotInv ==
  /\ CountInv
  /\ SlotTypes
  /\ GcStores /\ OneHeap /\ HeapSlotsAgree
  /\ InstancesHold /\ StoresHold

-----------------------------------------------------------------------------

\* Init: nobody holds anything.
LEMMA InitSlots == Init => SlotInv
<1> SUFFICES ASSUME Init PROVE SlotInv
  OBVIOUS
<1>1. CountInv
  BY InitCount
<1> USE DEF Init, NoHeap
<1>2. SlotTypes
  BY DEF SlotTypes
<1>3. GcStores /\ OneHeap
  BY DEF GcStores, GcStore, OneHeap, WithHeap
<1>4. HeapSlotsAgree
  BY DEF HeapSlotsAgree
<1>5. InstancesHold /\ StoresHold
  BY DEF InstancesHold, StoresHold
<1> QED
  BY <1>1, <1>2, <1>3, <1>4, <1>5 DEF SlotInv

\* Giving up memories of instances, and moving on where no heap is at stake.
LEMMA QuietStep ==
  ASSUME SlotInv, CountInv', NEW t \in Stores,
         UNCHANGED <<memories, gc_heaps, heaps, gc_store>>,
         owned_memories' \in [Instances -> SUBSET MemorySlots],
         \A i \in Instances : owned_memories'[i] \subseteq owned_memories[i],
         \A u \in Stores \ {t} : pc'[u] = pc[u],
         \/ pc[t] \in Quiet /\ pc'[t] \in Quiet
         \/ pc[t] = "idle" /\ pc'[t] = "drop_heap" /\ gc_store[t] # NoHeap
         \/ pc[t] = "gc_new" /\ pc'[t] = "gc_count"
         \/ pc[t] = "gc_count" /\ pc'[t] = "idle"
  PROVE  SlotInv'
<1> USE DEF SlotInv
<1>1. SlotTypes'
  BY DEF SlotTypes
<1>2. GcStores'
  <2> SUFFICES ASSUME NEW u \in Stores PROVE GcStore(u)'
    BY DEF GcStores
  <2>0. GcStore(u)
    BY DEF GcStores
  <2>1. CASE u # t
    BY <2>0, <2>1 DEF GcStore
  <2>2. CASE u = t /\ gc_store[t] # NoHeap /\ pc[t] = "idle" /\ pc'[t] = "drop_heap"
    <3>1. gc_store[t].heap # None \/ gc_store[t].memory # None
      BY <2>2 DEF SlotTypes, NoHeap
    <3> QED
      BY <2>0, <2>2, <3>1 DEF GcStore, WithHeap
  <2>3. CASE u = t /\ ~(pc[t] = "idle" /\ pc'[t] = "drop_heap")
    BY <2>0, <2>3 DEF GcStore, WithHeap, Quiet, Building
  <2> QED
    BY <2>1, <2>2, <2>3 DEF Quiet, Building
<1>3. pc[t] # "drop_memory" /\ pc'[t] # "drop_memory" /\ pc'[t] # "gc_slot"
      /\ pc[t] \notin {"gc_slot", "drop_index", "drop_memory"}
  BY DEF Quiet, Building
<1>4. OneHeap'
  BY <1>3 DEF OneHeap
<1>5. HeapSlotsAgree'
  BY <1>3 DEF HeapSlotsAgree
<1>6. InstancesHold'
  BY DEF InstancesHold
<1>7. StoresHold'
  BY DEF StoresHold
<1> QED
  BY <1>1, <1>2, <1>4, <1>5, <1>6, <1>7

\* allocate_memories takes a free slot for the store's current instance.
LEMMA TakeMemory ==
  ASSUME SlotInv, CountInv', NEW i \in Instances, NEW m \in MemorySlots \ memories,
         memories' = memories \cup {m},
         owned_memories' = [owned_memories EXCEPT ![i] = @ \cup {m}],
         UNCHANGED <<gc_heaps, heaps, gc_store, pc>>
  PROVE  SlotInv'
<1> USE DEF SlotInv
<1>1. SlotTypes'
  BY DEF SlotTypes
<1>2. GcStores' /\ OneHeap' /\ HeapSlotsAgree'
  BY DEF GcStores, GcStore, OneHeap, HeapSlotsAgree
<1>3. /\ owned_memories'[i] = owned_memories[i] \cup {m}
      /\ \A j \in Instances \ {i} : owned_memories'[j] = owned_memories[j]
  BY DEF SlotTypes
<1>4. InstancesHold'
  BY <1>3 DEF InstancesHold
<1>5. StoresHold'
  BY <1>3 DEF StoresHold
<1> QED
  BY <1>1, <1>2, <1>4, <1>5

\* deallocate_memories: nobody else holds what the instance gives back.
LEMMA ReturnMemory ==
  ASSUME SlotInv, CountInv', NEW i \in Instances, NEW m \in owned_memories[i],
         memories' = memories \ {m},
         owned_memories' = [owned_memories EXCEPT ![i] = @ \ {m}],
         UNCHANGED <<gc_heaps, heaps, gc_store, pc>>
  PROVE  SlotInv'
<1> USE DEF SlotInv
<1>1. SlotTypes'
  BY DEF SlotTypes
<1>2. GcStores' /\ OneHeap' /\ HeapSlotsAgree'
  BY DEF GcStores, GcStore, OneHeap, HeapSlotsAgree
<1>3. /\ owned_memories'[i] = owned_memories[i] \ {m}
      /\ \A j \in Instances \ {i} : owned_memories'[j] = owned_memories[j]
  BY DEF SlotTypes
<1>4. InstancesHold'
  BY <1>3 DEF InstancesHold
<1>5. StoresHold'
  BY <1>3 DEF StoresHold
<1> QED
  BY <1>1, <1>2, <1>4, <1>5

-----------------------------------------------------------------------------
(* GC heaps *)

\* allocate_gc_store takes a free slot for the memory behind the heap.
LEMMA GcTakesMemory ==
  ASSUME SlotInv, CountInv', NEW t \in Stores, GcMemory(t)
  PROVE  SlotInv'
<1> USE DEF SlotInv
<1>0. PICK m \in MemorySlots \ memories :
        memories' = memories \cup {m} /\ gc_store' = [gc_store EXCEPT ![t].memory = m]
  BY DEF GcMemory
<1>1. /\ gc_store[t].heap = None /\ gc_store[t].memory = None
      /\ pc[t] = "idle" /\ pc'[t] = "gc_index" /\ \A u \in Stores \ {t} : pc'[u] = pc[u]
      /\ UNCHANGED <<gc_heaps, heaps, owned_memories>>
  BY DEF GcMemory, Goto, NoHeap, CountInv, CountTypes, instances
<1>2. /\ gc_store'[t] = [heap |-> None, memory |-> m]
      /\ \A u \in Stores \ {t} : gc_store'[u] = gc_store[u]
  BY <1>0, <1>1 DEF SlotTypes
<1>3. m # None
  BY StoreResourcesAssumption DEF StoreResourcesAssumption
<1>4. SlotTypes'
  BY <1>0, <1>1 DEF SlotTypes
<1>5. GcStores'
  BY <1>1, <1>2, <1>3 DEF GcStores, GcStore, WithHeap
<1>6. OneHeap'
  BY <1>1, <1>2 DEF OneHeap
<1>7. HeapSlotsAgree'
  BY <1>1, <1>2 DEF HeapSlotsAgree
<1>8. InstancesHold'
  BY <1>0, <1>1 DEF InstancesHold
<1>9. StoresHold'
  <2> SUFFICES ASSUME NEW u \in Stores, gc_store'[u].memory # None
               PROVE  /\ gc_store'[u].memory \in memories'
                      /\ \A v \in Stores \ {u} : gc_store'[v].memory # gc_store'[u].memory
                      /\ \A i \in Instances : gc_store'[u].memory \notin owned_memories'[i]
    BY DEF StoresHold
  <2>1. CASE u = t
    <3>1. \A v \in Stores \ {t} : gc_store[v].memory # m
      BY <1>3 DEF StoresHold
    <3>2. \A i \in Instances : m \notin owned_memories[i]
      BY DEF InstancesHold
    <3> QED
      BY <1>0, <1>1, <1>2, <2>1, <3>1, <3>2
  <2>2. CASE u # t
    BY <1>0, <1>1, <1>2, <2>2 DEF StoresHold
  <2> QED
    BY <2>1, <2>2
<1> QED
  BY <1>4, <1>5, <1>6, <1>7, <1>8, <1>9

\* GcHeapPool::allocate: the slot of an index that was free is Free, and a store
\* that still names it has freed it.
LEMMA GcTakesIndex ==
  ASSUME SlotInv, CountInv', NEW t \in Stores, GcIndex(t)
  PROVE  SlotInv'
<1> USE DEF SlotInv
<1>0. PICK h \in HeapSlots \ gc_heaps :
        gc_heaps' = gc_heaps \cup {h} /\ gc_store' = [gc_store EXCEPT ![t].heap = h]
  BY DEF GcIndex
<1>1. /\ pc[t] = "gc_index" /\ pc'[t] = "gc_slot" /\ \A u \in Stores \ {t} : pc'[u] = pc[u]
      /\ UNCHANGED <<memories, heaps, owned_memories>>
  BY DEF GcIndex, Goto, CountInv, CountTypes, instances
<1>2. gc_store[t].memory # None
  BY <1>1 DEF GcStores, GcStore
<1>3. /\ gc_store'[t].heap = h /\ gc_store'[t].memory = gc_store[t].memory
      /\ \A u \in Stores \ {t} : gc_store'[u] = gc_store[u]
  BY <1>0 DEF SlotTypes
<1>4. h # None
  BY StoreResourcesAssumption DEF StoreResourcesAssumption
<1>5. SlotTypes'
  BY <1>0, <1>1 DEF SlotTypes
<1>6. GcStores'
  <2> SUFFICES ASSUME NEW u \in Stores PROVE GcStore(u)'
    BY DEF GcStores
  <2>1. CASE u = t
    BY <1>0, <1>1, <1>2, <1>3, <1>4, <2>1 DEF GcStore, WithHeap
  <2>2. CASE u # t
    BY <1>0, <1>1, <1>3, <2>2 DEF GcStores, GcStore
  <2> QED
    BY <2>1, <2>2
<1>7. \A u \in Stores \ {t} : gc_store[u].heap = h => pc[u] = "drop_memory"
  BY <1>4 DEF GcStores, GcStore
<1>8. OneHeap'
  BY <1>1, <1>3, <1>7 DEF OneHeap
<1>9. HeapSlotsAgree'
  BY <1>0, <1>1, <1>3 DEF HeapSlotsAgree
<1>10. InstancesHold'
  BY <1>1 DEF InstancesHold
<1>11. StoresHold'
  BY <1>1, <1>3 DEF StoresHold
<1> QED
  BY <1>5, <1>6, <1>8, <1>9, <1>10, <1>11

\* HeapSlot::alloc and HeapSlot::dealloc write the slot of a heap that no other
\* store uses.
LEMMA GcWritesSlot ==
  ASSUME SlotInv, CountInv', NEW t \in Stores, NEW made \in BOOLEAN,
         NEW used \in MemorySlots \cup {None},
         heaps' = [heaps EXCEPT ![gc_store[t].heap] = [made |-> made, in_use |-> used]],
         UNCHANGED <<memories, gc_heaps, owned_memories, gc_store>>,
         \A u \in Stores \ {t} : pc'[u] = pc[u],
         \/ pc[t] = "gc_slot" /\ pc'[t] \in {"gc_new", "gc_count"} /\ used = gc_store[t].memory
         \/ pc[t] = "drop_heap" /\ pc'[t] = "drop_index" /\ used = None
  PROVE  SlotInv'
<1> USE DEF SlotInv
<1> DEFINE h == gc_store[t].heap
<1>1. h \in HeapSlots /\ h # None /\ h \in gc_heaps
  BY DEF GcStores, GcStore, WithHeap, SlotTypes
<1>2. heaps'[h].in_use = used /\ \A g \in HeapSlots \ {h} : heaps'[g] = heaps[g]
  BY <1>1 DEF SlotTypes
<1>3. \A u \in Stores \ {t} : gc_store[u].heap = h => pc[u] = "drop_memory"
  BY <1>1 DEF OneHeap
<1>4. SlotTypes'
  BY DEF SlotTypes
<1>5. GcStores'
  <2> SUFFICES ASSUME NEW u \in Stores PROVE GcStore(u)'
    BY DEF GcStores
  <2>0. GcStore(u)
    BY DEF GcStores
  <2>1. CASE u = t
    BY <1>1, <1>2, <2>0, <2>1 DEF GcStore, WithHeap
  <2>2. CASE u # t
    <3>1. ASSUME pc[u] = "drop_index" PROVE heaps'[gc_store[u].heap].in_use = None
      <4>1. gc_store[u].heap \in HeapSlots \ {h}
        BY <1>3, <2>0, <2>2, <3>1 DEF GcStore, WithHeap, SlotTypes
      <4> QED
        BY <1>2, <2>0, <3>1, <4>1 DEF GcStore
    <3> QED
      BY <2>0, <2>2, <3>1 DEF GcStore
  <2> QED
    BY <2>1, <2>2
<1>6. OneHeap'
  BY DEF OneHeap
<1>7. HeapSlotsAgree'
  <2>1. \A g \in HeapSlots \ gc_heaps : heaps'[g].in_use = None
    BY <1>1, <1>2 DEF HeapSlotsAgree
  <2>2. ASSUME NEW u \in Stores
        PROVE  /\ pc'[u] = "gc_slot" => heaps'[gc_store[u].heap].in_use = None
               /\ gc_store[u].heap # None /\ pc'[u] \notin {"gc_slot", "drop_index", "drop_memory"} =>
                    heaps'[gc_store[u].heap].in_use = gc_store[u].memory
    <3>1. CASE u = t
      BY <1>2, <3>1
    <3>2. CASE u # t
      <4>1. gc_store[u].heap # None /\ pc[u] # "drop_memory" => gc_store[u].heap \in HeapSlots \ {h}
        BY <1>3, <3>2 DEF SlotTypes
      <4>2. pc[u] = "gc_slot" => gc_store[u].heap # None
        BY DEF GcStores, GcStore, WithHeap
      <4> QED
        BY <1>2, <3>2, <4>1, <4>2 DEF HeapSlotsAgree
    <3> QED
      BY <3>1, <3>2
  <2> QED
    BY <2>1, <2>2 DEF HeapSlotsAgree
<1>8. InstancesHold' /\ StoresHold'
  BY DEF InstancesHold, StoresHold
<1> QED
  BY <1>4, <1>5, <1>6, <1>7, <1>8

\* GcHeapPool::deallocate frees the index last.
LEMMA GcFreesIndex ==
  ASSUME SlotInv, CountInv', NEW t \in Stores,
         gc_heaps' = gc_heaps \ {gc_store[t].heap},
         UNCHANGED <<memories, heaps, owned_memories, gc_store>>,
         \A u \in Stores \ {t} : pc'[u] = pc[u],
         pc[t] = "drop_index" /\ pc'[t] = "drop_memory"
  PROVE  SlotInv'
<1> USE DEF SlotInv
<1> DEFINE h == gc_store[t].heap
<1>1. h # None /\ heaps[h].in_use = None
  BY DEF GcStores, GcStore, WithHeap
<1>2. \A u \in Stores \ {t} : gc_store[u].heap = h => pc[u] = "drop_memory"
  BY <1>1 DEF OneHeap
<1>3. SlotTypes'
  BY DEF SlotTypes
<1>4. GcStores'
  <2> SUFFICES ASSUME NEW u \in Stores PROVE GcStore(u)'
    BY DEF GcStores
  <2>1. CASE u = t
    BY <1>1, <2>1 DEF GcStores, GcStore
  <2>2. CASE u # t
    BY <1>2, <2>2 DEF GcStores, GcStore
  <2> QED
    BY <2>1, <2>2
<1>5. OneHeap'
  BY DEF OneHeap
<1>6. HeapSlotsAgree'
  BY <1>1 DEF HeapSlotsAgree
<1>7. InstancesHold' /\ StoresHold'
  BY DEF InstancesHold, StoresHold
<1> QED
  BY <1>3, <1>4, <1>5, <1>6, <1>7

\* The store lets go of its heap and memory: after the memory was deallocated, or
\* with an error, which leaves everything taken.
LEMMA GcLetsGo ==
  ASSUME SlotInv, CountInv', NEW t \in Stores,
         gc_store' = [gc_store EXCEPT ![t] = NoHeap],
         UNCHANGED <<gc_heaps, heaps, owned_memories>>,
         memories' \in {memories, memories \ {gc_store[t].memory}},
         \A u \in Stores \ {t} : pc'[u] = pc[u],
         pc'[t] \in {"idle", "drop"},
         gc_store[t].memory # None
  PROVE  SlotInv'
<1> USE DEF SlotInv
<1>1. /\ gc_store'[t].heap = None /\ gc_store'[t].memory = None
      /\ \A u \in Stores \ {t} : gc_store'[u] = gc_store[u]
  BY DEF SlotTypes, NoHeap
<1>2. SlotTypes'
  BY DEF SlotTypes, NoHeap
<1>3. GcStores'
  <2> SUFFICES ASSUME NEW u \in Stores PROVE GcStore(u)'
    BY DEF GcStores
  <2>1. CASE u = t
    BY <1>1, <2>1 DEF GcStore, WithHeap
  <2>2. CASE u # t
    BY <1>1, <2>2 DEF GcStores, GcStore
  <2> QED
    BY <2>1, <2>2
<1>4. OneHeap'
  BY <1>1 DEF OneHeap
<1>5. HeapSlotsAgree'
  BY <1>1 DEF HeapSlotsAgree
<1>6. InstancesHold'
  BY DEF InstancesHold, StoresHold
<1>7. StoresHold'
  BY <1>1 DEF StoresHold
<1> QED
  BY <1>2, <1>3, <1>4, <1>5, <1>6, <1>7

-----------------------------------------------------------------------------

\* Every step preserves the invariant.
LEMMA StepSlots == SlotInv /\ [Next]_vars => SlotInv'
<1> SUFFICES ASSUME SlotInv, [Next]_vars PROVE SlotInv'
  OBVIOUS
<1>0. CountInv /\ CountInv'
  BY StepCount DEF SlotInv
<1>p. pc \in [Stores -> Places]
  BY <1>0 DEF CountInv, CountTypes
<1>o. owned_memories \in [Instances -> SUBSET MemorySlots]
  BY DEF SlotInv, SlotTypes
<1>1. CASE UNCHANGED vars
  <2>1. UNCHANGED <<memories, gc_heaps, heaps, owned_memories, gc_store, pc>>
    BY <1>1 DEF vars, pools, instances
  <2> QED
    BY <1>0, <2>1 DEF SlotInv, SlotTypes, GcStores, GcStore, OneHeap, HeapSlotsAgree,
                      InstancesHold, StoresHold
<1>2. ASSUME NEW t \in Stores,
             \/ Increment(t) \/ Guard(t) \/ AllocateTable(t) \/ New(t) \/ DeallocateTables(t)
             \/ DropInstance(t)
      PROVE  SlotInv'
  <2>1. UNCHANGED <<memories, gc_heaps, heaps, owned_memories, gc_store>>
    BY <1>2 DEF Increment, Guard, AllocateTable, New, DeallocateTables, DropInstance, pools, instances
  <2>2. /\ \A u \in Stores \ {t} : pc'[u] = pc[u]
        /\ pc[t] \in Quiet /\ pc'[t] \in Quiet
    <3>1. CASE Increment(t) \/ Guard(t) \/ New(t) \/ DropInstance(t)
      BY <1>p, <3>1 DEF Increment, Guard, New, DropInstance, Goto, Quiet, Building
    <3>2. CASE AllocateTable(t) \/ DeallocateTables(t)
      BY <1>p, <3>2 DEF AllocateTable, DeallocateTables, Goto, Quiet, Building
    <3> QED
      BY <1>2, <3>1, <3>2
  <2> QED
    BY <1>0, <1>o, <2>1, <2>2, QuietStep
<1>3. ASSUME NEW t \in Stores, Refused(t) \/ GuardFails(t) \/ Decrement(t) \/ NewFails(t)
      PROVE  SlotInv'
  <2>1. UNCHANGED <<memories, gc_heaps, heaps, gc_store>>
    BY <1>3 DEF Refused, GuardFails, Decrement, NewFails, pools
  <2>2. owned_memories' = [owned_memories EXCEPT ![cur[t]] = {}]
    BY <1>3 DEF Refused, GuardFails, Decrement, NewFails, Forget
  <2>3. /\ owned_memories' \in [Instances -> SUBSET MemorySlots]
        /\ \A i \in Instances : owned_memories'[i] \subseteq owned_memories[i]
    BY <1>o, <2>2
  <2>4. /\ \A u \in Stores \ {t} : pc'[u] = pc[u]
        /\ pc[t] \in Quiet /\ pc'[t] \in Quiet
    BY <1>3, <1>p DEF Refused, GuardFails, Decrement, NewFails, Goto, Quiet, Building
  <2> QED
    BY <1>0, <2>1, <2>3, <2>4, QuietStep
<1>4. ASSUME NEW t \in Stores, AllocateMemory(t) PROVE SlotInv'
  <2>1. UNCHANGED <<gc_heaps, heaps, gc_store>> /\ pc[t] = "memories"
    BY <1>4 DEF AllocateMemory
  <2>2. cur[t] \in Instances
    BY <1>0, <2>1 DEF CountInv, CurrentAgrees, Current, Building
  <2>3. CASE /\ UNCHANGED pc
             /\ \E m \in MemorySlots \ memories :
                  /\ memories' = memories \cup {m}
                  /\ owned_memories' = [owned_memories EXCEPT ![cur[t]] = @ \cup {m}]
    BY <1>0, <2>1, <2>2, <2>3, TakeMemory
  <2>4. CASE /\ UNCHANGED <<memories, owned_memories>>
             /\ Goto(t, "memories", "tables") \/ Goto(t, "memories", "unwind")
    <3>1. /\ \A u \in Stores \ {t} : pc'[u] = pc[u]
          /\ pc[t] \in Quiet /\ pc'[t] \in Quiet
      BY <1>p, <2>4 DEF Goto, Quiet, Building
    <3> QED
      BY <1>0, <1>o, <2>1, <2>4, <3>1, QuietStep
  <2> QED
    BY <1>4, <2>3, <2>4 DEF AllocateMemory
<1>5. ASSUME NEW t \in Stores, DeallocateMemories(t) PROVE SlotInv'
  <2>1. UNCHANGED <<gc_heaps, heaps, gc_store, pc>> /\ pc[t] = "unwind"
    BY <1>5 DEF DeallocateMemories
  <2>2. cur[t] \in Instances
    BY <1>0, <2>1 DEF CountInv, CurrentAgrees, Current
  <2>3. PICK m \in owned_memories[cur[t]] :
          /\ memories' = memories \ {m}
          /\ owned_memories' = [owned_memories EXCEPT ![cur[t]] = @ \ {m}]
    BY <1>5 DEF DeallocateMemories
  <2> QED
    BY <1>0, <2>1, <2>2, <2>3, ReturnMemory
<1>6. ASSUME NEW t \in Stores, GcNew(t) \/ GcCount(t) \/ DropStore(t) PROVE SlotInv'
  <2>1. UNCHANGED <<memories, gc_heaps, heaps, owned_memories, gc_store>>
    BY <1>6 DEF GcNew, GcCount, DropStore, pools, instances
  <2>2. /\ \A u \in Stores \ {t} : pc'[u] = pc[u]
        /\ \/ pc[t] \in Quiet /\ pc'[t] \in Quiet
           \/ pc[t] = "idle" /\ pc'[t] = "drop_heap" /\ gc_store[t] # NoHeap
           \/ pc[t] = "gc_new" /\ pc'[t] = "gc_count"
           \/ pc[t] = "gc_count" /\ pc'[t] = "idle"
    BY <1>6, <1>p DEF GcNew, GcCount, DropStore, Goto, Quiet
  <2> QED
    BY <1>0, <1>o, <2>1, <2>2, QuietStep
<1>7. ASSUME NEW t \in Stores, GcMemory(t) \/ GcIndex(t) PROVE SlotInv'
  BY <1>0, <1>7, GcTakesMemory, GcTakesIndex
<1>8. ASSUME NEW t \in Stores, GcSlot(t) PROVE SlotInv'
  <2>1. /\ UNCHANGED <<memories, gc_heaps, owned_memories, gc_store>>
        /\ heaps' = [heaps EXCEPT ![gc_store[t].heap] = [made |-> FALSE, in_use |-> gc_store[t].memory]]
    BY <1>8 DEF GcSlot, instances
  <2>2. /\ \A u \in Stores \ {t} : pc'[u] = pc[u]
        /\ pc[t] = "gc_slot" /\ pc'[t] \in {"gc_new", "gc_count"}
    BY <1>8, <1>p DEF GcSlot, Goto
  <2>3. gc_store[t].memory \in MemorySlots \cup {None}
    BY DEF SlotInv, SlotTypes
  <2> QED
    BY <1>0, <2>1, <2>2, <2>3, GcWritesSlot
<1>9. ASSUME NEW t \in Stores, DropHeap(t) PROVE SlotInv'
  <2>1. CASE /\ Goto(t, "drop_heap", "drop_index")
             /\ heaps' = [heaps EXCEPT ![gc_store[t].heap] = [made |-> TRUE, in_use |-> None]]
             /\ UNCHANGED <<memories, gc_heaps, owned_memories, gc_store>>
    <3>1. /\ \A u \in Stores \ {t} : pc'[u] = pc[u]
          /\ pc[t] = "drop_heap" /\ pc'[t] = "drop_index"
      BY <1>p, <2>1 DEF Goto
    <3> QED
      BY <1>0, <2>1, <3>1, GcWritesSlot
  <2>2. CASE /\ Goto(t, "drop_index", "drop_memory")
             /\ gc_heaps' = gc_heaps \ {gc_store[t].heap}
             /\ UNCHANGED <<memories, heaps, owned_memories, gc_store>>
    <3>1. /\ \A u \in Stores \ {t} : pc'[u] = pc[u]
          /\ pc[t] = "drop_index" /\ pc'[t] = "drop_memory"
      BY <1>p, <2>2 DEF Goto
    <3> QED
      BY <1>0, <2>2, <3>1, GcFreesIndex
  <2> QED
    BY <1>9, <2>1, <2>2 DEF DropHeap, instances
<1>10. ASSUME NEW t \in Stores, GcLimit(t) \/ GcNewFails(t) \/ DropMemory(t) PROVE SlotInv'
  <2>1. /\ UNCHANGED <<gc_heaps, heaps, owned_memories>>
        /\ gc_store' = [gc_store EXCEPT ![t] = NoHeap]
        /\ memories' \in {memories, memories \ {gc_store[t].memory}}
    BY <1>10 DEF GcLimit, GcNewFails, DropMemory, pools, instances
  <2>2. /\ \A u \in Stores \ {t} : pc'[u] = pc[u]
        /\ pc[t] \in {"gc_index", "gc_new", "drop_memory"} /\ pc'[t] \in {"idle", "drop"}
    BY <1>10, <1>p DEF GcLimit, GcNewFails, DropMemory, Goto
  <2>3. gc_store[t].memory # None
    BY <2>2 DEF SlotInv, GcStores, GcStore, WithHeap
  <2> QED
    BY <1>0, <2>1, <2>2, <2>3, GcLetsGo
<1> QED
  BY <1>1, <1>2, <1>3, <1>4, <1>5, <1>6, <1>7, <1>8, <1>9, <1>10 DEF Next, Step, Leak

\* What stores hold of memories and heaps is accounted for in every state.
THEOREM SlotSafe == Spec => []SlotInv
<1>1. Init => SlotInv
  BY InitSlots
<1>2. SlotInv /\ [Next]_vars => SlotInv'
  BY StepSlots
<1> QED
  BY <1>1, <1>2, PTL DEF Spec

\* No memory slot is in use twice, none that is held is free, and HeapSlot::alloc
\* and dealloc find the slot as they require, in every interleaving of stores.
THEOREM MemoriesStayDisjoint == Spec => []MemoriesDisjoint
<1>1. SlotInv => MemoriesDisjoint
  <2> SUFFICES ASSUME SlotInv PROVE MemoriesDisjoint
    OBVIOUS
  <2>0. HeapSlotsAgree /\ InstancesHold /\ StoresHold
    BY DEF SlotInv
  <2>1. ASSUME NEW x \in Holdings
        PROVE  /\ x[2] \in MemorySlots /\ x[2] # None /\ x = <<x[1], x[2]>>
               /\ \/ x[1] \in Instances /\ x[2] \in owned_memories[x[1]]
                  \/ x[1] \in Stores /\ gc_store[x[1]].memory = x[2]
    BY StoreResourcesAssumption DEF Holdings, StoreResourcesAssumption
  <2>2. \A x \in Holdings : x[2] \in memories
    BY <2>0, <2>1 DEF InstancesHold, StoresHold
  <2>3. ASSUME NEW x \in Holdings, NEW y \in Holdings, x[2] = y[2]
        PROVE  x = y
    <3>1. x[1] = y[1]
      BY <2>0, <2>1, <2>3 DEF InstancesHold, StoresHold
    <3>2. x = <<x[1], x[2]>> /\ y = <<y[1], y[2]>>
      BY <2>1
    <3> QED
      BY <2>3, <3>1, <3>2
  <2> QED
    BY <2>0, <2>2, <2>3 DEF MemoriesDisjoint
<1> QED
  BY <1>1, SlotSafe, PTL
=============================================================================
