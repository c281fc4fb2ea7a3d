------------------------- MODULE StoreConservedProofs -------------------------
(***************************************************************************)
(* Nothing that stores take from the pooling allocator goes missing, apart *)
(* from what the four early returns of Leak give up: Conserved, for any    *)
(* number of stores, instances and slots.                                  *)
(*                                                                         *)
(* There is an account for each of the four resources, and each is kept    *)
(* separately.  What makes them inductive is that nothing is forgotten     *)
(* while it is held (an instance that was refused, or is not past its      *)
(* guard, owns nothing), and that what was lost is held by nobody, so that *)
(* it is never given back after all.                                       *)
(***************************************************************************)
EXTENDS StoreMemoriesProofs

\* The account of core instances.
InstanceAccount ==
  /\ lost.instances \in Nat
  /\ live_core_instances = Cardinality(Counted) + lost.instances

\* Instances own nothing before they are past their guard.
OwnsNothing(i) == owned_memories[i] = {} /\ owned_tables[i] = {}

Unowned ==
  /\ \A i \in Instances : status[i] \in {"none", "refused"} => OwnsNothing(i)
  /\ \A t \in Stores : pc[t] = "guard" => OwnsNothing(cur[t])

\* Memory slots that an instance or a store holds.
HeldMemories ==
  {m \in MemorySlots : \/ \E i \in Instances : m \in owned_memories[i]
                       \/ \E t \in Stores : gc_store[t].memory = m}

MemoryAccount ==
  /\ lost.memories \subseteq MemorySlots
  /\ memories = HeldMemories \cup lost.memories
  /\ HeldMemories \cap lost.memories = {}
  /\ live_memories = Cardinality(memories)

HeldTables == {b \in TableSlots : \E i \in Instances : b \in owned_tables[i]}

TableAccount ==
  /\ owned_tables \in [Instances -> SUBSET TableSlots]
  /\ \A i, j \in Instances : i # j => owned_tables[i] \cap owned_tables[j] = {}
  /\ tables \subseteq TableSlots /\ lost.tables \subseteq TableSlots
  /\ tables = HeldTables \cup lost.tables
  /\ HeldTables \cap lost.tables = {}
  /\ live_tables = Cardinality(tables)

\* Heaps whose index a store has not freed yet, and stores whose heap is counted.
HeldHeaps == {h \in HeapSlots : \E t \in Stores : pc[t] # "drop_memory" /\ gc_store[t].heap = h}

Uncounted == {"gc_slot", "gc_new", "gc_count", "drop_index", "drop_memory"}
CountedHeaps == {t \in Stores : gc_store[t].heap # None /\ pc[t] \notin Uncounted}

HeapAccount ==
  /\ lost.gc_heaps \subseteq HeapSlots
  /\ gc_heaps = HeldHeaps \cup lost.gc_heaps
  /\ HeldHeaps \cap lost.gc_heaps = {}
  /\ live_gc_heaps = Cardinality(CountedHeaps)

LostType ==
  lost \in [instances : Nat, memories : SUBSET MemorySlots, tables : SUBSET TableSlots,
            gc_heaps : SUBSET HeapSlots]

\* The inductive invariant.
AccountInv ==
  /\ SlotInv /\ LostType /\ Unowned
  /\ InstanceAccount /\ MemoryAccount /\ TableAccount /\ HeapAccount

-----------------------------------------------------------------------------
(* Finite sets *)

LEMMA SlotsFinite ==
  ASSUME SlotInv
  PROVE  IsFiniteSet(memories) /\ Cardinality(memories) \in 0 .. Cardinality(MemorySlots)
<1>1. memories \in SUBSET MemorySlots
  BY DEF SlotInv, SlotTypes
<1>2. IsFiniteSet(memories) /\ Cardinality(memories) <= Cardinality(MemorySlots)
  BY <1>1, FS_Subset, StoreResourcesAssumption DEF StoreResourcesAssumption
<1>3. Cardinality(memories) \in Nat /\ Cardinality(MemorySlots) \in Nat
  BY <1>2, FS_CardinalityType, StoreResourcesAssumption DEF StoreResourcesAssumption
<1> QED
  BY <1>2, <1>3

LEMMA TablesFinite ==
  ASSUME TableAccount
  PROVE  IsFiniteSet(tables) /\ Cardinality(tables) \in 0 .. Cardinality(TableSlots)
<1>1. tables \in SUBSET TableSlots
  BY DEF TableAccount
<1>2. IsFiniteSet(tables) /\ Cardinality(tables) <= Cardinality(TableSlots)
  BY <1>1, FS_Subset, StoreResourcesAssumption DEF StoreResourcesAssumption
<1>3. Cardinality(tables) \in Nat /\ Cardinality(TableSlots) \in Nat
  BY <1>2, FS_CardinalityType, StoreResourcesAssumption DEF StoreResourcesAssumption
<1> QED
  BY <1>2, <1>3

\* Stores whose heap is counted have different heaps, so they are no more than
\* there are heap slots.
LEMMA CountedHeapsFinite ==
  ASSUME SlotInv
  PROVE  IsFiniteSet(CountedHeaps) /\ Cardinality(CountedHeaps) \in 0 .. Cardinality(HeapSlots)
<1> DEFINE f == [t \in CountedHeaps |-> gc_store[t].heap]
<1>1. f \in [CountedHeaps -> HeapSlots]
  BY DEF SlotInv, SlotTypes, CountedHeaps
<1>2. \A t, u \in CountedHeaps : f[t] = f[u] => t = u
  BY DEF SlotInv, OneHeap, CountedHeaps, Uncounted
<1>3. f \in Injection(CountedHeaps, HeapSlots)
  BY <1>1, <1>2 DEF Injection, IsInjective
<1> HIDE DEF f
<1>4. IsFiniteSet(CountedHeaps) /\ Cardinality(CountedHeaps) <= Cardinality(HeapSlots)
  BY <1>3, FS_Injection, StoreResourcesAssumption DEF StoreResourcesAssumption
<1>5. Cardinality(CountedHeaps) \in Nat /\ Cardinality(HeapSlots) \in Nat
  BY <1>4, FS_CardinalityType, StoreResourcesAssumption DEF StoreResourcesAssumption
<1> QED
  BY <1>4, <1>5

\* Init: there is nothing to account for.
LEMMA InitAccounts == Init => AccountInv
<1> SUFFICES ASSUME Init PROVE AccountInv
  OBVIOUS
<1>1. SlotInv
  BY InitSlots
<1> USE DEF Init, NoHeap
<1>2. LostType
  BY DEF LostType
<1>3. Unowned
  BY DEF Unowned, OwnsNothing
<1>4. Counted = {} /\ HeldTables = {}
  BY DEF Counted, HeldTables
<1>5. HeldMemories = {}
  BY StoreResourcesAssumption DEF HeldMemories, StoreResourcesAssumption
<1>6. HeldHeaps = {} /\ CountedHeaps = {}
  BY StoreResourcesAssumption DEF HeldHeaps, CountedHeaps, StoreResourcesAssumption
<1>7. InstanceAccount
  BY <1>4, FS_EmptySet DEF InstanceAccount
<1>8. MemoryAccount
  BY <1>5, FS_EmptySet DEF MemoryAccount
<1>9. TableAccount
  BY <1>4, FS_EmptySet DEF TableAccount
<1>10. HeapAccount
  BY <1>6, FS_EmptySet DEF HeapAccount
<1> QED
  BY <1>1, <1>2, <1>3, <1>7, <1>8, <1>9, <1>10 DEF AccountInv

-----------------------------------------------------------------------------
(* Instances *)

\* A store that builds, is refused or unwinds does so for an instance of its own.
LEMMA CurrentIsOwn ==
  ASSUME CountInv, NEW t \in Stores, pc[t] \in {"refused", "unwind"} \cup Building
  PROVE  /\ cur[t] \in Instances /\ status[cur[t]] # "none"
         /\ \A u \in Stores \ {t} :
              pc[u] \in {"refused", "unwind"} \cup Building => cur[u] # cur[t]
<1>1. cur[t] \in Instances /\ store[cur[t]] = t
  BY DEF CountInv, CurrentAgrees, Current
<1>2. status[cur[t]] # "none"
  BY <1>1, StoreResourcesAssumption DEF CountInv, OwnersAgree, Owner, StoreResourcesAssumption
<1> QED
  BY <1>1, <1>2 DEF CountInv, CurrentAgrees, Current

\* What is lost has its type.
LEMMA LostStep ==
  ASSUME AccountInv, NEW t \in Stores, (Step(t) /\ UNCHANGED lost) \/ Leak(t)
  PROVE  LostType'
<1>0. LostType /\ SlotInv
  BY DEF AccountInv
<1>1. CASE UNCHANGED lost
  BY <1>0, <1>1 DEF LostType
<1>2. CASE GuardFails(t)
  BY <1>0, <1>2 DEF GuardFails, LostType
<1>3. CASE NewFails(t)
  <2>1. cur[t] \in Instances
    BY <1>0, <1>3, CurrentIsOwn DEF SlotInv, NewFails, Goto, Building
  <2>2. owned_memories[cur[t]] \subseteq MemorySlots /\ owned_tables[cur[t]] \subseteq TableSlots
    BY <1>0, <2>1 DEF SlotInv, SlotTypes, AccountInv, TableAccount
  <2> QED
    BY <1>0, <1>3, <2>2 DEF NewFails, LostType
<1>4. CASE GcLimit(t)
  <2>1. gc_store[t].memory \in MemorySlots
    BY <1>0, <1>4 DEF SlotInv, SlotTypes, GcStores, GcStore, GcLimit, Goto
  <2> QED
    BY <1>0, <1>4, <2>1 DEF GcLimit, LostType
<1>5. CASE GcNewFails(t)
  <2>1. gc_store[t].memory \in MemorySlots /\ gc_store[t].heap \in HeapSlots
    BY <1>0, <1>5 DEF SlotInv, SlotTypes, GcStores, GcStore, WithHeap, GcNewFails, Goto
  <2> QED
    BY <1>0, <1>5, <2>1 DEF GcNewFails, LostType
<1> QED
  BY <1>1, <1>2, <1>3, <1>4, <1>5 DEF Leak

\* Every instance that was counted is there, or was lost by GuardFails.
LEMMA InstanceStep ==
  ASSUME AccountInv, NEW t \in Stores, (Step(t) /\ UNCHANGED lost) \/ Leak(t)
  PROVE  InstanceAccount'
<1>0. CountInv /\ InstanceAccount /\ LostType
  BY DEF AccountInv, SlotInv
<1>f. IsFiniteSet(Counted) /\ Cardinality(Counted) \in Nat
  BY CountedFinite
<1>1. CASE Increment(t) /\ UNCHANGED lost
  <2>1. PICK i \in Instances :
          /\ status[i] = "none" /\ live_core_instances' = live_core_instances + 1
          /\ status' = [status EXCEPT ![i] = IF live_core_instances >= TotalCoreInstances
                                             THEN "refused" ELSE "building"]
    BY <1>1 DEF Increment
  <2>2. Counted' = Counted \cup {i} /\ i \notin Counted
    BY <1>0, <2>1 DEF Counted, CountInv, CountTypes
  <2>3. Cardinality(Counted') = Cardinality(Counted) + 1
    BY <1>f, <2>2, FS_AddElement
  <2> QED
    BY <1>0, <1>1, <1>f, <2>1, <2>3 DEF InstanceAccount
<1>2. ASSUME Refused(t) \/ Decrement(t) \/ GuardFails(t)
      PROVE  Cardinality(Counted') = Cardinality(Counted) - 1
  <2>1. cur[t] \in Instances /\ status[cur[t]] # "none"
    BY <1>0, <1>2, CurrentIsOwn DEF Refused, Decrement, GuardFails, Goto, Building
  <2>2. status' = [status EXCEPT ![cur[t]] = "none"]
    BY <1>2 DEF Refused, Decrement, GuardFails, Forget
  <2>3. Counted' = Counted \ {cur[t]} /\ cur[t] \in Counted
    BY <1>0, <2>1, <2>2 DEF Counted, CountInv, CountTypes
  <2> QED
    BY <1>f, <2>3, FS_RemoveElement
<1>3. CASE (Refused(t) \/ Decrement(t)) /\ UNCHANGED lost
  <2>1. live_core_instances' = live_core_instances - 1
    BY <1>3 DEF Refused, Decrement
  <2> QED
    BY <1>0, <1>2, <1>3, <1>f, <2>1 DEF InstanceAccount
<1>4. CASE GuardFails(t)
  <2>1. live_core_instances' = live_core_instances /\ lost'.instances = lost.instances + 1
    BY <1>0, <1>4 DEF GuardFails, counters, LostType
  <2> QED
    BY <1>0, <1>2, <1>4, <1>f, <2>1 DEF InstanceAccount
<1>5. ASSUME live_core_instances' = live_core_instances, Counted' = Counted,
             lost'.instances = lost.instances
      PROVE  InstanceAccount'
  BY <1>0, <1>5 DEF InstanceAccount
<1>6. CASE New(t) /\ UNCHANGED lost
  <2>1. cur[t] \in Instances /\ status[cur[t]] # "none"
    BY <1>0, <1>6, CurrentIsOwn DEF New, Goto, Building
  <2>2. Counted' = Counted
    BY <1>0, <1>6, <2>1 DEF New, Counted, CountInv, CountTypes
  <2> QED
    BY <1>5, <1>6, <2>2 DEF New, counters
<1>7. CASE NewFails(t) \/ GcLimit(t) \/ GcNewFails(t)
  <2>1. UNCHANGED <<live_core_instances, status>> /\ lost'.instances = lost.instances
    BY <1>0, <1>7 DEF NewFails, GcLimit, GcNewFails, counters, instances, LostType
  <2> QED
    BY <1>5, <2>1 DEF Counted
<1>8. CASE /\ UNCHANGED lost
           /\ \/ Guard(t) \/ AllocateMemory(t) \/ AllocateTable(t) \/ DeallocateMemories(t)
              \/ DeallocateTables(t) \/ GcMemory(t) \/ GcIndex(t) \/ GcSlot(t) \/ GcNew(t)
              \/ GcCount(t) \/ DropStore(t) \/ DropHeap(t) \/ DropMemory(t) \/ DropInstance(t)
  <2>1. UNCHANGED <<live_core_instances, status>>
    BY <1>8 DEF Guard, AllocateMemory, AllocateTable, DeallocateMemories, DeallocateTables,
                GcMemory, GcIndex, GcSlot, GcNew, GcCount, DropStore, DropHeap, DropMemory,
                DropInstance, counters, instances
  <2> QED
    BY <1>5, <1>8, <2>1 DEF Counted
<1> QED
  BY <1>1, <1>3, <1>4, <1>6, <1>7, <1>8 DEF Step, Leak

\* An instance owns nothing before it is past its guard.
LEMMA UnownedStep ==
  ASSUME AccountInv, NEW t \in Stores, (Step(t) /\ UNCHANGED lost) \/ Leak(t)
  PROVE  Unowned'
<1>0. CountInv /\ CountTypes /\ Unowned
  BY DEF AccountInv, SlotInv, CountInv
<1>o. /\ owned_memories \in [Instances -> SUBSET MemorySlots]
      /\ owned_tables \in [Instances -> SUBSET TableSlots]
  BY DEF AccountInv, SlotInv, SlotTypes, TableAccount
<1>1. CASE Increment(t)
  <2>1. PICK i \in Instances :
          /\ status[i] = "none"
          /\ \A j \in Instances \ {i} : status'[j] = status[j]
          /\ cur'[t] = i /\ \A u \in Stores \ {t} : cur'[u] = cur[u] /\ pc'[u] = pc[u]
    BY <1>0, <1>1 DEF Increment, Goto, CountTypes
  <2>2. UNCHANGED <<owned_memories, owned_tables>>
    BY <1>1 DEF Increment
  <2> QED
    BY <1>0, <2>1, <2>2 DEF Unowned, OwnsNothing
\* The instance that the store works for changes what it owns, or ends.
<1>2. ASSUME pc[t] \in {"refused", "unwind"} \cup Building, pc'[t] # "guard",
             \/ status'[cur[t]] \in {"building", "live"}
             \/ owned_memories'[cur[t]] = {} /\ owned_tables'[cur[t]] = {},
             \A j \in Instances \ {cur[t]} :
               /\ owned_memories'[j] = owned_memories[j] /\ owned_tables'[j] = owned_tables[j]
               /\ status'[j] = status[j],
             \A u \in Stores \ {t} : cur'[u] = cur[u] /\ pc'[u] = pc[u]
      PROVE  Unowned'
  <2>1. cur[t] \in Instances /\ \A u \in Stores \ {t} : pc[u] = "guard" => cur[u] # cur[t]
    BY <1>0, <1>2, CurrentIsOwn DEF Building
  <2>2. \A u \in Stores : pc[u] = "guard" => cur[u] \in Instances
    BY <1>0, CurrentIsOwn DEF Building
  <2>3. ASSUME NEW j \in Instances, status'[j] \in {"none", "refused"} PROVE OwnsNothing(j)'
    <3>1. CASE j = cur[t]
      BY <1>2, <2>3, <3>1 DEF OwnsNothing
    <3>2. CASE j # cur[t]
      BY <1>0, <1>2, <2>3, <3>2 DEF Unowned, OwnsNothing
    <3> QED
      BY <3>1, <3>2
  <2>4. ASSUME NEW u \in Stores, pc'[u] = "guard" PROVE OwnsNothing(cur[u])'
    <3>1. u # t
      BY <1>2, <2>4
    <3>2. cur'[u] = cur[u] /\ cur[u] \in Instances \ {cur[t]} /\ OwnsNothing(cur[u])
      BY <1>0, <1>2, <2>1, <2>2, <2>4, <3>1 DEF Unowned
    <3> QED
      BY <1>2, <3>2 DEF OwnsNothing
  <2> QED
    BY <2>3, <2>4 DEF Unowned, OwnsNothing
<1>3. CASE Refused(t) \/ GuardFails(t) \/ Decrement(t)
  <2>1. pc[t] \in {"refused", "unwind"} \cup Building /\ Forget(t, cur[t])
    BY <1>3 DEF Refused, GuardFails, Decrement, Goto, Building
  <2>2. pc'[t] # "guard" /\ \A u \in Stores \ {t} : cur'[u] = cur[u] /\ pc'[u] = pc[u]
    BY <1>0, <1>3, <2>1 DEF Refused, GuardFails, Decrement, Forget, Goto, CountTypes
  <2>3. cur[t] \in Instances
    BY <1>0, <2>1, CurrentIsOwn
  <2>4. owned_memories'[cur[t]] = {} /\ owned_tables'[cur[t]] = {}
    BY <1>o, <2>1, <2>3 DEF Forget
  <2>5. \A j \in Instances \ {cur[t]} :
          /\ owned_memories'[j] = owned_memories[j] /\ owned_tables'[j] = owned_tables[j]
          /\ status'[j] = status[j]
    BY <1>0, <1>o, <2>1 DEF Forget, CountTypes
  <2> QED
    BY <1>2, <2>1, <2>2, <2>4, <2>5
<1>4. CASE AllocateMemory(t) \/ AllocateTable(t) \/ New(t)
  <2>1. pc[t] \in {"refused", "unwind"} \cup Building
    BY <1>4 DEF AllocateMemory, AllocateTable, New, Goto, Building
  <2>2. pc'[t] # "guard" /\ \A u \in Stores \ {t} : cur'[u] = cur[u] /\ pc'[u] = pc[u]
    BY <1>0, <1>4 DEF AllocateMemory, AllocateTable, New, Goto, CountTypes
  <2>3. cur[t] \in Instances /\ status[cur[t]] = "building"
    BY <1>0, <1>4 DEF AllocateMemory, AllocateTable, New, Goto, CountInv, CurrentAgrees, Current, Building
  <2>4. /\ status'[cur[t]] \in {"building", "live"}
        /\ \A j \in Instances \ {cur[t]} : status'[j] = status[j]
    BY <1>0, <1>4, <2>3 DEF AllocateMemory, AllocateTable, New, CountTypes
  <2>5. \A j \in Instances \ {cur[t]} :
           owned_memories'[j] = owned_memories[j] /\ owned_tables'[j] = owned_tables[j]
    BY <1>o, <1>4 DEF AllocateMemory, AllocateTable, New
  <2> QED
    BY <1>2, <2>1, <2>2, <2>4, <2>5
\* Instances only lose what they own.
<1>5. ASSUME UNCHANGED status, pc'[t] # "guard",
             \A i \in Instances :
               /\ owned_memories'[i] \subseteq owned_memories[i]
               /\ owned_tables'[i] \subseteq owned_tables[i],
             \A u \in Stores \ {t} : cur'[u] = cur[u] /\ pc'[u] = pc[u]
      PROVE  Unowned'
  <2>1. \A i \in Instances : OwnsNothing(i) => OwnsNothing(i)'
    BY <1>5 DEF OwnsNothing
  <2>2. \A u \in Stores : pc[u] = "guard" => cur[u] \in Instances
    BY <1>0, CurrentIsOwn DEF Building
  <2>3. \A i \in Instances : status'[i] \in {"none", "refused"} => OwnsNothing(i)'
    BY <1>0, <1>5, <2>1 DEF Unowned
  <2>4. ASSUME NEW u \in Stores, pc'[u] = "guard" PROVE OwnsNothing(cur[u])'
    <3>1. u # t /\ cur'[u] = cur[u] /\ cur[u] \in Instances /\ OwnsNothing(cur[u])
      BY <1>0, <1>5, <2>2, <2>4 DEF Unowned
    <3>2. owned_memories[cur[u]] = {} /\ owned_tables[cur[u]] = {}
      BY <3>1 DEF OwnsNothing
    <3> QED
      BY <1>5, <3>1, <3>2 DEF OwnsNothing
  <2> QED
    BY <2>3, <2>4 DEF Unowned, OwnsNothing
<1>6. CASE NewFails(t) \/ DeallocateMemories(t) \/ DeallocateTables(t)
  <2>1. /\ UNCHANGED status /\ pc'[t] # "guard"
        /\ \A u \in Stores \ {t} : cur'[u] = cur[u] /\ pc'[u] = pc[u]
    BY <1>0, <1>6 DEF NewFails, DeallocateMemories, DeallocateTables, Goto, CountTypes
  <2>2. \A i \in Instances : /\ owned_memories'[i] \subseteq owned_memories[i]
                             /\ owned_tables'[i] \subseteq owned_tables[i]
    BY <1>o, <1>6 DEF NewFails, DeallocateMemories, DeallocateTables
  <2> QED
    BY <1>5, <2>1, <2>2
<1>7. CASE \/ Guard(t) \/ GcMemory(t) \/ GcIndex(t) \/ GcSlot(t) \/ GcNew(t) \/ GcCount(t)
           \/ DropStore(t) \/ DropHeap(t) \/ DropMemory(t) \/ DropInstance(t)
           \/ GcLimit(t) \/ GcNewFails(t)
  <2>1. UNCHANGED <<status, owned_memories, owned_tables>>
    BY <1>7 DEF Guard, GcMemory, GcIndex, GcSlot, GcNew, GcCount, DropStore, DropHeap, DropMemory,
                DropInstance, GcLimit, GcNewFails, instances
  <2>2. pc'[t] # "guard" /\ \A u \in Stores \ {t} : cur'[u] = cur[u] /\ pc'[u] = pc[u]
    <3>1. CASE DropInstance(t) \/ Guard(t) \/ DropStore(t)
      BY <1>0, <3>1 DEF DropInstance, Guard, DropStore, Goto, CountTypes
    <3>2. CASE ~(DropInstance(t) \/ Guard(t) \/ DropStore(t))
      BY <1>0, <1>7, <3>2 DEF GcMemory, GcIndex, GcSlot, GcNew, GcCount, DropHeap, DropMemory,
                GcLimit, GcNewFails, Goto, CountTypes
    <3> QED
      BY <3>1, <3>2
  <2> QED
    BY <1>5, <2>1, <2>2
<1> QED
  BY <1>1, <1>3, <1>4, <1>6, <1>7 DEF Step, Leak

\* An instance that a store forgets owns nothing.
LEMMA ForgetsNothing ==
  ASSUME AccountInv, NEW t \in Stores, Refused(t) \/ GuardFails(t) \/ Decrement(t)
  PROVE  UNCHANGED <<owned_memories, owned_tables>>
<1>0. CountInv /\ Unowned
  BY DEF AccountInv, SlotInv
<1>o. /\ owned_memories \in [Instances -> SUBSET MemorySlots]
      /\ owned_tables \in [Instances -> SUBSET TableSlots]
  BY DEF AccountInv, SlotInv, SlotTypes, TableAccount
<1>1. Forget(t, cur[t])
  BY DEF Refused, GuardFails, Decrement
<1>2. owned_memories[cur[t]] = {} /\ owned_tables[cur[t]] = {}
  <2>1. CASE Refused(t)
    <3>1. cur[t] \in Instances /\ status[cur[t]] = "refused"
      BY <1>0, <2>1 DEF Refused, Goto, CountInv, CurrentAgrees, Current
    <3> QED
      BY <1>0, <3>1 DEF Unowned, OwnsNothing
  <2>2. CASE GuardFails(t)
    BY <1>0, <2>2 DEF GuardFails, Goto, Unowned, OwnsNothing
  <2>3. CASE Decrement(t)
    BY <2>3 DEF Decrement
  <2> QED
    BY <2>1, <2>2, <2>3
<1> QED
  BY <1>o, <1>1, <1>2 DEF Forget

-----------------------------------------------------------------------------
(* Memories *)

\* What is taken is held, what is held no longer is given back or lost.
LEMMA MemoryStep ==
  ASSUME AccountInv, NEW t \in Stores, (Step(t) /\ UNCHANGED lost) \/ Leak(t)
  PROVE  MemoryAccount'
<1>0. SlotInv /\ MemoryAccount /\ LostType
  BY DEF AccountInv
<1>1. SlotTypes /\ GcStores /\ InstancesHold /\ StoresHold /\ CountInv
  BY <1>0 DEF SlotInv
<1>f. IsFiniteSet(memories) /\ Cardinality(memories) \in Nat
  BY <1>0, SlotsFinite, FS_CardinalityType
\* Nothing is taken or given back, and what is let go is lost.
<1>2. ASSUME UNCHANGED <<memories, live_memories>>,
             NEW gone \in SUBSET HeldMemories, HeldMemories' = HeldMemories \ gone,
             lost'.memories = lost.memories \cup gone
      PROVE  MemoryAccount'
  <2>1. HeldMemories \subseteq MemorySlots
    BY DEF HeldMemories
  <2> QED
    BY <1>0, <1>2, <2>1 DEF MemoryAccount
<1>3. ASSUME NEW m \in MemorySlots \ memories, memories' = memories \cup {m},
             live_memories' = live_memories + 1, HeldMemories' = HeldMemories \cup {m}, UNCHANGED lost
      PROVE  MemoryAccount'
  <2>1. Cardinality(memories') = Cardinality(memories) + 1
    BY <1>3, <1>f, FS_AddElement
  <2> QED
    BY <1>0, <1>3, <2>1 DEF MemoryAccount
<1>4. ASSUME NEW m \in HeldMemories, memories' = memories \ {m},
             live_memories' = live_memories - 1, HeldMemories' = HeldMemories \ {m}, UNCHANGED lost
      PROVE  MemoryAccount'
  <2>1. m \in memories
    BY <1>0, <1>4 DEF MemoryAccount
  <2>2. Cardinality(memories') = Cardinality(memories) - 1
    BY <1>4, <1>f, <2>1, FS_RemoveElement
  <2> QED
    BY <1>0, <1>4, <2>2 DEF MemoryAccount
<1>5. ASSUME UNCHANGED <<memories, live_memories, owned_memories>>,
             \A u \in Stores : gc_store'[u].memory = gc_store[u].memory,
             lost'.memories = lost.memories
      PROVE  MemoryAccount'
  <2>1. HeldMemories' = HeldMemories
    BY <1>5 DEF HeldMemories
  <2> QED
    BY <1>0, <1>5, <2>1 DEF MemoryAccount
<1>6. CASE AllocateMemory(t) /\ UNCHANGED lost
  <2>1. cur[t] \in Instances /\ UNCHANGED gc_store
    BY <1>1, <1>6, CurrentIsOwn DEF AllocateMemory, Building
  <2>2. CASE UNCHANGED <<memories, owned_memories, live_memories>>
    BY <1>5, <1>6, <2>1, <2>2
  <2>3. ASSUME NEW m \in MemorySlots \ memories, memories' = memories \cup {m},
               live_memories' = live_memories + 1,
               owned_memories' = [owned_memories EXCEPT ![cur[t]] = @ \cup {m}]
        PROVE  MemoryAccount'
    <3>1. \A i \in Instances :
            owned_memories'[i] = IF i = cur[t] THEN owned_memories[i] \cup {m} ELSE owned_memories[i]
      BY <1>1, <2>3 DEF SlotTypes
    <3>2. HeldMemories' = HeldMemories \cup {m}
      BY <2>1, <3>1 DEF HeldMemories
    <3> QED
      BY <1>3, <1>6, <2>3, <3>2
  <2> QED
    BY <1>6, <2>2, <2>3 DEF AllocateMemory
<1>7. CASE DeallocateMemories(t) /\ UNCHANGED lost
  <2>1. cur[t] \in Instances /\ UNCHANGED gc_store
    BY <1>1, <1>7, CurrentIsOwn DEF DeallocateMemories
  <2>2. PICK m \in owned_memories[cur[t]] :
          /\ memories' = memories \ {m} /\ live_memories' = live_memories - 1
          /\ owned_memories' = [owned_memories EXCEPT ![cur[t]] = @ \ {m}]
    BY <1>7 DEF DeallocateMemories
  <2>3. m \in MemorySlots /\ m \in HeldMemories
    BY <1>1, <2>1 DEF SlotTypes, HeldMemories
  <2>4. /\ \A i \in Instances \ {cur[t]} : m \notin owned_memories[i]
        /\ \A u \in Stores : gc_store[u].memory # m
    <3>1. \A i \in Instances \ {cur[t]} : m \notin owned_memories[i]
      BY <1>1, <2>1 DEF InstancesHold
    <3>2. m # None
      BY <2>3, StoreResourcesAssumption DEF StoreResourcesAssumption
    <3>3. \A u \in Stores : gc_store[u].memory # m
      BY <1>1, <2>1, <3>2 DEF StoresHold
    <3> QED
      BY <3>1, <3>3
  <2>5. \A i \in Instances :
          owned_memories'[i] = IF i = cur[t] THEN owned_memories[i] \ {m} ELSE owned_memories[i]
    BY <1>1, <2>2 DEF SlotTypes
  <2>6. HeldMemories' = HeldMemories \ {m}
    <3>1. \A n \in MemorySlots : (\E i \in Instances : n \in owned_memories'[i]) <=>
                                   n # m /\ \E i \in Instances : n \in owned_memories[i]
      BY <2>4, <2>5
    <3>2. m \notin {gc_store[u].memory : u \in Stores}
      BY <2>4
    <3> QED
      BY <2>1, <3>1, <3>2 DEF HeldMemories
  <2> QED
    BY <1>4, <1>7, <2>2, <2>3, <2>6
<1>8. CASE GcMemory(t) /\ UNCHANGED lost
  <2>1. PICK m \in MemorySlots \ memories :
          /\ memories' = memories \cup {m}
          /\ gc_store' = [gc_store EXCEPT ![t].memory = m]
    BY <1>8 DEF GcMemory
  <2>2. live_memories' = live_memories + 1 /\ UNCHANGED owned_memories /\ gc_store[t].memory = None
    BY <1>8 DEF GcMemory, instances, NoHeap
  <2>3. gc_store'[t].memory = m /\ \A u \in Stores \ {t} : gc_store'[u] = gc_store[u]
    BY <1>1, <2>1 DEF SlotTypes
  <2>4. HeldMemories' = HeldMemories \cup {m}
    BY <2>2, <2>3, StoreResourcesAssumption DEF HeldMemories, StoreResourcesAssumption
  <2> QED
    BY <1>3, <1>8, <2>1, <2>2, <2>4
\* A store lets go of the memory of its heap.
<1>9. ASSUME gc_store' = [gc_store EXCEPT ![t] = NoHeap], UNCHANGED owned_memories,
             gc_store[t].memory # None
      PROVE  /\ gc_store[t].memory \in HeldMemories
             /\ HeldMemories' = HeldMemories \ {gc_store[t].memory}
  <2>1. gc_store'[t].memory = None /\ \A u \in Stores \ {t} : gc_store'[u] = gc_store[u]
    BY <1>1, <1>9 DEF SlotTypes, NoHeap
  <2>2. gc_store[t].memory \in HeldMemories
    BY <1>1, <1>9 DEF SlotTypes, HeldMemories
  <2>3. /\ \A u \in Stores \ {t} : gc_store[u].memory # gc_store[t].memory
        /\ \A i \in Instances : gc_store[t].memory \notin owned_memories[i]
    BY <1>1, <1>9 DEF StoresHold
  <2>4. HeldMemories' = HeldMemories \ {gc_store[t].memory}
    BY <1>9, <2>1, <2>3, StoreResourcesAssumption DEF HeldMemories, StoreResourcesAssumption
  <2> QED
    BY <2>2, <2>4
<1>10. CASE DropMemory(t) /\ UNCHANGED lost
  <2>1. gc_store[t].memory # None
    BY <1>1, <1>10 DEF DropMemory, Goto, GcStores, GcStore, WithHeap
  <2>2. /\ gc_store' = [gc_store EXCEPT ![t] = NoHeap] /\ UNCHANGED owned_memories
        /\ memories' = memories \ {gc_store[t].memory} /\ live_memories' = live_memories - 1
    BY <1>10 DEF DropMemory, instances
  <2> QED
    BY <1>4, <1>9, <1>10, <2>1, <2>2
<1>11. CASE GcLimit(t) \/ GcNewFails(t)
  <2>1. gc_store[t].memory # None
    BY <1>1, <1>11 DEF GcLimit, GcNewFails, Goto, GcStores, GcStore, WithHeap
  <2>2. /\ gc_store' = [gc_store EXCEPT ![t] = NoHeap]
        /\ UNCHANGED <<owned_memories, memories, live_memories>>
    BY <1>11 DEF GcLimit, GcNewFails, counters, pools, instances
  <2>3. lost'.memories = lost.memories \cup {gc_store[t].memory}
    BY <1>0, <1>11 DEF GcLimit, GcNewFails, LostType
  <2> DEFINE gone == {gc_store[t].memory}
  <2>4. gone \in SUBSET HeldMemories /\ HeldMemories' = HeldMemories \ gone
    BY <1>9, <2>1, <2>2
  <2>5. lost'.memories = lost.memories \cup gone
    BY <2>3
  <2> HIDE DEF gone
  <2> QED
    BY <1>2, <2>2, <2>4, <2>5
<1>12. CASE NewFails(t)
  <2>1. cur[t] \in Instances
    BY <1>1, <1>12, CurrentIsOwn DEF NewFails, Goto, Building
  <2>2. /\ owned_memories' = [owned_memories EXCEPT ![cur[t]] = {}]
        /\ UNCHANGED <<gc_store, memories, live_memories>>
    BY <1>12 DEF NewFails, counters, pools
  <2>3. lost'.memories = lost.memories \cup owned_memories[cur[t]]
    BY <1>0, <1>12 DEF NewFails, LostType
  <2>4. owned_memories[cur[t]] \in SUBSET HeldMemories
    BY <1>1, <2>1 DEF SlotTypes, HeldMemories
  <2>5. \A i \in Instances : owned_memories'[i] = IF i = cur[t] THEN {} ELSE owned_memories[i]
    BY <1>1, <2>2 DEF SlotTypes
  <2>6. \A m \in owned_memories[cur[t]] :
          /\ \A i \in Instances \ {cur[t]} : m \notin owned_memories[i]
          /\ \A u \in Stores : gc_store[u].memory # m
    <3> SUFFICES ASSUME NEW m \in owned_memories[cur[t]]
                 PROVE  /\ \A i \in Instances \ {cur[t]} : m \notin owned_memories[i]
                        /\ \A u \in Stores : gc_store[u].memory # m
      OBVIOUS
    <3>1. \A i \in Instances \ {cur[t]} : m \notin owned_memories[i]
      BY <1>1, <2>1 DEF InstancesHold
    <3>2. m # None
      BY <1>1, <2>1, StoreResourcesAssumption DEF SlotTypes, StoreResourcesAssumption
    <3> QED
      BY <1>1, <2>1, <3>1, <3>2 DEF StoresHold
  <2>7. HeldMemories' = HeldMemories \ owned_memories[cur[t]]
    BY <2>1, <2>2, <2>5, <2>6 DEF HeldMemories
  <2> QED
    BY <1>2, <2>2, <2>3, <2>4, <2>7
<1>13. CASE ((Refused(t) \/ Decrement(t)) /\ UNCHANGED lost) \/ GuardFails(t)
  <2>1. UNCHANGED <<memories, live_memories, gc_store>>
    BY <1>13 DEF Refused, Decrement, GuardFails, counters, pools
  <2>2. lost'.memories = lost.memories
    BY <1>0, <1>13 DEF GuardFails, LostType
  <2> QED
    BY <1>5, <1>13, <2>1, <2>2, ForgetsNothing
<1>14. CASE /\ UNCHANGED lost
            /\ \/ Increment(t) \/ Guard(t) \/ AllocateTable(t) \/ New(t) \/ DeallocateTables(t)
               \/ GcSlot(t) \/ GcNew(t) \/ GcCount(t) \/ DropStore(t) \/ DropHeap(t) \/ DropInstance(t)
  <2>1. UNCHANGED <<memories, live_memories, owned_memories, gc_store>>
    BY <1>14 DEF Increment, Guard, AllocateTable, New, DeallocateTables, GcSlot, GcNew, GcCount,
                 DropStore, DropHeap, DropInstance, counters, pools, instances
  <2> QED
    BY <1>5, <1>14, <2>1
<1>15. CASE GcIndex(t) /\ UNCHANGED lost
  <2>1. UNCHANGED <<memories, live_memories, owned_memories>>
    BY <1>15 DEF GcIndex, counters, instances
  <2>2. \A u \in Stores : gc_store'[u].memory = gc_store[u].memory
    BY <1>1, <1>15 DEF GcIndex, SlotTypes
  <2> QED
    BY <1>5, <1>15, <2>1, <2>2
<1> QED
  BY <1>6, <1>7, <1>8, <1>10, <1>11, <1>12, <1>13, <1>14, <1>15 DEF Step, Leak

-----------------------------------------------------------------------------
(* Tables *)

LEMMA TableStep ==
  ASSUME AccountInv, NEW t \in Stores, (Step(t) /\ UNCHANGED lost) \/ Leak(t)
  PROVE  TableAccount'
<1>0. CountInv /\ TableAccount /\ LostType
  BY DEF AccountInv, SlotInv
<1>o. /\ owned_tables \in [Instances -> SUBSET TableSlots]
      /\ \A i, j \in Instances : i # j => owned_tables[i] \cap owned_tables[j] = {}
  BY <1>0 DEF TableAccount
<1>f. IsFiniteSet(tables) /\ Cardinality(tables) \in Nat
  BY <1>0, TablesFinite, FS_CardinalityType
<1>1. ASSUME UNCHANGED <<tables, live_tables, owned_tables>>, lost'.tables = lost.tables
      PROVE  TableAccount'
  <2>1. HeldTables' = HeldTables
    BY <1>1 DEF HeldTables
  <2> QED
    BY <1>0, <1>1, <2>1 DEF TableAccount
<1>2. CASE AllocateTable(t) /\ UNCHANGED lost
  <2>1. cur[t] \in Instances
    BY <1>0, <1>2, CurrentIsOwn DEF AllocateTable, Building
  <2>2. CASE UNCHANGED <<tables, owned_tables, live_tables>>
    BY <1>1, <1>2, <2>2
  <2>3. ASSUME NEW b \in TableSlots \ tables, tables' = tables \cup {b},
               live_tables' = live_tables + 1,
               owned_tables' = [owned_tables EXCEPT ![cur[t]] = @ \cup {b}]
        PROVE  TableAccount'
    <3>1. \A i \in Instances :
            owned_tables'[i] = IF i = cur[t] THEN owned_tables[i] \cup {b} ELSE owned_tables[i]
      BY <1>o, <2>3
    <3>2. HeldTables' = HeldTables \cup {b}
      BY <2>1, <3>1 DEF HeldTables
    <3>3. \A i \in Instances : b \notin owned_tables[i]
      BY <1>0, <2>3 DEF TableAccount, HeldTables
    <3>4. \A i, j \in Instances : i # j => owned_tables'[i] \cap owned_tables'[j] = {}
      <4> SUFFICES ASSUME NEW i \in Instances, NEW j \in Instances, i # j, NEW n,
                          n \in owned_tables'[i], n \in owned_tables'[j]
                   PROVE  FALSE
        OBVIOUS
      <4>1. n \in owned_tables[i] \/ (i = cur[t] /\ n = b)
        BY <3>1
      <4>2. n \in owned_tables[j] \/ (j = cur[t] /\ n = b)
        BY <3>1
      <4> QED
        BY <1>o, <3>3, <4>1, <4>2
    <3>5. owned_tables' \in [Instances -> SUBSET TableSlots]
      BY <1>o, <2>3
    <3>6. Cardinality(tables') = Cardinality(tables) + 1
      BY <1>f, <2>3, FS_AddElement
    <3> QED
      BY <1>0, <1>2, <2>3, <3>2, <3>4, <3>5, <3>6 DEF TableAccount
  <2> QED
    BY <1>2, <2>2, <2>3 DEF AllocateTable
<1>3. CASE DeallocateTables(t) /\ UNCHANGED lost
  <2>1. cur[t] \in Instances
    BY <1>0, <1>3, CurrentIsOwn DEF DeallocateTables
  <2>2. PICK b \in owned_tables[cur[t]] :
          /\ tables' = tables \ {b} /\ live_tables' = live_tables - 1
          /\ owned_tables' = [owned_tables EXCEPT ![cur[t]] = @ \ {b}]
    BY <1>3 DEF DeallocateTables
  <2>3. b \in HeldTables /\ b \in tables
    BY <1>0, <1>o, <2>1 DEF TableAccount, HeldTables
  <2>4. \A i \in Instances \ {cur[t]} : b \notin owned_tables[i]
    BY <1>o, <2>1
  <2>5. \A i \in Instances :
          owned_tables'[i] = IF i = cur[t] THEN owned_tables[i] \ {b} ELSE owned_tables[i]
    BY <1>o, <2>2
  <2>6. HeldTables' = HeldTables \ {b}
    <3>1. \A n \in TableSlots : (\E i \in Instances : n \in owned_tables'[i]) <=>
                                  n # b /\ \E i \in Instances : n \in owned_tables[i]
      BY <2>4, <2>5
    <3> QED
      BY <3>1 DEF HeldTables
  <2>7. \A i, j \in Instances : i # j => owned_tables'[i] \cap owned_tables'[j] = {}
    BY <1>o, <2>5
  <2>8. owned_tables' \in [Instances -> SUBSET TableSlots]
    BY <1>o, <2>2
  <2>9. Cardinality(tables') = Cardinality(tables) - 1
    BY <1>f, <2>2, <2>3, FS_RemoveElement
  <2> QED
    BY <1>0, <1>3, <2>2, <2>3, <2>6, <2>7, <2>8, <2>9 DEF TableAccount
<1>4. CASE NewFails(t)
  <2>1. cur[t] \in Instances
    BY <1>0, <1>4, CurrentIsOwn DEF NewFails, Goto, Building
  <2>2. /\ owned_tables' = [owned_tables EXCEPT ![cur[t]] = {}]
        /\ UNCHANGED <<tables, live_tables>>
    BY <1>4 DEF NewFails, counters, pools
  <2>3. lost'.tables = lost.tables \cup owned_tables[cur[t]]
    BY <1>0, <1>4 DEF NewFails, LostType
  <2>4. owned_tables[cur[t]] \subseteq HeldTables /\ owned_tables[cur[t]] \subseteq TableSlots
    BY <1>o, <2>1 DEF HeldTables
  <2>5. \A i \in Instances : owned_tables'[i] = IF i = cur[t] THEN {} ELSE owned_tables[i]
    BY <1>o, <2>2
  <2>6. HeldTables' = HeldTables \ owned_tables[cur[t]]
    <3>1. \A n \in TableSlots : (\E i \in Instances : n \in owned_tables'[i]) <=>
            n \notin owned_tables[cur[t]] /\ \E i \in Instances : n \in owned_tables[i]
      BY <1>o, <2>1, <2>5
    <3> QED
      BY <3>1 DEF HeldTables
  <2>7. \A i, j \in Instances : i # j => owned_tables'[i] \cap owned_tables'[j] = {}
    BY <1>o, <2>5
  <2>8. owned_tables' \in [Instances -> SUBSET TableSlots]
    BY <1>o, <2>2
  <2> QED
    BY <1>0, <2>2, <2>3, <2>4, <2>6, <2>7, <2>8 DEF TableAccount
<1>5. CASE ((Refused(t) \/ Decrement(t)) /\ UNCHANGED lost) \/ GuardFails(t)
  <2>1. UNCHANGED <<tables, live_tables>>
    BY <1>5 DEF Refused, Decrement, GuardFails, counters, pools
  <2>2. lost'.tables = lost.tables
    BY <1>0, <1>5 DEF GuardFails, LostType
  <2> QED
    BY <1>1, <1>5, <2>1, <2>2, ForgetsNothing
<1>6. CASE GcLimit(t) \/ GcNewFails(t)
  <2>1. UNCHANGED <<tables, live_tables, owned_tables>>
    BY <1>6 DEF GcLimit, GcNewFails, counters, pools, instances
  <2>2. lost'.tables = lost.tables
    BY <1>0, <1>6 DEF GcLimit, GcNewFails, LostType
  <2> QED
    BY <1>1, <2>1, <2>2
<1>7. CASE /\ UNCHANGED lost
           /\ \/ Increment(t) \/ Guard(t) \/ AllocateMemory(t) \/ New(t) \/ DeallocateMemories(t)
              \/ GcMemory(t) \/ GcIndex(t) \/ GcSlot(t) \/ GcNew(t) \/ GcCount(t)
              \/ DropStore(t) \/ DropHeap(t) \/ DropMemory(t) \/ DropInstance(t)
  <2>1. UNCHANGED <<tables, live_tables, owned_tables>>
    BY <1>7 DEF Increment, Guard, AllocateMemory, New, DeallocateMemories, GcMemory, GcIndex, GcSlot,
                GcNew, GcCount, DropStore, DropHeap, DropMemory, DropInstance, counters, pools, instances
  <2> QED
    BY <1>1, <1>7, <2>1
<1> QED
  BY <1>2, <1>3, <1>4, <1>5, <1>6, <1>7 DEF Step, Leak

-----------------------------------------------------------------------------
(* GC heaps *)

\* An index is held until it is freed, and a heap is counted from the end of its
\* allocation to the start of its deallocation.
LEMMA HeapStep ==
  ASSUME AccountInv, NEW t \in Stores, (Step(t) /\ UNCHANGED lost) \/ Leak(t)
  PROVE  HeapAccount'
<1>0. SlotInv /\ HeapAccount /\ LostType
  BY DEF AccountInv
<1>1. SlotTypes /\ GcStore(t) /\ OneHeap /\ pc \in [Stores -> Places]
  BY <1>0 DEF SlotInv, GcStores, CountInv, CountTypes
<1>f. IsFiniteSet(CountedHeaps) /\ Cardinality(CountedHeaps) \in Nat
  BY <1>0, CountedHeapsFinite, FS_CardinalityType
<1>n. None \notin HeapSlots
  BY StoreResourcesAssumption DEF StoreResourcesAssumption
\* The store moves on, and its heap is held and counted as before.
<1>2. ASSUME UNCHANGED <<gc_heaps, live_gc_heaps>>, lost'.gc_heaps = lost.gc_heaps,
             \A u \in Stores \ {t} : pc'[u] = pc[u] /\ gc_store'[u] = gc_store[u],
             \/ gc_store'[t].heap = gc_store[t].heap
                /\ (pc[t] = "drop_memory" <=> pc'[t] = "drop_memory")
             \/ pc[t] = "drop_memory" /\ gc_store'[t].heap = None,
             (gc_store'[t].heap # None /\ pc'[t] \notin Uncounted) <=>
               (gc_store[t].heap # None /\ pc[t] \notin Uncounted)
      PROVE  HeapAccount'
  <2>1. HeldHeaps' = HeldHeaps
    BY <1>2, <1>n DEF HeldHeaps
  <2>2. CountedHeaps' = CountedHeaps
    BY <1>2 DEF CountedHeaps
  <2> QED
    BY <1>0, <1>2, <2>1, <2>2 DEF HeapAccount
<1>3. CASE GcIndex(t) /\ UNCHANGED lost
  <2>1. PICK h \in HeapSlots \ gc_heaps :
          gc_heaps' = gc_heaps \cup {h} /\ gc_store' = [gc_store EXCEPT ![t].heap = h]
    BY <1>3 DEF GcIndex
  <2>2. /\ pc[t] = "gc_index" /\ pc'[t] = "gc_slot" /\ gc_store[t].heap = None
        /\ \A u \in Stores \ {t} : pc'[u] = pc[u]
        /\ UNCHANGED live_gc_heaps
    BY <1>1, <1>3 DEF GcIndex, Goto, GcStore, counters
  <2>3. gc_store'[t].heap = h /\ \A u \in Stores \ {t} : gc_store'[u] = gc_store[u]
    BY <1>1, <2>1 DEF SlotTypes
  <2>4. HeldHeaps' = HeldHeaps \cup {h}
    BY <1>n, <2>2, <2>3 DEF HeldHeaps
  <2>5. CountedHeaps' = CountedHeaps
    BY <2>2, <2>3 DEF CountedHeaps, Uncounted
  <2> QED
    BY <1>0, <1>3, <2>1, <2>2, <2>4, <2>5 DEF HeapAccount
<1>4. CASE GcCount(t) /\ UNCHANGED lost
  <2>1. /\ pc[t] = "gc_count" /\ pc'[t] = "idle" /\ gc_store[t].heap # None
        /\ \A u \in Stores \ {t} : pc'[u] = pc[u]
        /\ live_gc_heaps' = live_gc_heaps + 1 /\ UNCHANGED <<gc_heaps, gc_store>>
    BY <1>1, <1>4 DEF GcCount, Goto, GcStore, WithHeap, pools
  <2>2. HeldHeaps' = HeldHeaps
    BY <2>1 DEF HeldHeaps
  <2>3. CountedHeaps' = CountedHeaps \cup {t} /\ t \notin CountedHeaps
    BY <2>1 DEF CountedHeaps, Uncounted
  <2>4. Cardinality(CountedHeaps') = Cardinality(CountedHeaps) + 1
    BY <1>f, <2>3, FS_AddElement
  <2> QED
    BY <1>0, <1>4, <2>1, <2>2, <2>4 DEF HeapAccount
<1>5. CASE DropHeap(t) /\ UNCHANGED lost
  <2>1. CASE Goto(t, "drop_heap", "drop_index")
    <3>1. /\ pc[t] = "drop_heap" /\ pc'[t] = "drop_index" /\ gc_store[t].heap # None
          /\ \A u \in Stores \ {t} : pc'[u] = pc[u]
          /\ live_gc_heaps' = live_gc_heaps - 1 /\ UNCHANGED <<gc_heaps, gc_store>>
      BY <1>1, <1>5, <2>1 DEF DropHeap, Goto, GcStore, WithHeap
    <3>2. HeldHeaps' = HeldHeaps
      BY <3>1 DEF HeldHeaps
    <3>3. CountedHeaps' = CountedHeaps \ {t} /\ t \in CountedHeaps
      BY <3>1 DEF CountedHeaps, Uncounted
    <3>4. Cardinality(CountedHeaps') = Cardinality(CountedHeaps) - 1
      BY <1>f, <3>3, FS_RemoveElement
    <3> QED
      BY <1>0, <1>5, <3>1, <3>2, <3>4 DEF HeapAccount
  <2>2. CASE Goto(t, "drop_index", "drop_memory")
    <3>1. /\ pc[t] = "drop_index" /\ pc'[t] = "drop_memory" /\ gc_store[t].heap # None
          /\ \A u \in Stores \ {t} : pc'[u] = pc[u]
          /\ UNCHANGED <<live_gc_heaps, gc_store>>
          /\ gc_heaps' = gc_heaps \ {gc_store[t].heap}
      BY <1>1, <1>5, <2>2 DEF DropHeap, Goto, GcStore, WithHeap, counters
    <3>2. \A u \in Stores \ {t} : pc[u] # "drop_memory" => gc_store[u].heap # gc_store[t].heap
      BY <1>1, <3>1 DEF OneHeap
    <3>3. HeldHeaps' = HeldHeaps \ {gc_store[t].heap}
      BY <3>1, <3>2 DEF HeldHeaps
    <3>4. gc_store[t].heap \in HeldHeaps
      BY <1>1, <3>1 DEF HeldHeaps, SlotTypes
    <3>5. CountedHeaps' = CountedHeaps
      BY <3>1 DEF CountedHeaps, Uncounted
    <3> QED
      BY <1>0, <1>5, <3>1, <3>3, <3>4, <3>5 DEF HeapAccount
  <2> QED
    BY <1>5, <2>1, <2>2 DEF DropHeap
<1>6. CASE GcNewFails(t)
  <2>1. /\ pc[t] = "gc_new" /\ pc'[t] = "idle" /\ gc_store[t].heap # None
        /\ \A u \in Stores \ {t} : pc'[u] = pc[u]
        /\ UNCHANGED <<gc_heaps, live_gc_heaps>>
        /\ gc_store' = [gc_store EXCEPT ![t] = NoHeap]
    BY <1>1, <1>6 DEF GcNewFails, Goto, GcStore, WithHeap, counters, pools
  <2>2. gc_store'[t].heap = None /\ \A u \in Stores \ {t} : gc_store'[u] = gc_store[u]
    BY <1>1, <2>1 DEF SlotTypes, NoHeap
  <2>3. lost'.gc_heaps = lost.gc_heaps \cup {gc_store[t].heap}
    BY <1>0, <1>6 DEF GcNewFails, LostType
  <2>4. \A u \in Stores \ {t} : pc[u] # "drop_memory" => gc_store[u].heap # gc_store[t].heap
    BY <1>1, <2>1 DEF OneHeap
  <2>5. HeldHeaps' = HeldHeaps \ {gc_store[t].heap}
    BY <1>n, <2>1, <2>2, <2>4 DEF HeldHeaps
  <2>6. gc_store[t].heap \in HeldHeaps /\ gc_store[t].heap \in HeapSlots
    BY <1>1, <2>1 DEF HeldHeaps, SlotTypes
  <2>7. CountedHeaps' = CountedHeaps
    BY <2>1, <2>2 DEF CountedHeaps, Uncounted
  <2> QED
    BY <1>0, <2>1, <2>3, <2>5, <2>6, <2>7 DEF HeapAccount
<1>7. CASE GcLimit(t) \/ (DropMemory(t) /\ UNCHANGED lost)
  <2>1. /\ gc_store' = [gc_store EXCEPT ![t] = NoHeap]
        /\ UNCHANGED <<gc_heaps, live_gc_heaps>>
    BY <1>7 DEF GcLimit, DropMemory, counters, pools
  <2>2. gc_store'[t].heap = None /\ \A u \in Stores \ {t} : gc_store'[u] = gc_store[u]
    BY <1>1, <2>1 DEF SlotTypes, NoHeap
  <2>3. lost'.gc_heaps = lost.gc_heaps
    BY <1>0, <1>7 DEF GcLimit, LostType
  <2>4. /\ \A u \in Stores \ {t} : pc'[u] = pc[u]
        /\ pc'[t] \in {"idle", "drop"}
        /\ pc[t] = "drop_memory" \/ (pc[t] = "gc_index" /\ gc_store[t].heap = None)
    BY <1>1, <1>7 DEF GcLimit, DropMemory, Goto, GcStore
  <2> QED
    BY <1>2, <2>1, <2>2, <2>3, <2>4 DEF Uncounted
<1>8. CASE GcMemory(t) /\ UNCHANGED lost
  <2>1. /\ gc_store'[t].heap = gc_store[t].heap /\ gc_store[t].heap = None
        /\ \A u \in Stores \ {t} : gc_store'[u] = gc_store[u]
        /\ UNCHANGED <<gc_heaps, live_gc_heaps>>
    BY <1>1, <1>8 DEF GcMemory, SlotTypes, NoHeap
  <2>2. /\ \A u \in Stores \ {t} : pc'[u] = pc[u]
        /\ pc[t] = "idle" /\ pc'[t] = "gc_index"
    BY <1>1, <1>8 DEF GcMemory, Goto
  <2> QED
    BY <1>2, <1>8, <2>1, <2>2
\* Steps that have nothing to do with the index or the count of a heap.
<1>9. ASSUME UNCHANGED <<gc_heaps, live_gc_heaps, gc_store>>, lost'.gc_heaps = lost.gc_heaps,
             \A u \in Stores \ {t} : pc'[u] = pc[u],
             \/ {pc[t], pc'[t]} \subseteq Quiet \cup {"drop_heap"}
             \/ {pc[t], pc'[t]} \subseteq {"gc_slot", "gc_new", "gc_count"}
      PROVE  HeapAccount'
  <2>1. /\ pc[t] \in Uncounted <=> pc'[t] \in Uncounted
        /\ pc[t] = "drop_memory" <=> pc'[t] = "drop_memory"
    BY <1>9 DEF Uncounted, Quiet, Building
  <2> QED
    BY <1>2, <1>9, <2>1
<1>10. CASE (GcSlot(t) \/ GcNew(t) \/ DropStore(t) \/ DropInstance(t)) /\ UNCHANGED lost
  <2>1. UNCHANGED <<gc_heaps, live_gc_heaps, gc_store>>
    BY <1>10 DEF GcSlot, GcNew, DropStore, DropInstance, counters, pools
  <2>2. /\ \A u \in Stores \ {t} : pc'[u] = pc[u]
        /\ \/ {pc[t], pc'[t]} \subseteq Quiet \cup {"drop_heap"}
           \/ {pc[t], pc'[t]} \subseteq {"gc_slot", "gc_new", "gc_count"}
    BY <1>1, <1>10 DEF GcSlot, GcNew, DropStore, DropInstance, Goto, Quiet, Building
  <2> QED
    BY <1>9, <1>10, <2>1, <2>2
<1>11. CASE \/ /\ Increment(t) \/ Refused(t) \/ Guard(t) \/ New(t) \/ Decrement(t)
               /\ UNCHANGED lost
            \/ GuardFails(t) \/ NewFails(t)
  <2>1. UNCHANGED <<gc_heaps, live_gc_heaps, gc_store>>
    BY <1>11 DEF Increment, Refused, Guard, New, Decrement, GuardFails, NewFails, counters, pools
  <2>2. lost'.gc_heaps = lost.gc_heaps
    BY <1>0, <1>11 DEF GuardFails, NewFails, LostType
  <2>3. /\ \A u \in Stores \ {t} : pc'[u] = pc[u]
        /\ {pc[t], pc'[t]} \subseteq Quiet \cup {"drop_heap"}
    BY <1>1, <1>11 DEF Increment, Refused, Guard, New, Decrement, GuardFails, NewFails, Goto,
                       Quiet, Building
  <2> QED
    BY <1>9, <2>1, <2>2, <2>3
<1>12. CASE /\ UNCHANGED lost
            /\ \/ AllocateMemory(t) \/ AllocateTable(t) \/ DeallocateMemories(t) \/ DeallocateTables(t)
  <2>1. UNCHANGED <<gc_heaps, live_gc_heaps, gc_store>>
    BY <1>12 DEF AllocateMemory, AllocateTable, DeallocateMemories, DeallocateTables
  <2>2. /\ \A u \in Stores \ {t} : pc'[u] = pc[u]
        /\ {pc[t], pc'[t]} \subseteq Quiet \cup {"drop_heap"}
    BY <1>1, <1>12 DEF AllocateMemory, AllocateTable, DeallocateMemories, DeallocateTables, Goto,
                       Quiet, Building
  <2> QED
    BY <1>9, <1>12, <2>1, <2>2
<1> QED
  BY <1>3, <1>4, <1>5, <1>6, <1>7, <1>8, <1>10, <1>11, <1>12 DEF Step, Leak

-----------------------------------------------------------------------------

\* Every step preserves the invariant.
LEMMA StepAccounts == AccountInv /\ [Next]_vars => AccountInv'
<1> SUFFICES ASSUME AccountInv, [Next]_vars PROVE AccountInv'
  OBVIOUS
<1>0. SlotInv'
  BY StepSlots DEF AccountInv
<1>1. CASE UNCHANGED vars
  <2> USE <1>1 DEF vars, counters, pools, instances
  <2>1. Unowned' /\ LostType'
    BY DEF AccountInv, Unowned, OwnsNothing, LostType
  <2>2. InstanceAccount'
    BY DEF AccountInv, InstanceAccount, Counted
  <2>3. MemoryAccount'
    BY DEF AccountInv, MemoryAccount, HeldMemories
  <2>4. TableAccount'
    BY DEF AccountInv, TableAccount, HeldTables
  <2>5. HeapAccount'
    BY DEF AccountInv, HeapAccount, HeldHeaps, CountedHeaps
  <2> QED
    BY <1>0, <2>1, <2>2, <2>3, <2>4, <2>5 DEF AccountInv
<1>2. ASSUME NEW t \in Stores, (Step(t) /\ UNCHANGED lost) \/ Leak(t) PROVE AccountInv'
  BY <1>0, <1>2, LostStep, UnownedStep, InstanceStep, MemoryStep, TableStep, HeapStep DEF AccountInv
<1> QED
  BY <1>1, <1>2 DEF Next

\* The accounts are balanced in every state.
THEOREM AccountsBalance == Spec => []AccountInv
<1>1. Init => AccountInv
  BY InitAccounts
<1>2. AccountInv /\ [Next]_vars => AccountInv'
  BY StepAccounts
<1> QED
  BY <1>1, <1>2, PTL DEF Spec

\* Every count and slot that allocate_module and allocate_gc_store take is held by an
\* instance or a store until deallocate_module or the drop of the store gives it back,
\* once; only the early returns of Leak give anything up.
THEOREM NothingElseLeaks == Spec => []Conserved
<1>1. AccountInv => Conserved
  <2> SUFFICES ASSUME AccountInv PROVE Conserved
    OBVIOUS
  <2> DEFINE owned == {x[2] : x \in Holdings}
             owned_heaps == {gc_store[t].heap : t \in {u \in Stores : pc[u] # "drop_memory"}} \ {None}
  <2>0. SlotInv /\ CountTypes /\ SlotTypes
    BY DEF AccountInv, SlotInv, CountInv
  <2>1. TypeOK
    <3>1. /\ live_memories \in 0 .. Cardinality(MemorySlots)
          /\ live_tables \in 0 .. Cardinality(TableSlots)
          /\ live_gc_heaps \in 0 .. Cardinality(HeapSlots)
      BY <2>0, SlotsFinite, TablesFinite, CountedHeapsFinite
         DEF AccountInv, MemoryAccount, TableAccount, HeapAccount
    <3> QED
      BY <2>0, <3>1 DEF TypeOK, AccountInv, TableAccount, LostType, CountTypes, SlotTypes
  <2>2. owned = HeldMemories
    <3>1. ASSUME NEW m \in owned PROVE m \in HeldMemories
      BY <3>1 DEF Holdings, HeldMemories
    <3>2. ASSUME NEW m \in HeldMemories PROVE m \in owned
      <4>1. ASSUME NEW i \in Instances, m \in owned_memories[i] PROVE m \in owned
        <5>1. <<i, m>> \in Holdings
          BY <4>1 DEF Holdings, HeldMemories
        <5> QED
          BY <5>1
      <4>2. ASSUME NEW t \in Stores, gc_store[t].memory = m PROVE m \in owned
        <5>1. <<t, m>> \in Holdings
          BY <4>2 DEF Holdings, HeldMemories
        <5> QED
          BY <5>1
      <4> QED
        BY <4>1, <4>2 DEF HeldMemories
    <3> QED
      BY <3>1, <3>2
  <2>3. owned_heaps = HeldHeaps
    BY <2>0, StoreResourcesAssumption DEF HeldHeaps, SlotTypes, StoreResourcesAssumption
  <2>4. UNION {owned_tables[i] : i \in Instances} = HeldTables
    BY DEF HeldTables, AccountInv, TableAccount
  <2>5. CountedHeaps = {t \in Stores : gc_store[t].heap # None
           /\ pc[t] \notin {"gc_slot", "gc_new", "gc_count", "drop_index", "drop_memory"}}
    BY DEF CountedHeaps, Uncounted
  <2>6. live_core_instances = Cardinality({i \in Instances : status[i] # "none"}) + lost.instances
    BY DEF AccountInv, InstanceAccount, Counted
  <2>7. /\ memories = owned \cup lost.memories /\ owned \cap lost.memories = {}
        /\ live_memories = Cardinality(memories)
    BY <2>2 DEF AccountInv, MemoryAccount
  <2>8. /\ tables = (UNION {owned_tables[i] : i \in Instances}) \cup lost.tables
        /\ live_tables = Cardinality(tables)
    <3>1. tables = HeldTables \cup lost.tables /\ live_tables = Cardinality(tables)
      BY DEF AccountInv, TableAccount
    <3> QED
      BY <2>4, <3>1
  <2>9. gc_heaps = owned_heaps \cup lost.gc_heaps /\ live_gc_heaps = Cardinality(CountedHeaps)
    BY <2>3 DEF AccountInv, HeapAccount
  <2> QED
    BY <2>1, <2>5, <2>6, <2>7, <2>8, <2>9 DEF Conserved
<1> QED
  BY <1>1, AccountsBalance, PTL
=============================================================================
