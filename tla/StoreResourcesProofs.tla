------------------------- MODULE StoreResourcesProofs -------------------------
(***************************************************************************)
(* The limit on core instances holds for any number of stores, instances   *)
(* and slots, also when the host runs out of memory.  WithinLimit is not   *)
(* inductive: it needs that the counter is at least the number of          *)
(* instances that were counted, and for that, that a store only ever       *)
(* counts down for an instance that it counted up itself.                  *)
(***************************************************************************)
EXTENDS StoreResources, FiniteSetTheorems, TLAPS

\* Where a store is in the middle of building an instance.
Building == {"guard", "memories", "tables", "new"}

\* Instances that have been counted up and not down again.
Counted == {i \in Instances : status[i] # "none"}

Places ==
  {"idle", "refused", "unwind", "drop", "drop_heap", "drop_index", "drop_memory",
   "gc_index", "gc_slot", "gc_new", "gc_count"} \cup Building

CountTypes ==
  /\ live_core_instances \in Nat
  /\ status \in [Instances -> {"none", "refused", "building", "live"}]
  /\ store \in [Instances -> Stores \cup {None}]
  /\ cur \in [Stores -> Instances \cup {None}]
  /\ pc \in [Stores -> Places]

\* What a store is doing agrees with the status of its current instance.
Current(t) ==
  /\ pc[t] \in {"refused", "unwind"} \cup Building =>
       cur[t] \in Instances /\ store[cur[t]] = t
  /\ pc[t] = "refused" => status[cur[t]] = "refused"
  /\ pc[t] \in Building => status[cur[t]] = "building"
  /\ pc[t] = "unwind" => status[cur[t]] \in {"building", "live"}

CurrentAgrees == \A t \in Stores : Current(t)

\* An unused instance belongs to no store; one that is not finished is the
\* current instance of its store.
Owner(i) ==
  /\ status[i] = "none" <=> store[i] = None
  /\ status[i] \in {"refused", "building"} =>
       /\ cur[store[i]] = i
       /\ pc[store[i]] \in {"refused", "unwind"} \cup Building

OwnersAgree == \A i \in Instances : Owner(i)

\* The inductive invariant.
CountInv ==
  /\ CountTypes
  /\ CurrentAgrees
  /\ OwnersAgree
  /\ Cardinality(Counted) <= live_core_instances
  /\ WithinLimit

-----------------------------------------------------------------------------

\* The sets of instances that are counted are finite.
LEMMA CountedFinite ==
  /\ IsFiniteSet(Counted) /\ IsFiniteSet(Admitted)
  /\ Cardinality(Counted) \in Nat /\ Cardinality(Admitted) \in Nat
  /\ Cardinality(Admitted) <= Cardinality(Counted)
<1>1. Counted \subseteq Instances /\ Admitted \subseteq Counted
  BY DEF Counted, Admitted
<1>2. IsFiniteSet(Counted)
  BY <1>1, FS_Subset, StoreResourcesAssumption DEF StoreResourcesAssumption
<1>3. IsFiniteSet(Admitted) /\ Cardinality(Admitted) <= Cardinality(Counted)
  BY <1>1, <1>2, FS_Subset
<1> QED
  BY <1>2, <1>3, FS_CardinalityType

\* The same of the next state.
LEMMA CountedFiniteNext ==
  /\ IsFiniteSet(Counted') /\ IsFiniteSet(Admitted')
  /\ Cardinality(Counted') \in Nat /\ Cardinality(Admitted') \in Nat
  /\ Cardinality(Admitted') <= Cardinality(Counted')
<1>1. Counted' \subseteq Instances /\ Admitted' \subseteq Counted'
  BY DEF Counted, Admitted
<1>2. IsFiniteSet(Counted')
  BY <1>1, FS_Subset, StoreResourcesAssumption DEF StoreResourcesAssumption
<1>3. IsFiniteSet(Admitted') /\ Cardinality(Admitted') <= Cardinality(Counted')
  BY <1>1, <1>2, FS_Subset
<1> QED
  BY <1>2, <1>3, FS_CardinalityType

\* Init: nothing is counted.
LEMMA InitCount == Init => CountInv
<1> SUFFICES ASSUME Init PROVE CountInv
  OBVIOUS
<1> USE DEF Init
<1>1. CountTypes
  BY DEF CountTypes, Places
<1>2. CurrentAgrees
  BY DEF CurrentAgrees, Current, Building
<1>3. OwnersAgree
  BY DEF OwnersAgree, Owner
<1>4. Counted = {} /\ Admitted = {}
  BY DEF Counted, Admitted
<1>5. Cardinality(Counted) <= live_core_instances /\ WithinLimit
  BY <1>4, FS_EmptySet, StoreResourcesAssumption DEF WithinLimit, StoreResourcesAssumption
<1> QED
  BY <1>1, <1>2, <1>3, <1>5 DEF CountInv

\* Nothing is counted up or down while a store moves on without touching the
\* status of an instance; only where the store is may change.
LEMMA Moves ==
  ASSUME CountInv, NEW t \in Stores,
         UNCHANGED <<live_core_instances, status, store>>,
         pc' \in [Stores -> Places], cur' \in [Stores -> Instances \cup {None}],
         \A u \in Stores \ {t} : pc'[u] = pc[u] /\ cur'[u] = cur[u],
         \/ pc'[t] \in Building /\ pc[t] \in Building /\ cur'[t] = cur[t]
         \/ pc'[t] = "unwind" /\ pc[t] \in {"unwind"} \cup Building /\ cur'[t] = cur[t]
         \/ /\ pc'[t] = "unwind" /\ pc[t] = "drop"
            /\ cur'[t] \in Instances /\ store[cur'[t]] = t
         \/ /\ pc[t] \notin {"refused", "unwind"} \cup Building
            /\ pc'[t] \notin {"refused", "unwind"} \cup Building
  PROVE  CountInv'
<1> USE DEF CountInv
<1>1. CountTypes'
  BY DEF CountTypes
<1>2. CurrentAgrees'
  <2> SUFFICES ASSUME NEW u \in Stores
               PROVE  Current(u)'
    BY DEF CurrentAgrees
  <2>1. CASE u # t
    BY <2>1 DEF CurrentAgrees, Current
  <2>2. CASE /\ u = t /\ cur'[t] = cur[t]
             /\ \/ pc'[t] \in Building /\ pc[t] \in Building
                \/ pc'[t] = "unwind" /\ pc[t] \in {"unwind"} \cup Building
    BY <2>2 DEF CurrentAgrees, Current, Building
  <2>3. CASE /\ u = t /\ pc[t] = "drop" /\ pc'[t] = "unwind"
             /\ cur'[t] \in Instances /\ store[cur'[t]] = t
    <3>1. status[cur'[t]] # "none"
      BY <2>3, StoreResourcesAssumption DEF OwnersAgree, Owner, StoreResourcesAssumption
    <3>2. status[cur'[t]] \notin {"refused", "building"}
      BY <2>3 DEF OwnersAgree, Owner, Building
    <3>3. status[cur'[t]] = "live"
      BY <2>3, <3>1, <3>2 DEF CountTypes
    <3> QED
      BY <2>3, <3>3 DEF Current, Building
  <2>4. CASE u = t /\ pc'[t] \notin {"refused", "unwind"} \cup Building
    BY <2>4 DEF Current, Building
  <2> QED
    BY <2>1, <2>2, <2>3, <2>4
<1>3. OwnersAgree'
  <2> SUFFICES ASSUME NEW i \in Instances
               PROVE  Owner(i)'
    BY DEF OwnersAgree
  <2>1. status'[i] = "none" <=> store'[i] = None
    BY DEF OwnersAgree, Owner
  <2>2. ASSUME status[i] \in {"refused", "building"}
        PROVE  cur'[store[i]] = i /\ pc'[store[i]] \in {"refused", "unwind"} \cup Building
    <3>1. store[i] \in Stores
      BY <2>2 DEF OwnersAgree, Owner, CountTypes
    <3>2. cur[store[i]] = i /\ pc[store[i]] \in {"refused", "unwind"} \cup Building
      BY <2>2 DEF OwnersAgree, Owner
    <3>3. CASE store[i] # t
      BY <3>1, <3>2, <3>3
    <3>4. CASE store[i] = t
      BY <3>2, <3>4 DEF Building
    <3> QED
      BY <3>3, <3>4
  <2> QED
    BY <2>1, <2>2 DEF Owner
<1>4. Counted' = Counted /\ Admitted' = Admitted
  BY DEF Counted, Admitted
<1> QED
  BY <1>1, <1>2, <1>3, <1>4 DEF WithinLimit

\* A store gives up or finishes its current instance, and counts down for it at
\* most once.
LEMMA Ends ==
  ASSUME CountInv, NEW t \in Stores,
         pc[t] \in {"refused", "unwind"} \cup Building,
         NEW to \in {"idle", "drop"}, pc' = [pc EXCEPT ![t] = to],
         Forget(t, cur[t]),
         live_core_instances' \in {live_core_instances, live_core_instances - 1}
  PROVE  CountInv'
<1> DEFINE i == cur[t]
<1> USE DEF CountInv
<1>1. i \in Instances /\ store[i] = t /\ status[i] # "none"
  BY StoreResourcesAssumption DEF CurrentAgrees, Current, OwnersAgree, Owner, StoreResourcesAssumption
<1>2. Counted' = Counted \ {i} /\ Admitted' \subseteq Admitted /\ i \in Counted
  BY <1>1 DEF Counted, Admitted, Forget, CountTypes
<1>3. Cardinality(Counted') = Cardinality(Counted) - 1
  BY <1>2, CountedFinite, FS_RemoveElement
<1>4. Cardinality(Admitted') <= Cardinality(Admitted)
  BY <1>2, CountedFinite, FS_Subset
<1>5. CountTypes'
  <2>1. live_core_instances' \in Nat
    BY <1>3, CountedFinite, CountedFiniteNext DEF CountTypes
  <2>2. to \in Places
    BY DEF Places
  <2> QED
    BY <1>1, <2>1, <2>2 DEF CountTypes, Forget
<1>6. CurrentAgrees'
  <2> SUFFICES ASSUME NEW u \in Stores
               PROVE  Current(u)'
    BY DEF CurrentAgrees
  <2>1. CASE u = t
    BY <2>1 DEF Current, Building, CountTypes
  <2>2. CASE u # t
    <3>1. pc'[u] = pc[u] /\ cur'[u] = cur[u]
      BY <2>2 DEF Forget, CountTypes
    <3>2. pc[u] \in {"refused", "unwind"} \cup Building => cur[u] # i
      BY <1>1, <2>2 DEF CurrentAgrees, Current
    <3>3. \A j \in Instances \ {i} : status'[j] = status[j] /\ store'[j] = store[j]
      BY DEF Forget, CountTypes
    <3> QED
      BY <3>1, <3>2, <3>3 DEF CurrentAgrees, Current
  <2> QED
    BY <2>1, <2>2
<1>7. OwnersAgree'
  <2> SUFFICES ASSUME NEW j \in Instances
               PROVE  Owner(j)'
    BY DEF OwnersAgree
  <2>1. CASE j = i
    BY <2>1 DEF Owner, Forget, CountTypes
  <2>2. CASE j # i
    <3>1. status'[j] = status[j] /\ store'[j] = store[j]
      BY <2>2 DEF Forget, CountTypes
    <3>2. ASSUME status[j] \in {"refused", "building"}
          PROVE  cur'[store[j]] = j /\ pc'[store[j]] = pc[store[j]]
      BY <2>2, <3>2 DEF OwnersAgree, Owner, CountTypes, Forget
    <3> QED
      BY <3>1, <3>2 DEF OwnersAgree, Owner
  <2> QED
    BY <2>1, <2>2
<1>8. Cardinality(Counted') <= live_core_instances' /\ WithinLimit'
  BY <1>3, <1>4, CountedFinite, CountedFiniteNext, StoreResourcesAssumption
     DEF CountTypes, WithinLimit, StoreResourcesAssumption
<1> QED
  BY <1>5, <1>6, <1>7, <1>8

\* Counting up: an instance is admitted only below the limit.
LEMMA Starts ==
  ASSUME CountInv, NEW t \in Stores, Increment(t)
  PROVE  CountInv'
<1> USE DEF CountInv
<1> DEFINE full == live_core_instances >= TotalCoreInstances
<1>0. PICK i \in Instances :
        /\ status[i] = "none" /\ pc[t] = "idle"
        /\ live_core_instances' = live_core_instances + 1
        /\ status' = [status EXCEPT ![i] = IF full THEN "refused" ELSE "building"]
        /\ pc' = [pc EXCEPT ![t] = IF full THEN "refused" ELSE "guard"]
        /\ store' = [store EXCEPT ![i] = t] /\ cur' = [cur EXCEPT ![t] = i]
  BY DEF Increment, Goto
<1>1. store[i] = None
  BY <1>0 DEF OwnersAgree, Owner
<1> HIDE DEF full
<1>2. Counted' = Counted \cup {i} /\ i \notin Counted
  BY <1>0, <1>1 DEF Counted, CountTypes
<1>3. Cardinality(Counted') = Cardinality(Counted) + 1
  BY <1>2, CountedFinite, FS_AddElement
<1>4. CountTypes'
  BY <1>0, <1>1 DEF CountTypes, Places, Building
<1>5. CurrentAgrees'
  <2> SUFFICES ASSUME NEW u \in Stores
               PROVE  Current(u)'
    BY DEF CurrentAgrees
  <2>1. CASE u = t
    BY <1>0, <1>1, <2>1 DEF Current, Building, CountTypes
  <2>2. CASE u # t
    <3>1. pc'[u] = pc[u] /\ cur'[u] = cur[u]
      BY <1>0, <1>1, <2>2 DEF CountTypes
    <3>2. pc[u] \in {"refused", "unwind"} \cup Building => cur[u] # i
      BY <1>0, <1>1, StoreResourcesAssumption DEF CurrentAgrees, Current, StoreResourcesAssumption
    <3>3. \A j \in Instances \ {i} : status'[j] = status[j] /\ store'[j] = store[j]
      BY <1>0, <1>1 DEF CountTypes
    <3> QED
      BY <3>1, <3>2, <3>3 DEF CurrentAgrees, Current
  <2> QED
    BY <2>1, <2>2
<1>6. OwnersAgree'
  <2> SUFFICES ASSUME NEW j \in Instances
               PROVE  Owner(j)'
    BY DEF OwnersAgree
  <2>1. CASE j = i
    BY <1>0, <1>1, <2>1, StoreResourcesAssumption
       DEF Owner, CountTypes, Building, StoreResourcesAssumption
  <2>2. CASE j # i
    <3>1. status'[j] = status[j] /\ store'[j] = store[j]
      BY <1>0, <1>1, <2>2 DEF CountTypes
    <3>2. ASSUME status[j] \in {"refused", "building"}
          PROVE  cur'[store[j]] = cur[store[j]] /\ pc'[store[j]] = pc[store[j]]
      <4>1. store[j] # t
        BY <1>0, <1>1, <3>2 DEF OwnersAgree, Owner, Building
      <4> QED
        BY <1>0, <1>1, <3>2, <4>1 DEF CountTypes, OwnersAgree, Owner
    <3> QED
      BY <3>1, <3>2 DEF OwnersAgree, Owner
  <2> QED
    BY <2>1, <2>2
<1>7. Cardinality(Counted') <= live_core_instances'
  BY <1>0, <1>1, <1>3, CountedFinite DEF CountTypes
<1>8. WithinLimit'
  <2>1. CASE full
    <3>1. Admitted' = Admitted
      BY <1>0, <1>1, <2>1 DEF Admitted, CountTypes
    <3> QED
      BY <3>1 DEF WithinLimit
  <2>2. CASE ~full
    <3>1. Cardinality(Counted) < TotalCoreInstances
      BY <2>2, CountedFinite, StoreResourcesAssumption DEF full, CountTypes, StoreResourcesAssumption
    <3> QED
      BY <1>3, <3>1, CountedFinite, CountedFiniteNext, StoreResourcesAssumption
         DEF WithinLimit, StoreResourcesAssumption
  <2> QED
    BY <2>1, <2>2
<1> QED
  BY <1>4, <1>5, <1>6, <1>7, <1>8

\* Instance::new: the instance that was being built is now live.
LEMMA Builds ==
  ASSUME CountInv, NEW t \in Stores, New(t)
  PROVE  CountInv'
<1> DEFINE i == cur[t]
<1> USE DEF CountInv
<1>1. i \in Instances /\ store[i] = t /\ status[i] = "building"
  BY DEF New, Goto, CurrentAgrees, Current, Building
<1>2. Counted' = Counted /\ Admitted' = Admitted
  BY <1>1 DEF New, Counted, Admitted, CountTypes
<1>3. CountTypes'
  BY <1>1 DEF New, Goto, counters, CountTypes, Places
<1>4. CurrentAgrees'
  <2> SUFFICES ASSUME NEW u \in Stores
               PROVE  Current(u)'
    BY DEF CurrentAgrees
  <2>1. CASE u = t
    BY <2>1 DEF New, Goto, Current, Building, CountTypes
  <2>2. CASE u # t
    <3>1. pc'[u] = pc[u] /\ cur'[u] = cur[u] /\ store' = store
      BY <2>2 DEF New, Goto, CountTypes
    <3>2. pc[u] \in {"refused", "unwind"} \cup Building => cur[u] # i
      BY <1>1, <2>2 DEF CurrentAgrees, Current
    <3>3. \A j \in Instances \ {i} : status'[j] = status[j]
      BY DEF New, CountTypes
    <3> QED
      BY <3>1, <3>2, <3>3 DEF CurrentAgrees, Current
  <2> QED
    BY <2>1, <2>2
<1>5. OwnersAgree'
  <2> SUFFICES ASSUME NEW j \in Instances
               PROVE  Owner(j)'
    BY DEF OwnersAgree
  <2>1. CASE j = i
    BY <1>1, <2>1, StoreResourcesAssumption DEF New, Owner, CountTypes, StoreResourcesAssumption
  <2>2. CASE j # i
    <3>1. status'[j] = status[j] /\ store'[j] = store[j]
      BY <2>2 DEF New, CountTypes
    <3>2. ASSUME status[j] \in {"refused", "building"}
          PROVE  cur'[store[j]] = j /\ pc'[store[j]] = pc[store[j]]
      BY <2>2, <3>2 DEF OwnersAgree, Owner, CountTypes, New, Goto
    <3> QED
      BY <3>1, <3>2 DEF OwnersAgree, Owner
  <2> QED
    BY <2>1, <2>2
<1> QED
  BY <1>2, <1>3, <1>4, <1>5 DEF WithinLimit, New, counters

\* Every step preserves the invariant.
LEMMA StepCount == CountInv /\ [Next]_vars => CountInv'
<1> SUFFICES ASSUME CountInv, [Next]_vars PROVE CountInv'
  OBVIOUS
<1>1. CASE UNCHANGED vars
  <2>1. UNCHANGED <<live_core_instances, status, store, pc, cur>>
    BY <1>1 DEF vars, counters, instances
  <2> QED
    BY <2>1 DEF CountInv, CountTypes, CurrentAgrees, Current, OwnersAgree, Owner, Counted, Admitted, WithinLimit
<1>2. ASSUME NEW t \in Stores, Increment(t) PROVE CountInv'
  BY <1>2, Starts
<1>3. ASSUME NEW t \in Stores, New(t) PROVE CountInv'
  BY <1>3, Builds
<1>4. ASSUME NEW t \in Stores, Refused(t) \/ GuardFails(t) PROVE CountInv'
  <2>1. pc[t] \in {"refused", "unwind"} \cup Building /\ pc' = [pc EXCEPT ![t] = "idle"]
    BY <1>4 DEF Refused, GuardFails, Goto, Building
  <2>2. /\ Forget(t, cur[t])
        /\ live_core_instances' \in {live_core_instances, live_core_instances - 1}
    BY <1>4 DEF Refused, GuardFails, counters
  <2> QED
    BY <2>1, <2>2, Ends
<1>5. ASSUME NEW t \in Stores, Decrement(t) PROVE CountInv'
  <2>1. PICK to \in {"idle", "drop"} : pc' = [pc EXCEPT ![t] = to]
    BY <1>5 DEF Decrement, Goto
  <2>2. /\ pc[t] \in {"refused", "unwind"} \cup Building
        /\ Forget(t, cur[t])
        /\ live_core_instances' \in {live_core_instances, live_core_instances - 1}
    BY <1>5 DEF Decrement
  <2> QED
    BY <2>1, <2>2, Ends
<1>6. ASSUME NEW t \in Stores,
             \/ Guard(t) \/ AllocateMemory(t) \/ AllocateTable(t) \/ NewFails(t)
             \/ DeallocateMemories(t) \/ DeallocateTables(t)
      PROVE  CountInv'
  <2>1. UNCHANGED <<live_core_instances, status, store, cur>>
    BY <1>6 DEF Guard, AllocateMemory, AllocateTable, NewFails, DeallocateMemories,
                DeallocateTables, counters, instances
  <2>2. /\ pc' \in [Stores -> Places]
        /\ \A u \in Stores \ {t} : pc'[u] = pc[u]
        /\ \/ pc'[t] \in Building /\ pc[t] \in Building
           \/ pc'[t] = "unwind" /\ pc[t] \in {"unwind"} \cup Building
    <3>1. CASE Guard(t)
      BY <3>1 DEF Guard, Goto, Building, CountInv, CountTypes, Places
    <3>2. CASE AllocateMemory(t)
      BY <3>2 DEF AllocateMemory, Goto, Building, CountInv, CountTypes, Places
    <3>3. CASE AllocateTable(t)
      BY <3>3 DEF AllocateTable, Goto, Building, CountInv, CountTypes, Places
    <3>4. CASE NewFails(t)
      BY <3>4 DEF NewFails, Goto, Building, CountInv, CountTypes, Places
    <3>5. CASE DeallocateMemories(t) \/ DeallocateTables(t)
      BY <3>5 DEF DeallocateMemories, DeallocateTables, CountInv, CountTypes
    <3> QED
      BY <1>6, <3>1, <3>2, <3>3, <3>4, <3>5
  <2>3. cur' \in [Stores -> Instances \cup {None}]
    BY <2>1 DEF CountInv, CountTypes
  <2> QED
    BY <2>1, <2>2, <2>3, Moves
<1>7. ASSUME NEW t \in Stores,
             \/ GcMemory(t) \/ GcIndex(t) \/ GcLimit(t) \/ GcSlot(t) \/ GcNew(t) \/ GcNewFails(t)
             \/ GcCount(t) \/ DropStore(t) \/ DropHeap(t) \/ DropMemory(t)
      PROVE  CountInv'
  <2>1. UNCHANGED <<live_core_instances, status, store, cur>>
    BY <1>7 DEF GcMemory, GcIndex, GcLimit, GcSlot, GcNew, GcNewFails, GcCount, DropStore,
                DropHeap, DropMemory, counters, instances
  <2>2. PICK to \in Places \ ({"refused", "unwind"} \cup Building) : pc' = [pc EXCEPT ![t] = to]
    BY <1>7 DEF GcMemory, GcIndex, GcLimit, GcSlot, GcNew, GcNewFails, GcCount, DropStore,
                DropHeap, DropMemory, Goto, Places, Building
  <2>3. pc[t] \notin {"refused", "unwind"} \cup Building
    BY <1>7 DEF GcMemory, GcIndex, GcLimit, GcSlot, GcNew, GcNewFails, GcCount, DropStore,
                DropHeap, DropMemory, Goto, Building
  <2>4. /\ pc' \in [Stores -> Places] /\ \A u \in Stores \ {t} : pc'[u] = pc[u]
        /\ pc'[t] = to /\ cur' \in [Stores -> Instances \cup {None}]
    BY <2>1, <2>2 DEF CountInv, CountTypes
  <2> QED
    BY <2>1, <2>2, <2>3, <2>4, Moves
<1>8. ASSUME NEW t \in Stores, DropInstance(t) PROVE CountInv'
  <2>1. UNCHANGED <<live_core_instances, status, store>>
    BY <1>8 DEF DropInstance, counters, instances
  <2>2. CASE \E i \in Instances : /\ store[i] = t /\ Goto(t, "drop", "unwind")
                                  /\ cur' = [cur EXCEPT ![t] = i]
    <3>1. PICK i \in Instances : /\ store[i] = t /\ Goto(t, "drop", "unwind")
                                 /\ cur' = [cur EXCEPT ![t] = i]
      BY <2>2
    <3>2. /\ pc' \in [Stores -> Places] /\ cur' \in [Stores -> Instances \cup {None}]
          /\ \A u \in Stores \ {t} : pc'[u] = pc[u] /\ cur'[u] = cur[u]
          /\ pc[t] = "drop" /\ pc'[t] = "unwind" /\ cur'[t] = i
      BY <3>1 DEF Goto, CountInv, CountTypes, Places
    <3> QED
      BY <2>1, <3>1, <3>2, Moves
  <2>3. CASE Goto(t, "drop", "idle") /\ UNCHANGED cur
    <3>1. /\ pc' \in [Stores -> Places] /\ cur' \in [Stores -> Instances \cup {None}]
          /\ \A u \in Stores \ {t} : pc'[u] = pc[u] /\ cur'[u] = cur[u]
          /\ pc[t] = "drop" /\ pc'[t] = "idle"
      BY <2>3 DEF Goto, CountInv, CountTypes, Places
    <3>2. pc[t] \notin {"refused", "unwind"} \cup Building /\ pc'[t] \notin {"refused", "unwind"} \cup Building
      BY <3>1 DEF Building
    <3> QED
      BY <2>1, <3>1, <3>2, Moves
  <2> QED
    BY <1>8, <2>2, <2>3 DEF DropInstance
<1> QED
  BY <1>1, <1>2, <1>3, <1>4, <1>5, <1>6, <1>7, <1>8 DEF Next, Step, Leak

\* The counter never falls behind the instances that were counted, and no more
\* than total_core_instances exist, for any number of stores that instantiate
\* and drop at once and wherever the host runs out of memory.
THEOREM CountSafe == Spec => []CountInv
<1>1. Init => CountInv
  BY InitCount
<1>2. CountInv /\ [Next]_vars => CountInv'
  BY StepCount
<1> QED
  BY <1>1, <1>2, PTL DEF Spec

\* The limit that increment_core_instance_count enforces.
THEOREM LimitHolds == Spec => []WithinLimit
<1>1. CountInv => WithinLimit
  BY DEF CountInv
<1> QED
  BY <1>1, CountSafe, PTL
=============================================================================
