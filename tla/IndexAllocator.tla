---------------------------- MODULE IndexAllocator ----------------------------
(***************************************************************************)
(* ModuleAffinityIndexAllocator of                                         *)
(* runtime/vm/instance/allocator/pooling/index_allocator.rs: the slots of  *)
(* a pool, threaded on a list of all warm unused slots and on one list per *)
(* memory for the slots last used by it.  Every operation holds the mutex  *)
(* from start to end, so each is one action.  SimpleIndexAllocator is this *)
(* with max_unused_warm_slots = 0 and for_memory = None in all calls.      *)
(***************************************************************************)
EXTENDS Integers, FiniteSets

CONSTANTS
  Capacity,        \* number of slots
  Memories,        \* MemoryInModule values
  WarmLimits,      \* values of max_unused_warm_slots
  Resident,        \* amounts of resident bytes a slot is freed with
  None             \* Option::None, also an absent key of module_affine

VARIABLES
  max_unused_warm_slots, \* configured, never changed
  slot_state,            \* Used, UnusedCold or UnusedWarm
  affinity,              \* payload of Used, and Unused::affinity
  bytes_resident,        \* Unused::bytes_resident
  unused_list_link,      \* Unused::unused_list_link
  affine_list_link,      \* Unused::affine_list_link
  warm,                  \* List of all warm slots
  module_affine,         \* the HashMap of affine Lists
  unused_warm_slots,
  last_cold,
  unused_bytes_resident,
  peak                   \* history: most slots ever in use at once

payload == <<bytes_resident, unused_list_link, affine_list_link>>
lists   == <<warm, module_affine, unused_warm_slots, unused_bytes_resident>>
vars    == <<max_unused_warm_slots, slot_state, affinity, payload, lists, last_cold, peak>>

Slots   == 0 .. Capacity - 1
Options == Slots \cup {None}
Links   == [prev : Options, next : Options]
Lists   == [head : Options, tail : Options]

ASSUME IndexAllocatorAssumption ==
  /\ Capacity \in Nat /\ WarmLimits \subseteq Nat
  /\ Resident \subseteq Nat
  /\ None \notin Nat /\ None \notin Memories /\ None \notin Lists

NoLink  == [prev |-> None, next |-> None]
NoList  == [head |-> None, tail |-> None]

WarmSlots   == {s \in Slots : slot_state[s] = "UnusedWarm"}
UsedSlots   == {s \in Slots : slot_state[s] = "Used"}
AffineTo(m) == {s \in WarmSlots : affinity[s] = m}

Init ==
  /\ max_unused_warm_slots \in WarmLimits
  /\ slot_state = [s \in Slots |-> "UnusedCold"]
  /\ affinity = [s \in Slots |-> None]
  /\ bytes_resident = [s \in Slots |-> 0]
  /\ unused_list_link = [s \in Slots |-> NoLink]
  /\ affine_list_link = [s \in Slots |-> NoLink]
  /\ warm = NoList
  /\ module_affine = [m \in Memories |-> None]
  /\ unused_warm_slots = 0 /\ last_cold = 0 /\ unused_bytes_resident = 0
  /\ peak = 0

-----------------------------------------------------------------------------
(* List: what append and remove make of the list's ends and of the links. *)

AppendList(list, id) ==
  [head |-> IF list.tail = None THEN id ELSE list.head, tail |-> id]

\* Mutant: the new tail does not learn its predecessor.
AppendLinksHalf(list, link, id) ==
  [s \in Slots |->
     IF s = id THEN NoLink
     ELSE IF s = list.tail THEN [link[s] EXCEPT !.next = id]
     ELSE link[s]]

AppendLinks(list, link, id) ==
  [s \in Slots |->
     IF s = id THEN [prev |-> list.tail, next |-> None]
     ELSE IF s = list.tail THEN [link[s] EXCEPT !.next = id]
     ELSE link[s]]

RemoveList(list, link, id) ==
  [head |-> IF link[id].prev = None THEN link[id].next ELSE list.head,
   tail |-> IF link[id].next = None THEN link[id].prev ELSE list.tail]

\* The neighbours of id are joined; the payload of id itself is given up.
RemoveLinks(link, id) ==
  [s \in Slots |->
     IF s = id THEN NoLink
     ELSE [prev |-> IF s = link[id].next THEN link[id].prev ELSE link[s].prev,
           next |-> IF s = link[id].prev THEN link[id].next ELSE link[s].next]]

-----------------------------------------------------------------------------
(* _alloc *)

\* Mutant: the least recently freed affine slot.
PickAffineHead(m) ==
  IF m = None THEN None
  ELSE IF module_affine[m] = None THEN None
  ELSE module_affine[m].head

PickAffine(m) ==
  IF m = None THEN None
  ELSE IF module_affine[m] = None THEN None
  ELSE module_affine[m].tail

\* Inner::remove, and the end of _alloc that overwrites the slot's state.
Remove(s) ==
  LET m == affinity[s]
      list == RemoveList(module_affine[m], affine_list_link, s)
  IN /\ unused_warm_slots' = unused_warm_slots - 1
     /\ warm' = RemoveList(warm, unused_list_link, s)
     /\ unused_list_link' = RemoveLinks(unused_list_link, s)
     /\ IF m = None
        THEN UNCHANGED <<module_affine, affine_list_link>>
        ELSE /\ affine_list_link' = RemoveLinks(affine_list_link, s)
             /\ module_affine' = [module_affine EXCEPT
                                    ![m] = IF list.head = None THEN None ELSE list]
     /\ unused_bytes_resident' = unused_bytes_resident - bytes_resident[s]
     /\ bytes_resident' = [bytes_resident EXCEPT ![s] = 0]

Occupy(s, m) ==
  /\ slot_state' = [slot_state EXCEPT ![s] = "Used"]
  /\ affinity' = [affinity EXCEPT ![s] = m]
  /\ peak' = IF Cardinality(UsedSlots) + 1 > peak THEN Cardinality(UsedSlots) + 1 ELSE peak

\* pick_affine succeeded: clear tells ForceAffineAndClear from AnySlot.
AllocAffine(m, clear) ==
  \E s \in Slots :
    /\ s = PickAffine(m)
    /\ Remove(s)
    /\ Occupy(s, IF clear THEN None ELSE m)
    /\ UNCHANGED last_cold

AllocWarm(m) ==
  \E s \in Slots :
    /\ PickAffine(m) = None
    /\ s = warm.head
    /\ unused_warm_slots < max_unused_warm_slots => last_cold = Capacity
    /\ Remove(s)
    /\ Occupy(s, m)
    /\ UNCHANGED last_cold

\* Mutant: a cold slot is preferred up to and including the limit.
AllocColdAtLimit(m) ==
  /\ PickAffine(m) = None
  /\ last_cold < Capacity
  /\ unused_warm_slots > max_unused_warm_slots => warm.head = None
  /\ last_cold' = last_cold + 1
  /\ Occupy(last_cold, m)
  /\ UNCHANGED <<payload, lists>>

AllocCold(m) ==
  /\ PickAffine(m) = None
  /\ last_cold < Capacity
  /\ unused_warm_slots >= max_unused_warm_slots => warm.head = None
  /\ last_cold' = last_cold + 1
  /\ Occupy(last_cold, m)
  /\ UNCHANGED <<payload, lists>>

-----------------------------------------------------------------------------
(* free *)

Free(s, bytes) ==
  LET m == affinity[s]
      entry == IF module_affine[m] = None THEN NoList ELSE module_affine[m]
  IN /\ slot_state[s] = "Used"
     /\ unused_warm_slots' = unused_warm_slots + 1
     /\ warm' = AppendList(warm, s)
     /\ unused_list_link' = AppendLinks(warm, unused_list_link, s)
     /\ IF m = None
        THEN UNCHANGED <<module_affine, affine_list_link>>
        ELSE /\ module_affine' = [module_affine EXCEPT ![m] = AppendList(entry, s)]
             /\ affine_list_link' = AppendLinks(entry, affine_list_link, s)
     /\ unused_bytes_resident' = unused_bytes_resident + bytes
     /\ bytes_resident' = [bytes_resident EXCEPT ![s] = bytes]
     /\ slot_state' = [slot_state EXCEPT ![s] = "UnusedWarm"]
     /\ UNCHANGED <<affinity, last_cold, peak>>

Next ==
  /\ \/ \E m \in Memories, clear \in BOOLEAN : AllocAffine(m, clear)
     \/ \E m \in Memories \cup {None} : AllocWarm(m) \/ AllocCold(m)
     \/ \E s \in Slots, bytes \in Resident : Free(s, bytes)
  /\ UNCHANGED max_unused_warm_slots

Spec == Init /\ [][Next]_vars

-----------------------------------------------------------------------------
(* Properties *)

TypeOK ==
  /\ max_unused_warm_slots \in WarmLimits
  /\ slot_state \in [Slots -> {"Used", "UnusedCold", "UnusedWarm"}]
  /\ affinity \in [Slots -> Memories \cup {None}]
  /\ bytes_resident \in [Slots -> Nat]
  /\ unused_list_link \in [Slots -> Links]
  /\ affine_list_link \in [Slots -> Links]
  /\ warm \in Lists
  /\ module_affine \in [Memories -> Lists \cup {None}]
  /\ unused_warm_slots \in Nat /\ last_cold \in 0 .. Capacity
  /\ unused_bytes_resident \in Int /\ peak \in 0 .. Capacity

\* The list visits exactly the slots of members, each once, from its head to its
\* tail, and every prev undoes a next: what List::iter asserts while it walks.
Visits(list, link, members) ==
  LET n == Cardinality(members)
  IN \E q \in [1 .. n -> members] :
       /\ list.head = IF n = 0 THEN None ELSE q[1]
       /\ list.tail = IF n = 0 THEN None ELSE q[n]
       /\ \A i \in 1 .. n :
            /\ link[q[i]].prev = IF i = 1 THEN None ELSE q[i - 1]
            /\ link[q[i]].next = IF i = n THEN None ELSE q[i + 1]
       /\ \A s \in members : \E i \in 1 .. n : q[i] = s

\* The cached counters agree with the slots: unused_warm_slots is the size of
\* the warm list, and the cold slots are exactly those from last_cold on.
CountersExact ==
  /\ unused_warm_slots = Cardinality(WarmSlots)
  /\ \A s \in Slots : slot_state[s] = "UnusedCold" <=> s >= last_cold

\* The warm list holds exactly the slots that were used and are free, the list
\* of a memory exactly the warm slots affine to it, and a memory has an entry
\* in module_affine exactly when it has such a slot: no slot is lost by an
\* eviction, none is on a list of a memory that it no longer belongs to, and
\* the unreachable!() of unwrap_unused and of remove are not reached.  The cached
\* counters agree with the lists.
ListsExact ==
  /\ TypeOK /\ CountersExact
  /\ Visits(warm, unused_list_link, WarmSlots)
  /\ \A m \in Memories :
       IF AffineTo(m) = {} THEN module_affine[m] = None
       ELSE /\ module_affine[m] # None
            /\ Visits(module_affine[m], affine_list_link, AffineTo(m))

\* What the documentation of max_unused_warm_slots promises about the memory
\* footprint: with 0, the slots ever used are as many as were in use at once;
\* in general at most max_unused_warm_slots - 1 more.
FootprintBounded ==
  last_cold <= peak + (IF max_unused_warm_slots = 0 THEN 0 ELSE max_unused_warm_slots - 1)
=============================================================================
