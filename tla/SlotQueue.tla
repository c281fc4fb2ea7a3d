------------------------------ MODULE SlotQueue ------------------------------
(***************************************************************************)
(* What an index allocator of the pooling allocator promises: the policy   *)
(* that the documentation of max_unused_warm_slots describes, on a queue   *)
(* of the warm slots in the order in which they were freed.                *)
(* IndexAllocator implements it with two intrusive lists.                  *)
(***************************************************************************)
EXTENDS Integers, Sequences, SequencesExt, FiniteSetsExt

CONSTANTS
  Capacity,        \* number of slots
  Memories,        \* MemoryInModule values slots can be affine to
  WarmLimits,      \* values of max_unused_warm_slots
  Resident,        \* amounts of resident bytes a slot is freed with
  None             \* Option::None

VARIABLES
  max_unused_warm_slots,
  freed,           \* the warm slots, least recently freed first
  affinity,        \* memory a slot in use or warm is or was used for
  last_cold,       \* slots at or above it have never been used
  bytes_resident,  \* bytes that a warm slot was freed with
  unused_bytes_resident \* what unused_bytes_resident() reports

vars == <<max_unused_warm_slots, freed, affinity, last_cold, bytes_resident,
          unused_bytes_resident>>

Slots == 0 .. Capacity - 1

\* Positions in the queue q of the slots affine to m.
AffineIn(q, aff, m) == {i \in DOMAIN q : m # None /\ aff[q[i]] = m}

\* The slot that an allocation for m takes, None when it gets none.
Choice(q, aff, cold, m, clear) ==
  LET latest == IF AffineIn(q, aff, m) = {} THEN None ELSE q[Max(AffineIn(q, aff, m))]
      oldest == IF q = <<>> THEN None ELSE q[1]
      unused == IF cold = Capacity THEN None ELSE cold
      first  == IF Len(q) < max_unused_warm_slots THEN unused ELSE oldest
      second == IF Len(q) < max_unused_warm_slots THEN oldest ELSE unused
  IN CASE latest # None -> latest
       [] latest = None /\ clear -> None
       [] latest = None /\ ~clear -> IF first # None THEN first ELSE second

Used == {s \in Slots : s < last_cold /\ ~Contains(freed, s)}

Init ==
  /\ max_unused_warm_slots \in WarmLimits
  /\ freed = <<>>
  /\ affinity = [s \in Slots |-> None]
  /\ last_cold = 0
  /\ bytes_resident = [s \in Slots |-> 0] /\ unused_bytes_resident = 0

Alloc(m, clear) ==
  \E s \in Slots :
    /\ s = Choice(freed, affinity, last_cold, m, clear)
    /\ freed' = SelectSeq(freed, LAMBDA t : t # s)
    /\ last_cold' = IF s = last_cold THEN last_cold + 1 ELSE last_cold
    /\ affinity' = [affinity EXCEPT ![s] = IF clear THEN None ELSE m]
    /\ bytes_resident' = [bytes_resident EXCEPT ![s] = 0]

Free(s, bytes) ==
  /\ s \in Used
  /\ freed' = Append(freed, s)
  /\ bytes_resident' = [bytes_resident EXCEPT ![s] = bytes]
  /\ UNCHANGED <<affinity, last_cold>>

Next ==
  /\ \/ \E m \in Memories \cup {None} : Alloc(m, FALSE)
     \/ \E m \in Memories : Alloc(m, TRUE)
     \/ \E s \in Slots, bytes \in Resident : Free(s, bytes)
  /\ unused_bytes_resident' = SumFunctionOnSet(bytes_resident', Range(freed'))
  /\ UNCHANGED max_unused_warm_slots

Spec == Init /\ [][Next]_vars
=============================================================================
