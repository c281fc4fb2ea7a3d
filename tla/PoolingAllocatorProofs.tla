------------------------ MODULE PoolingAllocatorProofs ------------------------
(* Proofs about PoolingAllocator, for any number of threads, slots and modules. *)
EXTENDS PoolingAllocator, FiniteSetTheorems, TLAPS

Calls ==
  [op : {None, "allocate", "deallocate", "purge"}, kind : SUBSET Slots,
   for : Modules \cup {None}, slot : Slots \cup {None}, batch : SUBSET Slots,
   ok : BOOLEAN, retried : BOOLEAN, alone : BOOLEAN]

\* The places of a call, by what it has in its hands: nothing, one slot, or a batch.
Empty == {"idle", "index", "limit", "limit_error", "purge"}
Single == {"take", "make", "undo", "count", "remove", "clear"}
Batched == {"flush", "return"}
Places == Empty \cup Single \cup Batched \cup {"free"}

Data ==
  /\ config \in Configs /\ linux \in BOOLEAN
  /\ used \subseteq Slots /\ dirty \subseteq Slots
  /\ decommit_queue \subseteq Slots /\ held \subseteq Slots
  /\ affinity \in [MemorySlots -> Modules \cup {None}]
  /\ image_slot \in [MemorySlots -> {"Unmapped", "Unknown", "PreviouslyUsed"}]
  /\ mapped \in [MemorySlots -> Modules \cup {None}]
  /\ dropped \subseteq Modules /\ purged \subseteq dropped

Typed == Data /\ pc \in [Threads -> Places] /\ call \in [Threads -> Calls]

\* What the place of a call says about its locals.
Shape(t) ==
  /\ pc[t] \in Empty => call[t].slot = None /\ call[t].batch = {}
  /\ pc[t] \in Single => call[t].slot \in Slots /\ call[t].batch = {}
  /\ pc[t] \in Batched => call[t].slot \in call[t].batch \cup {None} /\ call[t].batch # {}
  /\ pc[t] = "free" => /\ call[t].slot \in Slots
                       /\ call[t].batch = {} \/ call[t].slot \in call[t].batch
  /\ pc[t] = "purge" => call[t].op = "purge"
  /\ pc[t] # "idle" /\ call[t].op = "purge" => call[t].for \in dropped

Shapes == \A t \in Threads : Shape(t)

Owned ==
  /\ used = held \cup decommit_queue \cup UNION {InHand(t) : t \in Threads}
  /\ held \cap decommit_queue = {}
  /\ \A t \in Threads : InHand(t) \cap (held \cup decommit_queue) = {}
  /\ \A t, u \in Threads : t # u => InHand(t) \cap InHand(u) = {}

\* The live counters count what the embedding holds.
Counted == live \in [Kinds -> Nat] /\ \A k \in Kinds : live[k] = Cardinality(held \cap k)

IInv == Typed /\ Shapes /\ Owned /\ Counted

-----------------------------------------------------------------------------
(* Who owns a slot, when one passes from hand to hand *)

LEMMA OwnedSame ==
  ASSUME Owned, UNCHANGED <<used, held, decommit_queue>>,
         \A u \in Threads : InHand(u)' = InHand(u)
  PROVE  Owned'
  BY DEF Owned

\* A free slot is taken.
LEMMA OwnedTake ==
  ASSUME Owned, UNCHANGED <<held, decommit_queue>>, NEW t \in Threads, NEW s,
         s \notin used, used' = used \cup {s},
         InHand(t)' = InHand(t) \cup {s},
         \A u \in Threads \ {t} : InHand(u)' = InHand(u)
  PROVE  Owned'
  BY DEF Owned

\* A slot is freed.
LEMMA OwnedFree ==
  ASSUME Owned, UNCHANGED <<held, decommit_queue>>, NEW t \in Threads, NEW s,
         s \in InHand(t), used' = used \ {s},
         InHand(t)' = InHand(t) \ {s},
         \A u \in Threads \ {t} : InHand(u)' = InHand(u)
  PROVE  Owned'
  BY DEF Owned

\* The embedding gets an object, or gives one back.
LEMMA OwnedGive ==
  ASSUME Owned, UNCHANGED <<used, decommit_queue>>, NEW t \in Threads, NEW s,
         s \in InHand(t), held' = held \cup {s},
         InHand(t)' = InHand(t) \ {s},
         \A u \in Threads \ {t} : InHand(u)' = InHand(u)
  PROVE  Owned'
  BY DEF Owned

LEMMA OwnedReceive ==
  ASSUME Owned, UNCHANGED <<used, decommit_queue>>, NEW t \in Threads, NEW s,
         s \in held, held' = held \ {s},
         InHand(t)' = InHand(t) \cup {s},
         \A u \in Threads \ {t} : InHand(u)' = InHand(u)
  PROVE  Owned'
  BY DEF Owned

\* A slot is put into the queue, or the whole queue is taken.
LEMMA OwnedQueue ==
  ASSUME Owned, UNCHANGED <<used, held>>, NEW t \in Threads, NEW s,
         s \in InHand(t), decommit_queue' = decommit_queue \cup {s},
         InHand(t)' = InHand(t) \ {s},
         \A u \in Threads \ {t} : InHand(u)' = InHand(u)
  PROVE  Owned'
  BY DEF Owned

LEMMA OwnedBatch ==
  ASSUME Owned, UNCHANGED <<used, held>>, NEW t \in Threads,
         decommit_queue' = {},
         InHand(t)' = InHand(t) \cup decommit_queue,
         \A u \in Threads \ {t} : InHand(u)' = InHand(u)
  PROVE  Owned'
  BY DEF Owned

-----------------------------------------------------------------------------
(* Steps of one thread *)

\* Thread t moves to place p with locals c; the others stay where they are.
Moved(t, p, c) ==
  /\ pc' \in [Threads -> Places] /\ call' \in [Threads -> Calls]
  /\ pc'[t] = p /\ call'[t] = c
  /\ \A u \in Threads \ {t} :
       /\ pc'[u] = pc[u] /\ call'[u].slot = call[u].slot /\ call'[u].batch = call[u].batch
       /\ call'[u].op = call[u].op /\ call'[u].for = call[u].for /\ call'[u].ok = call[u].ok
       /\ call'[u].kind = call[u].kind

LEMMA NoCallTyped == NoCall \in Calls
  BY DEF NoCall, Calls

LEMMA GotoMoves ==
  ASSUME Typed, NEW t \in Threads, NEW from, NEW to \in Places, Goto(t, from, to),
         NEW c \in Calls, call' = [call EXCEPT ![t] = c]
  PROVE  Moved(t, to, c) /\ pc[t] = from
  BY DEF Typed, Goto, Moved

LEMMA StayMoves ==
  ASSUME Typed, NEW t \in Threads, NEW from, NEW to \in Places, Goto(t, from, to), call' = call
  PROVE  Moved(t, to, call[t]) /\ pc[t] = from
  BY DEF Typed, Goto, Moved

LEMMA LeaveMoves ==
  ASSUME Typed, NEW t \in Threads, NEW from, Leave(t, from)
  PROVE  Moved(t, "idle", NoCall) /\ pc[t] = from
<1>1. Goto(t, from, "idle") /\ call' = [call EXCEPT ![t] = NoCall] /\ "idle" \in Places
  BY DEF Leave, Places, Empty
<1>2. QED  BY <1>1, GotoMoves, NoCallTyped

LEMMA EnterMoves ==
  ASSUME Typed, NEW t \in Threads, NEW at \in Places, NEW c \in Calls, Enter(t, at, c)
  PROVE  /\ pc[t] = "idle"
         /\ \E d \in Calls :
              /\ Moved(t, at, d)
              /\ d.slot = c.slot /\ d.batch = c.batch /\ d.op = c.op /\ d.for = c.for
              /\ d.kind = c.kind
<1> DEFINE solo == \A u \in Threads \ {t} : pc[u] = "idle"
           d == [c EXCEPT !.alone = solo]
<1>1. pc[t] = "idle" /\ pc' = [pc EXCEPT ![t] = at]
  BY DEF Enter
<1>2. call' = [u \in Threads |-> IF u = t THEN d ELSE [call[u] EXCEPT !.alone = FALSE]]
  BY DEF Enter
<1>3. solo \in BOOLEAN
  OBVIOUS
<1> HIDE DEF solo
<1>4. /\ d \in Calls /\ d.slot = c.slot /\ d.batch = c.batch /\ d.op = c.op /\ d.for = c.for
      /\ d.kind = c.kind
  BY <1>3 DEF Calls
<1> HIDE DEF d
<1>5. \A u \in Threads : LET e == [call[u] EXCEPT !.alone = FALSE]
                         IN /\ e \in Calls
                            /\ e.slot = call[u].slot /\ e.batch = call[u].batch
                            /\ e.op = call[u].op /\ e.for = call[u].for /\ e.ok = call[u].ok
                            /\ e.kind = call[u].kind
  BY DEF Typed, Calls
<1>6. Moved(t, at, d)
  BY <1>1, <1>2, <1>4, <1>5 DEF Moved, Typed
<1>7. QED  BY <1>1, <1>4, <1>6

\* What the threads have in their hands after such a step.
LEMMA Hands ==
  ASSUME NEW t \in Threads, NEW p, NEW c, Moved(t, p, c)
  PROVE  /\ InHand(t)' = c.batch \cup ({c.slot} \ {None})
         /\ \A u \in Threads \ {t} : InHand(u)' = InHand(u)
  BY DEF Moved, InHand

LEMMA Kept ==
  ASSUME IInv, NEW t \in Threads, NEW p, NEW c, Moved(t, p, c),
         Data', dropped \subseteq dropped', Shape(t)', Owned', Counted'
  PROVE  IInv'
<1>1. Typed'
  BY DEF Typed, Moved
<1>2. ASSUME NEW u \in Threads PROVE Shape(u)'
  <2>1. CASE u = t
    BY <2>1
  <2>2. CASE u # t
    <3>1. Shape(u)
      BY DEF IInv, Shapes
    <3>2. QED  BY <2>2, <3>1 DEF Moved, Shape
  <2>3. QED  BY <2>1, <2>2
<1>3. QED  BY <1>1, <1>2 DEF IInv, Shapes

LEMMA KeptSame ==
  ASSUME IInv, NEW t \in Threads, NEW p, NEW c, Moved(t, p, c),
         Data', dropped \subseteq dropped', Shape(t)',
         UNCHANGED <<used, held, decommit_queue, live>>,
         c.batch \cup ({c.slot} \ {None}) = InHand(t)
  PROVE  IInv'
<1>1. \A u \in Threads : InHand(u)' = InHand(u)
  BY Hands
<1>2. Owned'
  BY <1>1, OwnedSame DEF IInv
<1>3. Counted'
  BY DEF IInv, Counted
<1>4. QED  BY <1>2, <1>3, Kept

-----------------------------------------------------------------------------
(* Allocation *)

LEMMA AllocateStep ==
  ASSUME IInv, NEW t \in Threads, NEW kind \in Kinds, NEW m \in Modules \cup {None},
         Allocate(t, kind, m), UNCHANGED <<config, linux>>
  PROVE  IInv'
<1> DEFINE c == [NoCall EXCEPT !.op = "allocate", !.kind = kind, !.for = m]
<1>1. c \in Calls /\ c.slot = None /\ c.batch = {} /\ c.op = "allocate"
  BY DEF Kinds, Slots, Calls, NoCall
<1>2. Enter(t, "index", c) /\ "index" \in Places
  BY DEF Allocate, Places, Empty
<1> HIDE DEF c
<1>3. PICK d \in Calls : Moved(t, "index", d) /\ d.slot = None /\ d.batch = {} /\ d.op = "allocate"
  BY <1>1, <1>2, EnterMoves DEF IInv, Typed
<1>4. InHand(t) = {}
  BY <1>2, EnterMoves DEF IInv, Shapes, Shape, InHand, Enter, Empty
<1>5. Data' /\ dropped \subseteq dropped'
  BY DEF Allocate, slots, IInv, Typed, Data
<1>6. Shape(t)'
  BY <1>3 DEF Shape, Moved, Empty, Single, Batched
<1>7. UNCHANGED <<used, held, decommit_queue, live>>
  BY DEF Allocate, slots
<1>8. QED  BY <1>3, <1>4, <1>5, <1>6, <1>7, KeptSame

LEMMA PickIndexStep ==
  ASSUME IInv, NEW t \in Threads, PickIndex(t), UNCHANGED <<config, linux>>
  PROVE  IInv'
<1>1. PICK s \in Candidates(call[t].kind, call[t].for) :
        /\ Goto(t, "index", IF call[t].kind = MemorySlots THEN "take"
                            ELSE IF call[t].kind = TableSlots THEN "make" ELSE "count")
        /\ used' = used \cup {s}
        /\ affinity' = IF call[t].kind = MemorySlots
                       THEN [affinity EXCEPT ![s] = call[t].for] ELSE affinity
        /\ call' = [call EXCEPT ![t].slot = s]
        /\ UNCHANGED <<image_slot, mapped, dirty, decommit_queue, live, held, dropped, purged>>
  BY DEF PickIndex
<1>2. s \in Slots /\ s \notin used
  BY DEF Candidates, IInv, Typed, Calls
<1>3. PICK p \in {"take", "make", "count"} : Goto(t, "index", p)
  BY <1>1
<1>4. p \in Places /\ p \in Single /\ call[t] \in Calls
  BY DEF Places, Single, IInv, Typed
<1> DEFINE c == [call[t] EXCEPT !.slot = s]
<1>5. /\ c \in Calls /\ c.slot = s /\ c.batch = call[t].batch
      /\ c.op = call[t].op /\ c.for = call[t].for
  BY <1>2, <1>4 DEF Calls
<1>6. call' = [call EXCEPT ![t] = c]
  BY <1>1
<1> HIDE DEF c
<1>7. Moved(t, p, c) /\ pc[t] = "index"
  BY <1>3, <1>4, <1>5, <1>6, GotoMoves DEF IInv
<1>8. call[t].slot = None /\ call[t].batch = {} /\ (call[t].op = "purge" => call[t].for \in dropped)
  BY <1>7 DEF IInv, Shapes, Shape, Empty
<1>9. Data'
  <2>1. call[t].for \in Modules \cup {None}
    BY <1>4 DEF Calls
  <2>2. affinity' \in [MemorySlots -> Modules \cup {None}]
    BY <1>1, <2>1 DEF IInv, Typed, Data
  <2>3. QED  BY <1>1, <1>2, <2>2 DEF IInv, Typed, Data
<1>10. Shape(t)'
  BY <1>1, <1>2, <1>4, <1>5, <1>7, <1>8 DEF Shape, Moved, Empty, Single, Batched
<1>11. Owned'
  <2>1. InHand(t)' = InHand(t) \cup {s}
    BY <1>2, <1>5, <1>7, <1>8, Hands, PoolingAssumption DEF InHand
  <2>2. QED  BY <1>1, <1>2, <1>7, <2>1, Hands, OwnedTake DEF IInv
<1>12. Counted'
  BY <1>1 DEF IInv, Counted
<1>13. QED  BY <1>1, <1>7, <1>9, <1>10, <1>11, <1>12, Kept

LEMMA NoIndexStep ==
  ASSUME IInv, NEW t \in Threads, NoIndex(t), UNCHANGED <<config, linux>>
  PROVE  IInv'
<1>1. PICK p \in {"limit_error", "limit"} : Goto(t, "index", p)
  BY DEF NoIndex
<1>2. p \in Places /\ p \in Empty
  BY DEF Places, Empty
<1>3. call' = call /\ UNCHANGED <<used, held, decommit_queue, live, dropped>>
  BY DEF NoIndex, slots
<1>4. Moved(t, p, call[t]) /\ pc[t] = "index"
  BY <1>1, <1>2, <1>3, StayMoves DEF IInv
<1>5. Data'
  BY DEF NoIndex, slots, IInv, Typed, Data
<1>6. Shape(t)'
  BY <1>1, <1>3, <1>4 DEF IInv, Shapes, Shape, Moved, Empty, Single, Batched
<1>7. QED  BY <1>3, <1>4, <1>5, <1>6, KeptSame DEF InHand

\* A call that has one slot keeps it.
LEMMA SingleStep ==
  ASSUME IInv, NEW t \in Threads, NEW from \in Single, NEW to \in Single \cup {"free"},
         Goto(t, from, to), Data',
         UNCHANGED <<call, used, held, decommit_queue, live, dropped>>
  PROVE  IInv'
<1>1. to \in Places
  BY DEF Places
<1>2. Moved(t, to, call[t]) /\ pc[t] = from
  BY <1>1, StayMoves DEF IInv
<1>3. /\ call[t].slot \in Slots /\ call[t].batch = {}
      /\ call[t].op = "purge" => call[t].for \in dropped
  BY <1>2 DEF IInv, Shapes, Shape, Single
<1>4. Shape(t)'
  BY <1>2, <1>3 DEF Shape, Moved, Empty, Single, Batched
<1>5. QED  BY <1>2, <1>4, KeptSame DEF InHand

LEMMA TakeImageStep ==
  ASSUME IInv, NEW t \in Threads, TakeImage(t), UNCHANGED <<config, linux>>
  PROVE  IInv'
<1>1. \E p \in {"remove", "make", "free", "undo"} : Goto(t, "take", p)
  BY DEF TakeImage
<1>2. PICK p \in Single \cup {"free"} : Goto(t, "take", p)
  BY <1>1 DEF Single
<1>3. UNCHANGED <<call, used, held, decommit_queue, live, affinity, dropped, purged>>
  BY DEF TakeImage
<1>4. Data'
  <2>1. image_slot' \in [MemorySlots -> {"Unmapped", "Unknown", "PreviouslyUsed"}]
    BY DEF TakeImage, IInv, Typed, Data
  <2>2. mapped' \in [MemorySlots -> Modules \cup {None}] /\ dirty' \subseteq Slots
    BY DEF TakeImage, IInv, Typed, Data
  <2>3. QED  BY <1>3, <2>1, <2>2 DEF IInv, Typed, Data
<1>5. QED  BY <1>2, <1>3, <1>4, SingleStep DEF Single

LEMMA MakeStep ==
  ASSUME IInv, NEW t \in Threads, Make(t), UNCHANGED <<config, linux>>
  PROVE  IInv'
<1>1. \E p \in {"count", "undo"} : Goto(t, "make", p)
  BY DEF Make
<1>2. PICK p \in Single \cup {"free"} : Goto(t, "make", p)
  BY <1>1 DEF Single
<1>3. UNCHANGED <<call, used, held, decommit_queue, live, affinity, image_slot, dropped, purged>>
  BY DEF Make
<1>4. Data'
  <2>1. call[t].for \in Modules \cup {None} /\ call[t].slot \in Slots \cup {None}
    BY DEF IInv, Typed, Calls
  <2>2. mapped' \in [MemorySlots -> Modules \cup {None}]
    BY <2>1 DEF Make, IInv, Typed, Data
  <2>3. dirty' \subseteq Slots
    BY DEF Make, IInv, Typed, Data, Slots
  <2>4. QED  BY <1>3, <2>2, <2>3 DEF IInv, Typed, Data
<1>5. QED  BY <1>2, <1>3, <1>4, SingleStep DEF Single

LEMMA RemoveImageStep ==
  ASSUME IInv, NEW t \in Threads, RemoveImage(t), UNCHANGED <<config, linux>>
  PROVE  IInv'
<1>1. Goto(t, "remove", "free")
  BY DEF RemoveImage
<1>2. UNCHANGED <<call, used, held, decommit_queue, live, affinity, dirty, dropped, purged>>
  BY DEF RemoveImage
<1>3. /\ image_slot' \in [MemorySlots -> {"Unmapped", "Unknown", "PreviouslyUsed"}]
      /\ mapped' \in [MemorySlots -> Modules \cup {None}]
  BY DEF RemoveImage, IInv, Typed, Data
<1>4. Data'
  BY <1>2, <1>3 DEF IInv, Typed, Data
<1>5. QED  BY <1>1, <1>2, <1>4, SingleStep DEF Single

\* A call returns with nothing in its hands.
LEMMA IdleShape ==
  ASSUME NEW t \in Threads, Moved(t, "idle", NoCall)
  PROVE  Shape(t)' /\ InHand(t)' = {}
  BY Hands DEF Shape, Moved, NoCall, Empty, Single, Batched

LEMMA UndoStep ==
  ASSUME IInv, NEW t \in Threads, Undo(t), UNCHANGED <<config, linux>>
  PROVE  IInv'
<1>1. Moved(t, "idle", NoCall) /\ pc[t] = "undo"
  BY LeaveMoves DEF Undo, IInv
<1>2. call[t].slot \in Slots /\ call[t].batch = {}
  BY <1>1 DEF IInv, Shapes, Shape, Single
<1>3. InHand(t) = {call[t].slot}
  BY <1>2, PoolingAssumption DEF InHand
<1>4. /\ used' = used \ {call[t].slot}
      /\ UNCHANGED <<affinity, image_slot, mapped, dirty, decommit_queue, live, held, dropped, purged>>
  BY DEF Undo
<1>5. Owned'
  BY <1>1, <1>3, <1>4, IdleShape, Hands, OwnedFree DEF IInv
<1>6. Data' /\ Counted'
  BY <1>4 DEF IInv, Typed, Data, Counted
<1>7. QED  BY <1>1, <1>4, <1>5, <1>6, IdleShape, Kept

LEMMA KindOfSlot ==
  ASSUME NEW s \in Slots
  PROVE  KindOf(s) \in Kinds /\ s \in KindOf(s) /\ \A k \in Kinds \ {KindOf(s)} : s \notin k
<1>1. \E k \in Kinds : s \in k
  BY DEF Kinds, Slots
<1>2. KindOf(s) \in Kinds /\ s \in KindOf(s)
  BY <1>1 DEF KindOf
<1>3. \A k \in Kinds : k # KindOf(s) => s \notin k
  BY <1>2, PoolingAssumption DEF Kinds
<1>4. QED  BY <1>2, <1>3

LEMMA HeldFinite ==
  ASSUME NEW S \in SUBSET Slots
  PROVE  IsFiniteSet(S) /\ Cardinality(S) \in Nat
  BY FS_Subset, FS_CardinalityType, PoolingAssumption

LEMMA CountStep ==
  ASSUME IInv, NEW t \in Threads, Count(t), UNCHANGED <<config, linux>>
  PROVE  IInv'
<1> DEFINE s == call[t].slot
           K == KindOf(s)
<1>1. Moved(t, "idle", NoCall) /\ pc[t] = "count"
  BY LeaveMoves DEF Count, IInv
<1>2. s \in Slots /\ call[t].batch = {}
  BY <1>1 DEF IInv, Shapes, Shape, Single
<1>3. InHand(t) = {s}
  BY <1>2, PoolingAssumption DEF InHand
<1>4. /\ live' = [live EXCEPT ![K] = @ + 1] /\ held' = held \cup {s} /\ dirty' = dirty \cup {s}
      /\ UNCHANGED <<used, affinity, image_slot, mapped, decommit_queue, dropped, purged>>
  BY DEF Count
<1>5. s \notin held
  BY <1>3 DEF IInv, Owned
<1>6. K \in Kinds /\ s \in K /\ \A k \in Kinds \ {K} : s \notin k
  BY <1>2, KindOfSlot
<1> HIDE DEF s, K
<1>7. Owned'
  BY <1>1, <1>3, <1>4, IdleShape, Hands, OwnedGive DEF IInv
<1>8. Data'
  BY <1>2, <1>4 DEF IInv, Typed, Data
<1>9. Counted'
  <2>1. live \in [Kinds -> Nat] /\ \A k \in Kinds : live[k] = Cardinality(held \cap k)
    BY DEF IInv, Counted
  <2>2. live' \in [Kinds -> Nat]
    BY <1>4, <1>6, <2>1
  <2>3. ASSUME NEW k \in Kinds PROVE live'[k] = Cardinality(held' \cap k)
    <3>1. CASE k = K
      <4>1. held' \cap K = (held \cap K) \cup {s} /\ s \notin held \cap K
        BY <1>4, <1>5, <1>6
      <4>2. IsFiniteSet(held \cap K)
        BY HeldFinite DEF IInv, Typed, Data
      <4>3. Cardinality(held' \cap K) = Cardinality(held \cap K) + 1
        BY <4>1, <4>2, FS_AddElement
      <4>4. QED  BY <1>4, <1>6, <2>1, <3>1, <4>3
    <3>2. CASE k # K
      <4>1. held' \cap k = held \cap k
        BY <1>4, <1>6, <3>2
      <4>2. QED  BY <1>4, <2>1, <3>2, <4>1
    <3>3. QED  BY <3>1, <3>2
  <2>4. QED  BY <2>2, <2>3 DEF Counted
<1>10. QED  BY <1>1, <1>4, <1>7, <1>8, <1>9, IdleShape, Kept

LEMMA LimitErrorStep ==
  ASSUME IInv, NEW t \in Threads, LimitError(t), UNCHANGED <<config, linux>>
  PROVE  IInv'
<1>1. Moved(t, "idle", NoCall) /\ pc[t] = "limit_error"
  BY LeaveMoves DEF LimitError, IInv
<1>2. InHand(t) = {}
  BY <1>1 DEF IInv, Shapes, Shape, Empty, InHand
<1>3. UNCHANGED <<slots, decommit_queue, live, held, dropped, purged>>
  BY DEF LimitError
<1>4. Data'
  BY <1>3 DEF slots, IInv, Typed, Data
<1>5. NoCall.batch \cup ({NoCall.slot} \ {None}) = InHand(t)
  BY <1>2 DEF NoCall
<1>6. QED  BY <1>1, <1>3, <1>4, <1>5, IdleShape, KeptSame DEF slots

-----------------------------------------------------------------------------
(* Flushing *)

LEMMA TakeQueueStep ==
  ASSUME IInv, NEW t \in Threads, TakeQueue(t), UNCHANGED <<config, linux>>
  PROVE  IInv'
<1>1. UNCHANGED <<slots, live, held, dropped, purged>>
  BY DEF TakeQueue
<1>2. pc[t] = "limit"
  BY DEF TakeQueue, Goto
<1>3. /\ call[t].slot = None /\ call[t].batch = {} /\ InHand(t) = {} /\ call[t] \in Calls
      /\ call[t].op = "purge" => call[t].for \in dropped
  BY <1>2 DEF IInv, Typed, Shapes, Shape, Empty, InHand
<1>4. CASE decommit_queue = {}
  <2>1. Goto(t, "limit", "limit_error") /\ call' = call /\ decommit_queue' = decommit_queue
    BY <1>4 DEF TakeQueue
  <2>2. Moved(t, "limit_error", call[t])
    BY <2>1, StayMoves DEF IInv, Places, Empty
  <2>3. Data'
    BY <1>1, <2>1 DEF slots, IInv, Typed, Data
  <2>4. Shape(t)'
    BY <1>1, <1>3, <2>2 DEF Shape, Moved, Empty, Single, Batched
  <2>5. QED  BY <1>1, <1>3, <2>1, <2>2, <2>3, <2>4, KeptSame DEF slots
<1>5. CASE decommit_queue # {}
  <2> DEFINE c == [call[t] EXCEPT !.batch = decommit_queue, !.retried = TRUE]
  <2>1. Goto(t, "limit", "flush") /\ call' = [call EXCEPT ![t] = c] /\ decommit_queue' = {}
    BY <1>5 DEF TakeQueue
  <2>2. decommit_queue \subseteq Slots
    BY DEF IInv, Typed, Data
  <2>3. /\ c \in Calls /\ c.slot = None /\ c.batch = decommit_queue
        /\ c.op = call[t].op /\ c.for = call[t].for
    BY <1>3, <2>2 DEF Calls
  <2> HIDE DEF c
  <2>4. Moved(t, "flush", c)
    BY <2>1, <2>3, GotoMoves DEF IInv, Places, Batched
  <2>5. Data'
    BY <1>1, <2>1 DEF slots, IInv, Typed, Data
  <2>6. Shape(t)'
    BY <1>1, <1>3, <1>5, <2>3, <2>4 DEF Shape, Moved, Empty, Single, Batched
  <2>7. InHand(t)' = InHand(t) \cup decommit_queue
    <3>1. InHand(t)' = decommit_queue \cup ({None} \ {None})
      BY <1>3, <2>3, <2>4, Hands
    <3>2. InHand(t) = {}
      BY <1>3 DEF InHand
    <3>3. QED  BY <3>1, <3>2
  <2>8. Owned'
    BY <1>1, <2>1, <2>4, <2>7, Hands, OwnedBatch DEF IInv, slots
  <2>9. Counted'
    BY <1>1 DEF IInv, Counted
  <2>10. QED  BY <1>1, <2>4, <2>5, <2>6, <2>8, <2>9, Kept
<1>6. QED  BY <1>4, <1>5

LEMMA DecommitStep ==
  ASSUME IInv, NEW t \in Threads, Decommit(t), UNCHANGED <<config, linux>>
  PROVE  IInv'
<1>1. /\ Goto(t, "flush", "return") /\ dirty' \subseteq dirty
      /\ UNCHANGED <<used, affinity, image_slot, mapped, decommit_queue, live, held, dropped, purged>>
  BY DEF Decommit
<1>2. pc[t] = "flush"
  BY <1>1 DEF Goto
<1>3. /\ call[t] \in Calls /\ call[t].slot \in call[t].batch \cup {None} /\ call[t].batch # {}
      /\ call[t].op = "purge" => call[t].for \in dropped
  BY <1>2 DEF IInv, Typed, Shapes, Shape, Batched
<1> DEFINE c == [call[t] EXCEPT !.ok = FALSE]
<1>4. call' = call \/ call' = [call EXCEPT ![t] = c]
  BY DEF Decommit
<1>5. /\ c \in Calls /\ c.slot = call[t].slot /\ c.batch = call[t].batch
      /\ c.op = call[t].op /\ c.for = call[t].for
  BY <1>3 DEF Calls
<1> HIDE DEF c
<1>6. PICK d \in {call[t], c} : Moved(t, "return", d)
  BY <1>1, <1>4, <1>5, GotoMoves, StayMoves DEF IInv, Places, Batched
<1>7. d.slot = call[t].slot /\ d.batch = call[t].batch /\ d.op = call[t].op /\ d.for = call[t].for
  BY <1>5
<1>8. Data'
  BY <1>1 DEF IInv, Typed, Data
<1>9. Shape(t)'
  BY <1>1, <1>3, <1>6, <1>7 DEF Shape, Moved, Empty, Single, Batched
<1>10. QED  BY <1>1, <1>6, <1>7, <1>8, <1>9, KeptSame DEF InHand

LEMMA ReturnStep ==
  ASSUME IInv, NEW t \in Threads, Return(t), UNCHANGED <<config, linux>>
  PROVE  IInv'
<1>1. PICK s \in NextOf(call[t].batch) :
        /\ Goto(t, "return", "free") /\ call' = [call EXCEPT ![t].slot = s]
        /\ image_slot' = IF s \in MemorySlots
                         THEN [image_slot EXCEPT ![s] = IF call[t].ok THEN "PreviouslyUsed"
                                                        ELSE "Unknown"]
                         ELSE image_slot
        /\ dirty' = IF s \in TableSlots /\ ~call[t].ok THEN dirty \ {s} ELSE dirty
        /\ UNCHANGED <<used, affinity, mapped, decommit_queue, live, held, dropped, purged>>
  BY DEF Return
<1>2. pc[t] = "return" /\ s \in call[t].batch
  BY <1>1 DEF Goto, NextOf
<1>3. /\ call[t] \in Calls /\ call[t].slot \in call[t].batch \cup {None}
      /\ call[t].op = "purge" => call[t].for \in dropped
  BY <1>2 DEF IInv, Typed, Shapes, Shape, Batched
<1> DEFINE c == [call[t] EXCEPT !.slot = s]
<1>4. s \in Slots
  BY <1>2, <1>3 DEF Calls
<1>5. /\ c \in Calls /\ c.slot = s /\ c.batch = call[t].batch
      /\ c.op = call[t].op /\ c.for = call[t].for
  BY <1>3, <1>4 DEF Calls
<1>6. call' = [call EXCEPT ![t] = c]
  BY <1>1
<1> HIDE DEF c
<1>7. Moved(t, "free", c)
  BY <1>1, <1>5, <1>6, GotoMoves DEF IInv, Places
<1>8. Data'
  <2>1. image_slot' \in [MemorySlots -> {"Unmapped", "Unknown", "PreviouslyUsed"}]
    BY <1>1 DEF IInv, Typed, Data
  <2>2. QED  BY <1>1, <2>1 DEF IInv, Typed, Data
<1>9. Shape(t)'
  BY <1>1, <1>2, <1>3, <1>4, <1>5, <1>7 DEF Shape, Moved, Empty, Single, Batched
<1>10. c.batch \cup ({c.slot} \ {None}) = InHand(t)
  BY <1>2, <1>3, <1>5 DEF InHand
<1>11. QED  BY <1>1, <1>7, <1>8, <1>9, <1>10, KeptSame

LEMMA FreeIndexStep ==
  ASSUME IInv, NEW t \in Threads, FreeIndex(t), UNCHANGED <<config, linux>>
  PROVE  IInv'
<1> DEFINE s == call[t].slot
           rest == call[t].batch \ {s}
           c == [call[t] EXCEPT !.slot = None, !.batch = rest]
<1>1. /\ used' = used \ {s}
      /\ UNCHANGED <<affinity, image_slot, mapped, dirty, decommit_queue, live, held, dropped, purged>>
  BY DEF FreeIndex
<1>2. pc[t] = "free"
  BY DEF FreeIndex, Leave, Goto
<1>3. /\ call[t] \in Calls /\ s \in Slots /\ (call[t].batch = {} \/ s \in call[t].batch)
      /\ call[t].op = "purge" => call[t].for \in dropped
  BY <1>2 DEF IInv, Typed, Shapes, Shape
<1>4. InHand(t) = rest \cup {s} /\ s \notin rest
  BY <1>3, PoolingAssumption DEF InHand
<1>5. Data' /\ Counted'
  BY <1>1 DEF IInv, Typed, Data, Counted
<1>6. CASE rest = {} /\ call[t].op = "deallocate"
  <2>1. Moved(t, "idle", NoCall)
    BY <1>6, LeaveMoves DEF FreeIndex, IInv
  <2>2. InHand(t)' = InHand(t) \ {s}
    BY <1>4, <1>6, <2>1, IdleShape
  <2>3. Owned'
    BY <1>1, <1>4, <2>1, <2>2, Hands, OwnedFree DEF IInv
  <2>4. QED  BY <1>1, <1>5, <2>1, <2>3, IdleShape, Kept
<1>7. CASE ~(rest = {} /\ call[t].op = "deallocate")
  <2> DEFINE p == IF rest # {} THEN "return" ELSE IF call[t].op = "purge" THEN "purge" ELSE "index"
  <2>1. Goto(t, "free", p) /\ call' = [call EXCEPT ![t] = c]
    BY <1>7 DEF FreeIndex
  <2>2. p \in Places
    BY DEF Places, Batched, Empty
  <2>3. /\ c \in Calls /\ c.slot = None /\ c.batch = rest
        /\ c.op = call[t].op /\ c.for = call[t].for
    BY <1>3 DEF Calls
  <2> HIDE DEF c
  <2>4. Moved(t, p, c)
    BY <2>1, <2>2, <2>3, GotoMoves DEF IInv
  <2>5. Shape(t)'
    BY <1>1, <1>3, <2>3, <2>4 DEF Shape, Moved, Empty, Single, Batched
  <2>6. InHand(t)' = InHand(t) \ {s}
    BY <1>4, <2>3, <2>4, Hands
  <2>7. Owned'
    BY <1>1, <1>4, <2>4, <2>6, Hands, OwnedFree DEF IInv
  <2>8. QED  BY <1>1, <1>5, <2>4, <2>5, <2>7, Kept
<1>8. QED  BY <1>6, <1>7

-----------------------------------------------------------------------------
(* Deallocation *)

LEMMA DeallocateStep ==
  ASSUME IInv, NEW t \in Threads, NEW s \in Slots, Deallocate(t, s), UNCHANGED <<config, linux>>
  PROVE  IInv'
<1> DEFINE m == IF s \in MemorySlots THEN affinity[s] ELSE None
           c == [NoCall EXCEPT !.op = "deallocate", !.slot = s, !.for = m]
           K == KindOf(s)
<1>1. m \in Modules \cup {None}
  BY DEF IInv, Typed, Data
<1>2. Enter(t, "clear", c)
  BY DEF Deallocate
<1> HIDE DEF m
<1>3. c \in Calls /\ c.slot = s /\ c.batch = {} /\ c.op = "deallocate"
  BY <1>1 DEF Calls, NoCall
<1> HIDE DEF c
<1>4. PICK d \in Calls : Moved(t, "clear", d) /\ d.slot = s /\ d.batch = {} /\ d.op = "deallocate"
  <2>1. "clear" \in Places
    BY DEF Places, Single
  <2>2. \E d \in Calls : Moved(t, "clear", d) /\ d.slot = c.slot /\ d.batch = c.batch /\ d.op = c.op
    BY <1>2, <1>3, <2>1, EnterMoves DEF IInv
  <2>3. QED  BY <1>3, <2>2
<1>5. InHand(t) = {}
  BY <1>2 DEF Enter, IInv, Shapes, Shape, InHand, Empty
<1>6. /\ s \in held /\ live' = [live EXCEPT ![K] = @ - 1] /\ held' = held \ {s}
      /\ UNCHANGED <<slots, decommit_queue, dropped, purged>>
  BY DEF Deallocate
<1>7. K \in Kinds /\ s \in K /\ \A k \in Kinds \ {K} : s \notin k
  BY KindOfSlot
<1> HIDE DEF K
<1>8. Data'
  BY <1>6 DEF slots, IInv, Typed, Data
<1>9. Shape(t)'
  BY <1>4 DEF Shape, Moved, Empty, Single, Batched
<1>10. Owned'
  <2>1. InHand(t)' = InHand(t) \cup {s}
    BY <1>4, <1>5, Hands, PoolingAssumption
  <2>2. QED  BY <1>4, <1>6, <2>1, Hands, OwnedReceive DEF IInv, slots
<1>11. Counted'
  <2>1. live \in [Kinds -> Nat] /\ \A k \in Kinds : live[k] = Cardinality(held \cap k)
    BY DEF IInv, Counted
  <2>2. IsFiniteSet(held \cap K) /\ s \in held \cap K
    BY <1>6, <1>7, HeldFinite DEF IInv, Typed, Data
  <2>3. held' \cap K = (held \cap K) \ {s}
    BY <1>6
  <2> DEFINE H == held \cap K
  <2> HIDE DEF H
  <2>a. IsFiniteSet(H) /\ s \in H
    BY <2>2 DEF H
  <2>b. IsFiniteSet(H \ {s}) /\ Cardinality(H \ {s}) = Cardinality(H) - 1
    BY <2>a, FS_RemoveElement
  <2>c. Cardinality(H \ {s}) \in Nat
    BY <2>b, FS_CardinalityType
  <2>4. /\ Cardinality(held' \cap K) = Cardinality(held \cap K) - 1
        /\ Cardinality(held' \cap K) \in Nat
    BY <2>3, <2>b, <2>c DEF H
  <2>5. live' \in [Kinds -> Nat] /\ live'[K] = Cardinality(held' \cap K)
    BY <1>6, <1>7, <2>1, <2>4
  <2>6. ASSUME NEW k \in Kinds, k # K PROVE live'[k] = Cardinality(held' \cap k)
    <3>1. held' \cap k = held \cap k
      BY <1>6, <1>7, <2>6
    <3>2. QED  BY <1>6, <2>1, <2>6, <3>1
  <2>7. QED  BY <2>5, <2>6 DEF Counted
<1>12. QED  BY <1>4, <1>6, <1>8, <1>9, <1>10, <1>11, Kept

\* A slot in the hand becomes a batch of its own.
LEMMA OwnBatch ==
  ASSUME IInv, NEW t \in Threads, NEW p \in Batched, NEW c \in Calls, Goto(t, "clear", p),
         call' = [call EXCEPT ![t] = c], c.slot = call[t].slot, c.batch = {call[t].slot},
         c.op = call[t].op, c.for = call[t].for, Data',
         UNCHANGED <<used, held, decommit_queue, live, dropped>>
  PROVE  IInv'
<1>1. Moved(t, p, c) /\ pc[t] = "clear"
  BY GotoMoves DEF IInv, Places
<1>2. /\ call[t].slot \in Slots /\ call[t].batch = {}
      /\ call[t].op = "purge" => call[t].for \in dropped
  BY <1>1 DEF IInv, Shapes, Shape, Single
<1>3. Shape(t)'
  BY <1>1, <1>2 DEF Shape, Moved, Empty, Single, Batched
<1>4. c.batch \cup ({c.slot} \ {None}) = InHand(t)
  BY <1>2, PoolingAssumption DEF InHand
<1>5. QED  BY <1>1, <1>3, <1>4, KeptSame

LEMMA ClearAnonStep ==
  ASSUME IInv, NEW t \in Threads, ClearAnon(t), UNCHANGED <<config, linux>>
  PROVE  IInv'
<1> DEFINE s == call[t].slot
           c == [call[t] EXCEPT !.batch = {s}]
           d == [call[t] EXCEPT !.batch = {s}, !.ok = FALSE]
<1>1. /\ s \in MemorySlots /\ Goto(t, "clear", "return")
      /\ UNCHANGED <<used, affinity, image_slot, decommit_queue, live, held, dropped, purged>>
  BY DEF ClearAnon
<1>2. call' = [call EXCEPT ![t] = c] \/ call' = [call EXCEPT ![t] = d]
  BY DEF ClearAnon
<1>3. Data'
  <2>1. mapped' \in [MemorySlots -> Modules \cup {None}] /\ dirty' \subseteq dirty
    BY DEF ClearAnon, IInv, Typed, Data
  <2>2. QED  BY <1>1, <2>1 DEF IInv, Typed, Data
<1>4. call[t] \in Calls /\ s \in Slots
  BY <1>1 DEF IInv, Typed, Slots
<1>5. c \in Calls /\ c.slot = s /\ c.batch = {s} /\ c.op = call[t].op /\ c.for = call[t].for
  BY <1>4 DEF Calls
<1>6. d \in Calls /\ d.slot = s /\ d.batch = {s} /\ d.op = call[t].op /\ d.for = call[t].for
  BY <1>4 DEF Calls
<1> HIDE DEF c, d
<1>7. QED  BY <1>1, <1>2, <1>3, <1>5, <1>6, OwnBatch DEF Batched

LEMMA MergeOrFlushStep ==
  ASSUME IInv, NEW t \in Threads, MergeOrFlush(t), UNCHANGED <<config, linux>>
  PROVE  IInv'
<1> DEFINE s == call[t].slot
           queue == decommit_queue \cup {s}
           c == [call[t] EXCEPT !.batch = {s}]
           d == [call[t] EXCEPT !.batch = queue]
<1>1. pc[t] = "clear" /\ UNCHANGED <<slots, live, held, dropped, purged>>
  BY DEF MergeOrFlush
<1>2. /\ call[t] \in Calls /\ s \in Slots /\ call[t].batch = {}
      /\ call[t].op = "purge" => call[t].for \in dropped
  BY <1>1 DEF IInv, Typed, Shapes, Shape, Single
<1>3. InHand(t) = {s}
  BY <1>2, PoolingAssumption DEF InHand
<1>4. queue \subseteq Slots
  BY <1>2 DEF IInv, Typed, Data
<1>5. Counted'
  BY <1>1 DEF IInv, Counted
<1>6. CASE /\ Goto(t, "clear", "flush") /\ call' = [call EXCEPT ![t] = c]
           /\ UNCHANGED decommit_queue
  <2>1. c \in Calls /\ c.slot = s /\ c.batch = {s} /\ c.op = call[t].op /\ c.for = call[t].for
    BY <1>2 DEF Calls
  <2>2. Data'
    BY <1>1, <1>6 DEF slots, IInv, Typed, Data
  <2> HIDE DEF c
  <2>3. QED  BY <1>1, <1>6, <2>1, <2>2, OwnBatch DEF Batched, slots
<1>7. CASE /\ Goto(t, "clear", "flush") /\ call' = [call EXCEPT ![t] = d]
           /\ decommit_queue' = {}
  <2>1. d \in Calls /\ d.slot = s /\ d.batch = queue /\ d.op = call[t].op /\ d.for = call[t].for
    BY <1>2, <1>4 DEF Calls
  <2> HIDE DEF d
  <2>2. Moved(t, "flush", d)
    BY <1>7, <2>1, GotoMoves DEF IInv, Places, Batched
  <2>3. Data'
    BY <1>1, <1>7 DEF slots, IInv, Typed, Data
  <2>4. Shape(t)'
    BY <1>1, <1>2, <2>1, <2>2 DEF Shape, Moved, Empty, Single, Batched
  <2>5. InHand(t)' = InHand(t) \cup decommit_queue
    BY <1>2, <1>3, <2>1, <2>2, Hands, PoolingAssumption
  <2>6. Owned'
    BY <1>1, <1>7, <2>2, <2>5, Hands, OwnedBatch DEF IInv, slots
  <2>7. QED  BY <1>1, <1>5, <2>2, <2>3, <2>4, <2>6, Kept
<1>8. CASE Leave(t, "clear") /\ decommit_queue' = queue
  <2>1. Moved(t, "idle", NoCall)
    BY <1>8, LeaveMoves DEF IInv
  <2>2. Data'
    BY <1>1, <1>4, <1>8 DEF slots, IInv, Typed, Data
  <2>3. Owned'
    BY <1>1, <1>3, <1>8, <2>1, IdleShape, Hands, OwnedQueue DEF IInv, slots
  <2>4. QED  BY <1>1, <1>5, <2>1, <2>2, <2>3, IdleShape, Kept
<1>9. QED  BY <1>6, <1>7, <1>8 DEF MergeOrFlush

-----------------------------------------------------------------------------
(* Purging *)

LEMMA PurgeModuleStep ==
  ASSUME IInv, NEW t \in Threads, NEW m \in Modules, PurgeModule(t, m), UNCHANGED <<config, linux>>
  PROVE  IInv'
<1> DEFINE c == [NoCall EXCEPT !.op = "purge", !.for = m]
<1>1. c \in Calls /\ c.slot = None /\ c.batch = {} /\ c.op = "purge" /\ c.for = m
  BY DEF Calls, NoCall
<1>2. /\ Enter(t, "purge", c) /\ dropped' = dropped \cup {m}
      /\ UNCHANGED <<slots, decommit_queue, live, held, purged>>
  BY DEF PurgeModule
<1> HIDE DEF c
<1>3. PICK d \in Calls : /\ Moved(t, "purge", d) /\ d.slot = None /\ d.batch = {}
                         /\ d.op = "purge" /\ d.for = m
  BY <1>1, <1>2, EnterMoves DEF IInv, Places, Empty
<1>4. InHand(t) = {}
  BY <1>2 DEF Enter, IInv, Shapes, Shape, InHand, Empty
<1>5. Data'
  BY <1>2 DEF slots, IInv, Typed, Data
<1>6. Shape(t)'
  BY <1>2, <1>3 DEF Shape, Moved, Empty, Single, Batched
<1>7. QED  BY <1>2, <1>3, <1>4, <1>5, <1>6, KeptSame DEF slots

LEMMA PurgeNextStep ==
  ASSUME IInv, NEW t \in Threads, PurgeNext(t), UNCHANGED <<config, linux>>
  PROVE  IInv'
<1>1. pc[t] = "purge" /\ UNCHANGED <<image_slot, mapped, dirty, decommit_queue, live, held, dropped>>
  BY DEF PurgeNext, Goto, Leave
<1>2. /\ call[t] \in Calls /\ call[t].slot = None /\ call[t].batch = {} /\ InHand(t) = {}
      /\ call[t].for \in dropped
  BY <1>1 DEF IInv, Typed, Shapes, Shape, Empty, InHand
<1>3. Counted'
  BY <1>1 DEF IInv, Counted
<1>4. ASSUME NEW s \in MemorySlots \ used, Goto(t, "purge", "take"), used' = used \cup {s},
             affinity' = [affinity EXCEPT ![s] = None], call' = [call EXCEPT ![t].slot = s],
             UNCHANGED purged
      PROVE  IInv'
  <2> DEFINE c == [call[t] EXCEPT !.slot = s]
  <2>1. s \in Slots
    BY DEF Slots
  <2>2. c \in Calls /\ c.slot = s /\ c.batch = {} /\ c.for = call[t].for
    BY <1>2, <2>1 DEF Calls
  <2>3. call' = [call EXCEPT ![t] = c]
    BY <1>4
  <2> HIDE DEF c
  <2>4. Moved(t, "take", c)
    BY <1>4, <2>2, <2>3, GotoMoves DEF IInv, Places, Single
  <2>5. affinity' \in [MemorySlots -> Modules \cup {None}]
    BY <1>4 DEF IInv, Typed, Data
  <2>6. Data'
    BY <1>1, <1>4, <2>1, <2>5 DEF IInv, Typed, Data
  <2>7. Shape(t)'
    BY <1>1, <1>2, <2>1, <2>2, <2>4 DEF Shape, Moved, Empty, Single, Batched
  <2>8. InHand(t)' = InHand(t) \cup {s}
    <3>1. InHand(t)' = {} \cup ({s} \ {None})
      BY <2>2, <2>4, Hands
    <3>2. QED  BY <1>2, <2>1, <3>1, PoolingAssumption
  <2>9. Owned'
    BY <1>1, <1>4, <2>4, <2>8, Hands, OwnedTake DEF IInv
  <2>10. QED  BY <1>1, <1>3, <2>4, <2>6, <2>7, <2>9, Kept
<1>5. CASE Leave(t, "purge") /\ purged' = purged \cup {call[t].for} /\ UNCHANGED <<used, affinity>>
  <2>1. Moved(t, "idle", NoCall)
    BY <1>5, LeaveMoves DEF IInv
  <2>2. Data'
    BY <1>1, <1>2, <1>5 DEF IInv, Typed, Data
  <2>3. NoCall.batch \cup ({NoCall.slot} \ {None}) = InHand(t)
    BY <1>2 DEF NoCall
  <2>4. QED  BY <1>1, <1>5, <2>1, <2>2, <2>3, IdleShape, KeptSame
<1>6. QED  BY <1>4, <1>5 DEF PurgeNext

-----------------------------------------------------------------------------

LEMMA InitIInv == Init => IInv
<1> SUFFICES ASSUME Init PROVE IInv
  OBVIOUS
<1>1. Data
  BY DEF Init, Data
<1>2. pc = [t \in Threads |-> "idle"] /\ call = [t \in Threads |-> NoCall]
  BY DEF Init
<1>3. Typed
  BY <1>1, <1>2, NoCallTyped DEF Typed, Places, Empty
<1>4. Shapes
  BY <1>2 DEF Shapes, Shape, NoCall, Empty, Single, Batched
<1>5. \A t \in Threads : InHand(t) = {}
  BY <1>2 DEF InHand, NoCall
<1>6. Owned
  BY <1>5 DEF Owned, Init
<1>7. Counted
  BY FS_EmptySet DEF Counted, Init
<1>8. QED  BY <1>3, <1>4, <1>6, <1>7 DEF IInv

LEMMA NextIInv == IInv /\ [Next]_vars => IInv'
<1> SUFFICES ASSUME IInv, [Next]_vars PROVE IInv'
  OBVIOUS
<1>1. ASSUME NEW t \in Threads, Call(t) PROVE IInv'
  <2>1. UNCHANGED <<config, linux>>
    BY <1>1 DEF Call
  <2>2. QED  BY <1>1, <2>1, AllocateStep, DeallocateStep, PurgeModuleStep DEF Call
<1>2. ASSUME NEW t \in Threads, Step(t) PROVE IInv'
  <2>1. UNCHANGED <<config, linux>>
    BY <1>2 DEF Step
  <2>2. CASE PickIndex(t) \/ NoIndex(t) \/ TakeImage(t) \/ Make(t) \/ Undo(t)
    BY <2>1, <2>2, PickIndexStep, NoIndexStep, TakeImageStep, MakeStep, UndoStep
  <2>3. CASE Count(t) \/ LimitError(t) \/ TakeQueue(t) \/ Decommit(t) \/ Return(t)
    BY <2>1, <2>3, CountStep, LimitErrorStep, TakeQueueStep, DecommitStep, ReturnStep
  <2>4. CASE FreeIndex(t) \/ ClearAnon(t) \/ MergeOrFlush(t) \/ PurgeNext(t) \/ RemoveImage(t)
    BY <2>1, <2>4, FreeIndexStep, ClearAnonStep, MergeOrFlushStep, PurgeNextStep, RemoveImageStep
  <2>5. QED  BY <1>2, <2>2, <2>3, <2>4 DEF Step
<1>3. CASE UNCHANGED vars
  <2> USE <1>3 DEF vars, slots
  <2>1. Typed' /\ Counted'
    BY DEF IInv, Typed, Data, Counted
  <2>2. Shapes'
    BY DEF IInv, Shapes, Shape
  <2>3. Owned'
    BY OwnedSame DEF IInv, InHand
  <2>4. QED  BY <2>1, <2>2, <2>3 DEF IInv
<1>4. QED  BY <1>1, <1>2, <1>3 DEF Next

LEMMA InductiveInvariant == Spec => []IInv
  BY InitIInv, NextIInv, PTL DEF Spec

LEMMA IInvOneOwner == IInv => OneOwner
<1> SUFFICES ASSUME IInv PROVE OneOwner
  OBVIOUS
<1>1. \A k \in Kinds : live[k] \in 0 .. Cardinality(k)
  <2> SUFFICES ASSUME NEW k \in Kinds PROVE live[k] \in 0 .. Cardinality(k)
    OBVIOUS
  <2>1. k \subseteq Slots
    BY DEF Kinds, Slots
  <2>2. IsFiniteSet(k) /\ Cardinality(k) \in Nat
    BY <2>1, HeldFinite
  <2>3. Cardinality(held \cap k) <= Cardinality(k)
    BY <2>2, FS_Subset
  <2>4. QED  BY <2>2, <2>3 DEF IInv, Counted
<1>2. TypeOK
  BY <1>1 DEF IInv, Typed, Data, TypeOK, Places, Empty, Single, Batched, Calls
<1>3. EmptyAtDrop
  <2> SUFFICES ASSUME \A t \in Threads : pc[t] = "idle", held = {}
               PROVE  (\A k \in Kinds : live[k] = 0) /\ used = decommit_queue
    BY DEF EmptyAtDrop
  <2>1. \A t \in Threads : InHand(t) = {}
    BY DEF IInv, Shapes, Shape, Empty, InHand
  <2>2. used = decommit_queue
    BY <2>1 DEF IInv, Owned
  <2>3. \A k \in Kinds : live[k] = 0
    BY FS_EmptySet DEF IInv, Counted
  <2>4. QED  BY <2>2, <2>3
<1>4. QED  BY <1>2, <1>3 DEF IInv, Owned, OneOwner

\* Whatever fails, and however the calls of any number of threads interleave, a slot in
\* use belongs to the embedding, to the decommit queue or to one call: none is lost, none
\* is freed twice, and the live counters agree with what the embedding holds.
THEOREM SlotsOwned == Spec => []OneOwner
  BY InductiveInvariant, IInvOneOwner, PTL
=============================================================================
