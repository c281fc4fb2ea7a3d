-------------------------- MODULE PoolingResetProofs --------------------------
(* Proofs about what is on the pages of the slots of PoolingAllocator. *)
EXTENDS PoolingAllocatorProofs

\* What a call knows about the slots in its hands.
Knows(t) ==
  LET s == call[t].slot
      b == call[t].batch
      at == pc[t]
  IN /\ at \in {"index", "limit"} => call[t].op = "allocate"
     /\ at # "idle" => \/ call[t].op \in {"deallocate", "purge"}
                       \/ call[t].op = "allocate" /\ call[t].kind \in Kinds
     /\ at \in {"take", "remove"} => s \in MemorySlots
     /\ at \in {"make", "remove"} => s \notin dirty
     /\ at \in {"undo", "free"} => s \notin TableSlots \cap dirty
     /\ at \in {"return", "free"} /\ call[t].ok =>
          b \cap (MemorySlots \cup TableSlots) \cap dirty = {}
     /\ at = "flush" /\ b \cap MemorySlots # {} => linux
     /\ \A x \in InHand(t) \cap MemorySlots :
          image_slot[x] = "Unknown" \/ at = "take" \/ (at = "free" /\ x = s)

\* What is known about the other slots: a table is zeroed before it is freed, an ImageSlot
\* describes clean pages, and one is Unknown while its slot is in use.
Pages ==
  /\ TableSlots \cap dirty \subseteq used
  /\ \A s \in MemorySlots : image_slot[s] # "Unknown" => s \notin dirty
  /\ \A s \in MemorySlots \cap (held \cup decommit_queue) : image_slot[s] = "Unknown"
  /\ decommit_queue \cap MemorySlots # {} => linux

Reset == Pages /\ \A t \in Threads : Knows(t)

-----------------------------------------------------------------------------

\* A thread changes only the slots in its hands, so it disturbs nobody else.
LEMMA OthersKnow ==
  ASSUME IInv, Reset, NEW t \in Threads, NEW p, NEW c, Moved(t, p, c), UNCHANGED linux,
         \A s \in MemorySlots \ InHand(t) : image_slot'[s] = image_slot[s],
         dirty' \subseteq dirty \cup InHand(t), Knows(t)', Pages'
  PROVE  Reset'
<1> SUFFICES ASSUME NEW u \in Threads \ {t} PROVE Knows(u)'
  BY DEF Reset
<1>1. Knows(u)
  BY DEF Reset
<1>2. /\ pc'[u] = pc[u] /\ call'[u].slot = call[u].slot /\ call'[u].batch = call[u].batch
      /\ call'[u].op = call[u].op /\ call'[u].kind = call[u].kind /\ call'[u].ok = call[u].ok
  BY DEF Moved
<1>3. InHand(u)' = InHand(u) /\ InHand(u) \cap InHand(t) = {}
  BY Hands DEF IInv, Owned
<1>4. call[u].batch \subseteq InHand(u) /\ call[u].slot \in InHand(u) \cup {None}
  BY DEF InHand
<1>5. call[u].batch \cap dirty' \subseteq dirty
  BY <1>3, <1>4
<1>6. call[u].slot \in InHand(u) => (call[u].slot \in dirty' => call[u].slot \in dirty)
  BY <1>3
<1>7. call[u].slot = None => call[u].slot \notin dirty'
  <2>1. InHand(t) \subseteq Slots /\ dirty \subseteq Slots
    BY DEF IInv, Typed, Data, Calls, InHand
  <2>2. QED  BY <2>1, PoolingAssumption
<1>8. call[u].slot \in dirty' => call[u].slot \in dirty
  BY <1>4, <1>6, <1>7
<1>9. \A x \in InHand(u) \cap MemorySlots : image_slot'[x] = image_slot[x]
  BY <1>3
<1> DEFINE at == pc[u]
<1>10. /\ at \in {"index", "limit"} => call[u].op = "allocate"
       /\ at # "idle" => \/ call[u].op \in {"deallocate", "purge"}
                         \/ call[u].op = "allocate" /\ call[u].kind \in Kinds
       /\ at \in {"take", "remove"} => call[u].slot \in MemorySlots
       /\ at = "flush" /\ call[u].batch \cap MemorySlots # {} => linux
  BY <1>1 DEF Knows
<1>11. /\ at \in {"make", "remove"} => call[u].slot \notin dirty'
       /\ at \in {"undo", "free"} => call[u].slot \notin TableSlots \cap dirty'
  BY <1>1, <1>8 DEF Knows
<1>12. at \in {"return", "free"} /\ call[u].ok =>
          call[u].batch \cap (MemorySlots \cup TableSlots) \cap dirty' = {}
  BY <1>1, <1>5 DEF Knows
<1>13. \A x \in InHand(u) \cap MemorySlots :
          image_slot'[x] = "Unknown" \/ at = "take" \/ (at = "free" /\ x = call[u].slot)
  BY <1>1, <1>9 DEF Knows
<1>14. QED  BY <1>2, <1>3, <1>10, <1>11, <1>12, <1>13 DEF Knows

\* A call that has returned knows nothing.
LEMMA IdleKnows ==
  ASSUME NEW t \in Threads, Moved(t, "idle", NoCall)
  PROVE  Knows(t)'
  BY IdleShape DEF Knows, Moved

\* Nothing happens to the pages while slots are only taken.
LEMMA PagesSame ==
  ASSUME Pages, UNCHANGED <<linux, image_slot, dirty>>, used \subseteq used',
         held' \subseteq held, decommit_queue' \subseteq decommit_queue
  PROVE  Pages'
  BY DEF Pages

\* The slot of a call that has just one.
LEMMA OneInHand ==
  ASSUME IInv, NEW t \in Threads, pc[t] \in Single
  PROVE  /\ call[t] \in Calls /\ call[t].slot \in Slots /\ call[t].batch = {}
         /\ InHand(t) = {call[t].slot}
         /\ call[t].slot \in used /\ call[t].slot \notin held \cup decommit_queue
<1>1. call[t] \in Calls /\ call[t].slot \in Slots /\ call[t].batch = {}
  BY DEF IInv, Typed, Shapes, Shape
<1>2. InHand(t) = {call[t].slot}
  BY <1>1, PoolingAssumption DEF InHand
<1>3. QED  BY <1>1, <1>2 DEF IInv, Owned

-----------------------------------------------------------------------------
(* Allocation *)

LEMMA AllocateReset ==
  ASSUME IInv, Reset, NEW t \in Threads, NEW kind \in Kinds, NEW m \in Modules \cup {None},
         Allocate(t, kind, m), UNCHANGED <<config, linux>>
  PROVE  Reset'
<1> DEFINE c == [NoCall EXCEPT !.op = "allocate", !.kind = kind, !.for = m]
<1>1. c \in Calls /\ c.slot = None /\ c.batch = {} /\ c.op = "allocate" /\ c.kind = kind
  BY DEF Kinds, Slots, Calls, NoCall
<1>2. Enter(t, "index", c) /\ "index" \in Places
  BY DEF Allocate, Places, Empty
<1> HIDE DEF c
<1>3. PICK d \in Calls : /\ Moved(t, "index", d) /\ d.slot = None /\ d.batch = {}
                         /\ d.op = "allocate" /\ d.kind = kind
  BY <1>1, <1>2, EnterMoves DEF IInv
<1>4. InHand(t)' = {}
  BY <1>3, Hands
<1>5. Knows(t)'
  BY <1>3, <1>4 DEF Knows, Moved
<1>6. UNCHANGED <<slots, held, decommit_queue>>
  BY DEF Allocate
<1>7. Pages'
  BY <1>6, PagesSame DEF Reset, slots
<1>8. QED  BY <1>3, <1>5, <1>6, <1>7, OthersKnow DEF slots

LEMMA PickIndexReset ==
  ASSUME IInv, Reset, NEW t \in Threads, PickIndex(t), UNCHANGED <<config, linux>>
  PROVE  Reset'
<1> DEFINE kind == call[t].kind
           to == IF kind = MemorySlots THEN "take" ELSE IF kind = TableSlots THEN "make" ELSE "count"
<1>1. PICK s \in Candidates(kind, call[t].for) :
         /\ Goto(t, "index", to) /\ used' = used \cup {s} /\ call' = [call EXCEPT ![t].slot = s]
         /\ UNCHANGED <<image_slot, dirty, decommit_queue, held>>
  BY DEF PickIndex
<1>2. pc[t] = "index" /\ call[t] \in Calls /\ call[t].batch = {}
  BY <1>1 DEF Goto, IInv, Typed, Shapes, Shape, Empty
<1>3. kind \in Kinds /\ call[t].op = "allocate"
  BY <1>2 DEF Reset, Knows
<1>4. s \in kind /\ s \notin used
  BY DEF Candidates
<1>5. s \in Slots
  BY <1>3, <1>4 DEF Kinds, Slots
<1> DEFINE c == [call[t] EXCEPT !.slot = s]
<1>6. c \in Calls /\ c.slot = s /\ c.batch = {} /\ c.op = "allocate" /\ c.kind = kind
  BY <1>2, <1>3, <1>5 DEF Calls
<1>7. call' = [call EXCEPT ![t] = c]
  BY <1>1
<1> HIDE DEF c
<1>8. to \in {"take", "make", "count"} /\ to \in Places
  BY DEF Places, Single
<1>9. Moved(t, to, c)
  BY <1>1, <1>6, <1>7, <1>8, GotoMoves DEF IInv
<1>10. InHand(t)' = {s}
  BY <1>5, <1>6, <1>9, Hands, PoolingAssumption
<1>11. Knows(t)'
  <2>0. pc'[t] = to /\ call'[t] = c
    BY <1>9 DEF Moved
  <2>1. CASE kind = MemorySlots
    BY <1>4, <1>6, <1>10, <2>0, <2>1, <1>3 DEF Knows
  <2>2. CASE kind # MemorySlots /\ kind = TableSlots
    <3>1. to = "make" /\ s \notin MemorySlots /\ s \notin dirty'
      BY <1>1, <1>4, <2>2, PoolingAssumption DEF Reset, Pages
    <3>2. QED  BY <1>3, <1>6, <1>10, <2>0, <3>1 DEF Knows
  <2>3. CASE kind # MemorySlots /\ kind # TableSlots
    <3>1. to = "count" /\ s \notin MemorySlots
      BY <1>3, <1>4, <2>3, PoolingAssumption DEF Kinds
    <3>2. QED  BY <1>3, <1>6, <1>10, <2>0, <3>1 DEF Knows
  <2>4. QED  BY <2>1, <2>2, <2>3
<1>12. Pages'
  BY <1>1, PagesSame DEF Reset
<1>13. QED  BY <1>1, <1>9, <1>11, <1>12, OthersKnow

LEMMA NoIndexReset ==
  ASSUME IInv, Reset, NEW t \in Threads, NoIndex(t), UNCHANGED <<config, linux>>
  PROVE  Reset'
<1> DEFINE to == IF call[t].retried THEN "limit_error" ELSE "limit"
<1>1. /\ Goto(t, "index", to) /\ call' = call /\ to \in {"limit", "limit_error"} /\ to \in Places
      /\ UNCHANGED <<slots, held, decommit_queue>>
  BY DEF NoIndex, Places, Empty
<1> HIDE DEF to
<1>2. Moved(t, to, call[t]) /\ pc[t] = "index"
  BY <1>1, StayMoves DEF IInv
<1>3. call[t].op = "allocate" /\ call[t].kind \in Kinds
  BY <1>2 DEF Reset, Knows
<1>4. InHand(t)' = {}
  BY <1>2, Hands DEF IInv, Shapes, Shape, Empty
<1>5. Knows(t)'
  BY <1>1, <1>2, <1>3, <1>4 DEF Knows, Moved
<1>6. Pages'
  BY <1>1, PagesSame DEF Reset, slots
<1>7. QED  BY <1>1, <1>2, <1>5, <1>6, OthersKnow DEF slots

LEMMA TakeImageReset ==
  ASSUME IInv, Reset, NEW t \in Threads, TakeImage(t), UNCHANGED <<config, linux>>
  PROVE  Reset'
<1> DEFINE s == call[t].slot
<1>1. /\ pc[t] = "take" /\ image_slot' = [image_slot EXCEPT ![s] = "Unknown"] /\ call' = call
      /\ UNCHANGED <<used, decommit_queue, held>>
  BY DEF TakeImage
<1>2. s \in MemorySlots /\ InHand(t) = {s} /\ call[t].batch = {}
  BY <1>1, OneInHand DEF Reset, Knows, Single
<1>3. PICK to \in {"make", "remove", "free", "undo"} :
         Goto(t, "take", to) /\ (to \in {"make", "remove"} => s \notin dirty')
  BY <1>1, <1>2 DEF TakeImage, Reset, Pages
<1>4. Moved(t, to, call[t])
  BY <1>1, <1>3, StayMoves DEF IInv, Places, Single
<1>5. dirty' \subseteq dirty
  BY DEF TakeImage
<1>6. image_slot'[s] = "Unknown" /\ \A x \in MemorySlots \ {s} : image_slot'[x] = image_slot[x]
  BY <1>1, <1>2 DEF IInv, Typed, Data
<1>7. Knows(t)'
  <2>1. InHand(t)' = {s}
    BY <1>2, <1>4, Hands DEF InHand
  <2>2. s \notin TableSlots
    BY <1>2, PoolingAssumption
  <2>3. \/ call[t].op \in {"deallocate", "purge"}
        \/ call[t].op = "allocate" /\ call[t].kind \in Kinds
    BY <1>1 DEF Reset, Knows
  <2>4. QED  BY <1>2, <1>3, <1>4, <1>6, <2>1, <2>2, <2>3 DEF Knows, Moved
<1>8. Pages'
  BY <1>1, <1>5, <1>6 DEF Reset, Pages
<1>9. QED  BY <1>2, <1>4, <1>5, <1>6, <1>7, <1>8, OthersKnow

LEMMA MakeReset ==
  ASSUME IInv, Reset, NEW t \in Threads, Make(t), UNCHANGED <<config, linux>>
  PROVE  Reset'
<1> DEFINE s == call[t].slot
<1>1. call' = call /\ UNCHANGED <<used, image_slot, decommit_queue, held>>
  BY DEF Make
<1>2. PICK to \in {"count", "undo"} : Goto(t, "make", to)
  BY DEF Make
<1>3. dirty' = dirty \/ (s \in MemorySlots /\ dirty' = dirty \cup {s})
  BY DEF Make
<1>4. Moved(t, to, call[t]) /\ pc[t] = "make"
  BY <1>1, <1>2, StayMoves DEF IInv, Places, Single
<1>5. /\ InHand(t) = {s} /\ call[t].batch = {} /\ s \in used
      /\ s \in MemorySlots => image_slot[s] = "Unknown"
      /\ s \notin dirty
  BY <1>4, OneInHand DEF Reset, Knows, Single
<1>6. Knows(t)'
  <2>1. InHand(t)' = {s}
    BY <1>4, <1>5, Hands DEF InHand
  <2>2. s \notin TableSlots \cap dirty'
    BY <1>3, <1>5, PoolingAssumption
  <2>3. \/ call[t].op \in {"deallocate", "purge"}
        \/ call[t].op = "allocate" /\ call[t].kind \in Kinds
    BY <1>4 DEF Reset, Knows
  <2>4. QED  BY <1>1, <1>4, <1>5, <2>1, <2>2, <2>3 DEF Knows, Moved
<1>7. Pages'
  BY <1>1, <1>3, <1>5, PoolingAssumption DEF Reset, Pages
<1>8. QED  BY <1>1, <1>3, <1>4, <1>5, <1>6, <1>7, OthersKnow

LEMMA UndoReset ==
  ASSUME IInv, Reset, NEW t \in Threads, Undo(t), UNCHANGED <<config, linux>>
  PROVE  Reset'
<1>1. Moved(t, "idle", NoCall) /\ pc[t] = "undo"
  BY LeaveMoves DEF Undo, IInv
<1>2. used' = used \ {call[t].slot} /\ UNCHANGED <<image_slot, dirty, decommit_queue, held>>
  BY DEF Undo
<1>3. call[t].slot \notin TableSlots \cap dirty
  BY <1>1 DEF Reset, Knows
<1>4. Pages'
  BY <1>2, <1>3 DEF Reset, Pages
<1>5. QED  BY <1>1, <1>2, <1>4, IdleKnows, OthersKnow

LEMMA CountReset ==
  ASSUME IInv, Reset, NEW t \in Threads, Count(t), UNCHANGED <<config, linux>>
  PROVE  Reset'
<1> DEFINE s == call[t].slot
<1>1. Moved(t, "idle", NoCall) /\ pc[t] = "count"
  BY LeaveMoves DEF Count, IInv
<1>2. /\ held' = held \cup {s} /\ dirty' = dirty \cup {s}
      /\ UNCHANGED <<used, image_slot, decommit_queue>>
  BY DEF Count
<1>3. InHand(t) = {s} /\ s \in used
  BY <1>1, OneInHand DEF Single
<1>4. s \in MemorySlots => image_slot[s] = "Unknown"
  BY <1>1, <1>3 DEF Reset, Knows
<1>5. Pages'
  BY <1>2, <1>3, <1>4 DEF Reset, Pages
<1>6. QED  BY <1>1, <1>2, <1>3, <1>5, IdleKnows, OthersKnow

LEMMA LimitErrorReset ==
  ASSUME IInv, Reset, NEW t \in Threads, LimitError(t), UNCHANGED <<config, linux>>
  PROVE  Reset'
<1>1. Moved(t, "idle", NoCall)
  BY LeaveMoves DEF LimitError, IInv
<1>2. UNCHANGED <<slots, decommit_queue, held>>
  BY DEF LimitError
<1>3. Pages'
  BY <1>2, PagesSame DEF Reset, slots
<1>4. QED  BY <1>1, <1>2, <1>3, IdleKnows, OthersKnow DEF slots

-----------------------------------------------------------------------------
(* Flushing *)

LEMMA TakeQueueReset ==
  ASSUME IInv, Reset, NEW t \in Threads, TakeQueue(t), UNCHANGED <<config, linux>>
  PROVE  Reset'
<1>1. pc[t] = "limit" /\ UNCHANGED <<slots, held>>
  BY DEF TakeQueue, Goto
<1>2. /\ call[t] \in Calls /\ call[t].slot = None /\ call[t].batch = {}
      /\ call[t].op = "allocate" /\ call[t].kind \in Kinds
  BY <1>1 DEF IInv, Typed, Shapes, Shape, Empty, Reset, Knows
<1>3. CASE Goto(t, "limit", "limit_error") /\ UNCHANGED <<call, decommit_queue>>
  <2>1. Moved(t, "limit_error", call[t])
    BY <1>3, StayMoves DEF IInv, Places, Empty
  <2>2. InHand(t)' = {}
    BY <1>2, <2>1, Hands
  <2>3. Knows(t)'
    BY <1>2, <2>1, <2>2 DEF Knows, Moved
  <2>4. Pages'
    BY <1>1, <1>3, PagesSame DEF Reset, slots
  <2>5. QED  BY <1>1, <2>1, <2>3, <2>4, OthersKnow DEF slots
<1>4. CASE /\ Goto(t, "limit", "flush") /\ decommit_queue' = {}
           /\ call' = [call EXCEPT ![t].batch = decommit_queue, ![t].retried = TRUE]
  <2> DEFINE c == [call[t] EXCEPT !.batch = decommit_queue, !.retried = TRUE]
  <2>1. /\ c \in Calls /\ c.slot = None /\ c.batch = decommit_queue
        /\ c.op = "allocate" /\ c.kind = call[t].kind
    BY <1>2 DEF Calls, IInv, Typed, Data
  <2>2. call' = [call EXCEPT ![t] = c]
    BY <1>4
  <2> HIDE DEF c
  <2>3. Moved(t, "flush", c)
    BY <1>4, <2>1, <2>2, GotoMoves DEF IInv, Places, Batched
  <2>4. InHand(t)' = decommit_queue
    BY <2>1, <2>3, Hands
  <2>5. /\ \A x \in decommit_queue \cap MemorySlots : image_slot'[x] = "Unknown"
        /\ decommit_queue \cap MemorySlots # {} => linux'
    BY <1>1 DEF Reset, Pages, slots
  <2>6. Knows(t)'
    BY <1>2, <2>1, <2>3, <2>4, <2>5 DEF Knows, Moved
  <2>7. Pages'
    BY <1>1, <1>4, PagesSame DEF Reset, slots
  <2>8. QED  BY <1>1, <2>3, <2>6, <2>7, OthersKnow DEF slots
<1>5. QED  BY <1>3, <1>4 DEF TakeQueue

LEMMA DecommitReset ==
  ASSUME IInv, Reset, NEW t \in Threads, Decommit(t), UNCHANGED <<config, linux>>
  PROVE  Reset'
<1> DEFINE b == call[t].batch
           d == [call[t] EXCEPT !.ok = FALSE]
<1>1. /\ Goto(t, "flush", "return") /\ "return" \in Places /\ dirty' \subseteq dirty
      /\ UNCHANGED <<used, image_slot, decommit_queue, held>>
  BY DEF Decommit, Places, Batched
<1>2. pc[t] = "flush" /\ call[t] \in Calls
  BY <1>1 DEF Goto, IInv, Typed
<1>3. /\ \/ call[t].op \in {"deallocate", "purge"}
         \/ call[t].op = "allocate" /\ call[t].kind \in Kinds
      /\ \A x \in InHand(t) \cap MemorySlots : image_slot[x] = "Unknown"
      /\ b \cap MemorySlots # {} => linux
  BY <1>2 DEF Reset, Knows
<1>4. Pages'
  BY <1>1 DEF Reset, Pages
<1>5. CASE dirty' = dirty \ Raw(b) /\ call' = call
  <2>1. Moved(t, "return", call[t])
    BY <1>1, <1>5, StayMoves DEF IInv
  <2>2. InHand(t)' = InHand(t)
    BY <2>1, Hands DEF InHand
  <2>3. b \cap (MemorySlots \cup TableSlots) \subseteq Raw(b)
    BY <1>3, PoolingAssumption DEF Raw
  <2>4. b \cap (MemorySlots \cup TableSlots) \cap dirty' = {}
    BY <1>5, <2>3
  <2>5. Knows(t)'
    BY <1>1, <1>3, <2>1, <2>2, <2>4 DEF Knows, Moved
  <2>6. QED  BY <1>1, <1>4, <2>1, <2>5, OthersKnow
<1>6. CASE call' = [call EXCEPT ![t].ok = FALSE]
  <2>1. /\ d \in Calls /\ d.slot = call[t].slot /\ d.batch = b /\ ~d.ok
        /\ d.op = call[t].op /\ d.kind = call[t].kind
    BY <1>2 DEF Calls
  <2>2. call' = [call EXCEPT ![t] = d]
    BY <1>6
  <2> HIDE DEF d
  <2>3. Moved(t, "return", d)
    BY <1>1, <2>1, <2>2, GotoMoves DEF IInv
  <2>4. InHand(t)' = InHand(t)
    BY <2>1, <2>3, Hands DEF InHand
  <2>5. Knows(t)'
    BY <1>1, <1>3, <2>1, <2>3, <2>4 DEF Knows, Moved
  <2>6. QED  BY <1>1, <1>4, <2>3, <2>5, OthersKnow
<1>7. QED  BY <1>5, <1>6 DEF Decommit

LEMMA ReturnReset ==
  ASSUME IInv, Reset, NEW t \in Threads, Return(t), UNCHANGED <<config, linux>>
  PROVE  Reset'
<1> DEFINE b == call[t].batch
           ok == call[t].ok
<1>1. PICK s \in NextOf(b) :
        /\ Goto(t, "return", "free") /\ call' = [call EXCEPT ![t].slot = s]
        /\ image_slot' = IF s \in MemorySlots
                         THEN [image_slot EXCEPT ![s] = IF ok THEN "PreviouslyUsed" ELSE "Unknown"]
                         ELSE image_slot
        /\ dirty' = IF s \in TableSlots /\ ~ok THEN dirty \ {s} ELSE dirty
        /\ UNCHANGED <<used, decommit_queue, held>>
  BY DEF Return
<1>2. pc[t] = "return" /\ s \in b
  BY <1>1 DEF Goto, NextOf
<1>3. call[t] \in Calls /\ call[t].slot \in b \cup {None}
  BY <1>2 DEF IInv, Typed, Shapes, Shape, Batched
<1>4. /\ \/ call[t].op \in {"deallocate", "purge"}
         \/ call[t].op = "allocate" /\ call[t].kind \in Kinds
      /\ \A x \in InHand(t) \cap MemorySlots : image_slot[x] = "Unknown"
      /\ ok => b \cap (MemorySlots \cup TableSlots) \cap dirty = {}
  BY <1>2 DEF Reset, Knows
<1> DEFINE c == [call[t] EXCEPT !.slot = s]
<1>5. s \in Slots
  BY <1>2, <1>3 DEF Calls
<1>6. /\ c \in Calls /\ c.slot = s /\ c.batch = b
      /\ c.op = call[t].op /\ c.kind = call[t].kind /\ c.ok = ok
  BY <1>3, <1>5 DEF Calls
<1>7. call' = [call EXCEPT ![t] = c] /\ "free" \in Places
  BY <1>1 DEF Places
<1> HIDE DEF c
<1>8. Moved(t, "free", c)
  BY <1>1, <1>6, <1>7, GotoMoves DEF IInv
<1>9. InHand(t) = b /\ InHand(t)' = b
  BY <1>2, <1>3, <1>5, <1>6, <1>8, Hands, PoolingAssumption DEF InHand
<1>10. \A x \in MemorySlots \ {s} : image_slot'[x] = image_slot[x]
  BY <1>1 DEF IInv, Typed, Data
<1>11. s \in MemorySlots /\ image_slot'[s] # "Unknown" => ok
  BY <1>1 DEF IInv, Typed, Data
<1>12. dirty' \subseteq dirty /\ s \notin TableSlots \cap dirty'
  BY <1>1, <1>2, <1>4
<1>13. Knows(t)'
  <2>1. pc'[t] = "free" /\ call'[t] = c
    BY <1>8 DEF Moved
  <2>2. c.ok => c.batch \cap (MemorySlots \cup TableSlots) \cap dirty' = {}
    BY <1>4, <1>6, <1>12
  <2>3. \A x \in InHand(t)' \cap MemorySlots : image_slot'[x] = "Unknown" \/ x = c.slot
    BY <1>4, <1>6, <1>9, <1>10
  <2>4. QED  BY <1>4, <1>6, <1>12, <2>1, <2>2, <2>3 DEF Knows
<1>14. Pages'
  <2>1. s \notin held \cup decommit_queue
    BY <1>2, <1>9 DEF IInv, Owned
  <2>2. \A x \in MemorySlots : image_slot'[x] # "Unknown" => x \notin dirty'
    BY <1>2, <1>4, <1>10, <1>11, <1>12 DEF Reset, Pages
  <2>3. QED  BY <1>1, <1>10, <1>12, <2>1, <2>2 DEF Reset, Pages
<1>15. QED  BY <1>2, <1>8, <1>9, <1>10, <1>12, <1>13, <1>14, OthersKnow

LEMMA FreeIndexReset ==
  ASSUME IInv, Reset, NEW t \in Threads, FreeIndex(t), UNCHANGED <<config, linux>>
  PROVE  Reset'
<1> DEFINE s == call[t].slot
           rest == call[t].batch \ {s}
           c == [call[t] EXCEPT !.slot = None, !.batch = rest]
<1>1. used' = used \ {s} /\ UNCHANGED <<image_slot, dirty, decommit_queue, held>>
  BY DEF FreeIndex
<1>2. pc[t] = "free" /\ call[t] \in Calls /\ s \in Slots
  BY DEF FreeIndex, Leave, Goto, IInv, Typed, Shapes, Shape
<1>3. /\ \/ call[t].op \in {"deallocate", "purge"}
         \/ call[t].op = "allocate" /\ call[t].kind \in Kinds
      /\ s \notin TableSlots \cap dirty
      /\ call[t].ok => call[t].batch \cap (MemorySlots \cup TableSlots) \cap dirty = {}
      /\ \A x \in InHand(t) \cap MemorySlots : image_slot[x] = "Unknown" \/ x = s
  BY <1>2 DEF Reset, Knows
<1>4. Pages'
  BY <1>1, <1>3 DEF Reset, Pages
<1>5. CASE rest = {} /\ call[t].op = "deallocate"
  <2>1. Moved(t, "idle", NoCall)
    BY <1>5, LeaveMoves DEF FreeIndex, IInv
  <2>2. QED  BY <1>1, <1>4, <2>1, IdleKnows, OthersKnow
<1>6. CASE ~(rest = {} /\ call[t].op = "deallocate")
  <2> DEFINE p == IF rest # {} THEN "return" ELSE IF call[t].op = "purge" THEN "purge" ELSE "index"
  <2>1. Goto(t, "free", p) /\ call' = [call EXCEPT ![t] = c]
    BY <1>6 DEF FreeIndex
  <2>2. p \in {"return", "purge", "index"} /\ p \in Places
    BY DEF Places, Batched, Empty
  <2>3. /\ c \in Calls /\ c.slot = None /\ c.batch = rest
        /\ c.op = call[t].op /\ c.kind = call[t].kind /\ c.ok = call[t].ok
    BY <1>2 DEF Calls
  <2> HIDE DEF c
  <2>4. Moved(t, p, c)
    BY <2>1, <2>2, <2>3, GotoMoves DEF IInv
  <2>5. InHand(t)' = rest
    BY <2>3, <2>4, Hands
  <2>6. \A x \in rest \cap MemorySlots : image_slot'[x] = "Unknown"
    BY <1>1, <1>3 DEF InHand
  <2>7. p = "index" => call[t].op = "allocate"
    BY <1>3, <1>6
  <2>8. Knows(t)'
    BY <1>1, <1>3, <2>2, <2>3, <2>4, <2>5, <2>6, <2>7 DEF Knows, Moved
  <2>9. QED  BY <1>1, <1>4, <2>4, <2>8, OthersKnow
<1>7. QED  BY <1>5, <1>6

-----------------------------------------------------------------------------
(* Deallocation and purging *)

LEMMA DeallocateReset ==
  ASSUME IInv, Reset, NEW t \in Threads, NEW s \in Slots, Deallocate(t, s),
         UNCHANGED <<config, linux>>
  PROVE  Reset'
<1> DEFINE m == IF s \in MemorySlots THEN affinity[s] ELSE None
           c == [NoCall EXCEPT !.op = "deallocate", !.slot = s, !.for = m]
<1>1. m \in Modules \cup {None}
  BY DEF IInv, Typed, Data
<1>2. Enter(t, "clear", c) /\ "clear" \in Places
  BY DEF Deallocate, Places, Single
<1> HIDE DEF m
<1>3. c \in Calls /\ c.slot = s /\ c.batch = {} /\ c.op = "deallocate"
  BY <1>1 DEF Calls, NoCall
<1> HIDE DEF c
<1>4. PICK d \in Calls : Moved(t, "clear", d) /\ d.slot = s /\ d.batch = {} /\ d.op = "deallocate"
  BY <1>2, <1>3, EnterMoves DEF IInv
<1>5. s \in held /\ held' = held \ {s} /\ UNCHANGED <<slots, decommit_queue>>
  BY DEF Deallocate
<1>6. InHand(t)' = {s}
  BY <1>4, Hands, PoolingAssumption
<1>7. s \in MemorySlots => image_slot'[s] = "Unknown"
  BY <1>5 DEF Reset, Pages, slots
<1>8. Knows(t)'
  BY <1>4, <1>6, <1>7 DEF Knows, Moved
<1>9. Pages'
  BY <1>5, PagesSame DEF Reset, slots
<1>10. QED  BY <1>4, <1>5, <1>8, <1>9, OthersKnow DEF slots

LEMMA ClearAnonReset ==
  ASSUME IInv, Reset, NEW t \in Threads, ClearAnon(t), UNCHANGED <<config, linux>>
  PROVE  Reset'
<1> DEFINE s == call[t].slot
           c == [call[t] EXCEPT !.batch = {s}]
           d == [call[t] EXCEPT !.batch = {s}, !.ok = FALSE]
<1>1. /\ s \in MemorySlots /\ Goto(t, "clear", "return") /\ "return" \in Places
      /\ UNCHANGED <<used, image_slot, decommit_queue, held>>
  BY DEF ClearAnon, Places, Batched
<1>2. \/ call' = [call EXCEPT ![t] = c] /\ dirty' = dirty \ {s}
      \/ call' = [call EXCEPT ![t] = d] /\ dirty' = dirty
  BY DEF ClearAnon
<1>3. pc[t] = "clear" /\ call[t] \in Calls /\ s \in Slots /\ InHand(t) = {s}
  BY <1>1, OneInHand DEF Goto, Single
<1>4. /\ \/ call[t].op \in {"deallocate", "purge"}
         \/ call[t].op = "allocate" /\ call[t].kind \in Kinds
      /\ image_slot[s] = "Unknown"
  BY <1>1, <1>3 DEF Reset, Knows
<1>5. /\ c \in Calls /\ c.slot = s /\ c.batch = {s} /\ c.op = call[t].op /\ c.kind = call[t].kind
      /\ d \in Calls /\ d.slot = s /\ d.batch = {s} /\ d.op = call[t].op /\ d.kind = call[t].kind
      /\ ~d.ok
  BY <1>3 DEF Calls
<1> HIDE DEF c, d
<1>6. PICK f \in {c, d} : call' = [call EXCEPT ![t] = f] /\ (f.ok => s \notin dirty')
  BY <1>2, <1>5
<1>7. /\ f \in Calls /\ f.slot = s /\ f.batch = {s}
      /\ f.op = call[t].op /\ f.kind = call[t].kind
  BY <1>5
<1>8. Moved(t, "return", f)
  BY <1>1, <1>6, <1>7, GotoMoves DEF IInv
<1>9. InHand(t)' = {s}
  BY <1>3, <1>7, <1>8, Hands
<1>10. Knows(t)'
  <2>1. pc'[t] = "return" /\ call'[t] = f
    BY <1>8 DEF Moved
  <2>2. f.ok => f.batch \cap (MemorySlots \cup TableSlots) \cap dirty' = {}
    BY <1>6, <1>7
  <2>3. \A x \in InHand(t)' : image_slot'[x] = "Unknown"
    BY <1>1, <1>4, <1>9
  <2>4. QED  BY <1>4, <1>7, <2>1, <2>2, <2>3 DEF Knows
<1>11. Pages' /\ dirty' \subseteq dirty
  BY <1>1, <1>2 DEF Reset, Pages
<1>12. QED  BY <1>1, <1>8, <1>10, <1>11, OthersKnow

LEMMA MergeOrFlushReset ==
  ASSUME IInv, Reset, NEW t \in Threads, MergeOrFlush(t), UNCHANGED <<config, linux>>
  PROVE  Reset'
<1> DEFINE s == call[t].slot
           queue == decommit_queue \cup {s}
<1>1. pc[t] = "clear" /\ (s \in MemorySlots => linux) /\ UNCHANGED <<slots, held>>
  BY DEF MergeOrFlush
<1>2. call[t] \in Calls /\ s \in Slots /\ queue \subseteq Slots /\ InHand(t) = {s}
  BY <1>1, OneInHand DEF Single, IInv, Typed, Data
<1>3. \/ call[t].op \in {"deallocate", "purge"}
      \/ call[t].op = "allocate" /\ call[t].kind \in Kinds
  BY <1>1 DEF Reset, Knows
<1>4. s \in MemorySlots => image_slot'[s] = "Unknown"
  BY <1>1, <1>2 DEF Reset, Knows, slots
<1>5. \A x \in queue \cap MemorySlots : image_slot'[x] = "Unknown"
  BY <1>1, <1>4 DEF Reset, Pages, slots
<1>6. queue \cap MemorySlots # {} => linux
  BY <1>1 DEF Reset, Pages
<1>7. ASSUME NEW b \in SUBSET queue, s \in b, Goto(t, "clear", "flush"),
             call' = [call EXCEPT ![t].batch = b], decommit_queue' \subseteq decommit_queue
      PROVE  Reset'
  <2> DEFINE c == [call[t] EXCEPT !.batch = b]
  <2>1. /\ c \in Calls /\ c.slot = s /\ c.batch = b
        /\ c.op = call[t].op /\ c.kind = call[t].kind
    BY <1>2 DEF Calls
  <2>2. call' = [call EXCEPT ![t] = c]
    BY <1>7
  <2> HIDE DEF c
  <2>3. Moved(t, "flush", c)
    BY <1>7, <2>1, <2>2, GotoMoves DEF IInv, Places, Batched
  <2>4. InHand(t)' = b
    <3>1. InHand(t)' = b \cup ({s} \ {None})
      BY <2>1, <2>3, Hands
    <3>2. QED  BY <1>7, <3>1
  <2>5. Knows(t)'
    <3>1. /\ \A x \in b \cap MemorySlots : image_slot'[x] = "Unknown"
          /\ b \cap MemorySlots # {} => linux'
      BY <1>5, <1>6, <1>7
    <3>2. QED  BY <1>3, <2>1, <2>3, <2>4, <3>1 DEF Knows, Moved
  <2>6. Pages'
    BY <1>1, <1>7, PagesSame DEF Reset, slots
  <2>7. QED  BY <1>1, <2>3, <2>5, <2>6, OthersKnow DEF slots
<1>8. CASE Leave(t, "clear") /\ decommit_queue' = queue
  <2>1. Moved(t, "idle", NoCall)
    BY <1>8, LeaveMoves DEF IInv
  <2>2. Pages'
    BY <1>1, <1>5, <1>6, <1>8 DEF Reset, Pages, slots
  <2>3. QED  BY <1>1, <2>1, <2>2, IdleKnows, OthersKnow DEF slots
<1>9. CASE /\ Goto(t, "clear", "flush") /\ call' = [call EXCEPT ![t].batch = {s}]
           /\ UNCHANGED decommit_queue
  BY <1>7, <1>9
<1>10. CASE /\ Goto(t, "clear", "flush") /\ call' = [call EXCEPT ![t].batch = queue]
            /\ decommit_queue' = {}
  BY <1>7, <1>10
<1>11. QED  BY <1>8, <1>9, <1>10 DEF MergeOrFlush

LEMMA PurgeModuleReset ==
  ASSUME IInv, Reset, NEW t \in Threads, NEW m \in Modules, PurgeModule(t, m),
         UNCHANGED <<config, linux>>
  PROVE  Reset'
<1> DEFINE c == [NoCall EXCEPT !.op = "purge", !.for = m]
<1>1. c \in Calls /\ c.slot = None /\ c.batch = {} /\ c.op = "purge"
  BY DEF Calls, NoCall
<1>2. Enter(t, "purge", c) /\ "purge" \in Places /\ UNCHANGED <<slots, decommit_queue, held>>
  BY DEF PurgeModule, Places, Empty
<1> HIDE DEF c
<1>3. PICK d \in Calls : Moved(t, "purge", d) /\ d.slot = None /\ d.batch = {} /\ d.op = "purge"
  BY <1>1, <1>2, EnterMoves DEF IInv
<1>4. InHand(t)' = {}
  BY <1>3, Hands
<1>5. Knows(t)'
  BY <1>3, <1>4 DEF Knows, Moved
<1>6. Pages'
  BY <1>2, PagesSame DEF Reset, slots
<1>7. QED  BY <1>2, <1>3, <1>5, <1>6, OthersKnow DEF slots

LEMMA PurgeNextReset ==
  ASSUME IInv, Reset, NEW t \in Threads, PurgeNext(t), UNCHANGED <<config, linux>>
  PROVE  Reset'
<1>1. pc[t] = "purge" /\ UNCHANGED <<image_slot, dirty, decommit_queue, held>>
  BY DEF PurgeNext, Goto, Leave
<1>2. call[t] \in Calls /\ call[t].batch = {} /\ call[t].op = "purge"
  BY <1>1 DEF IInv, Typed, Shapes, Shape, Empty
<1>3. ASSUME NEW s \in MemorySlots, Goto(t, "purge", "take"), used' = used \cup {s},
             call' = [call EXCEPT ![t].slot = s]
      PROVE  Reset'
  <2> DEFINE c == [call[t] EXCEPT !.slot = s]
  <2>1. s \in Slots
    BY DEF Slots
  <2>2. c \in Calls /\ c.slot = s /\ c.batch = {} /\ c.op = "purge"
    BY <1>2, <2>1 DEF Calls
  <2>3. call' = [call EXCEPT ![t] = c]
    BY <1>3
  <2> HIDE DEF c
  <2>4. Moved(t, "take", c)
    BY <1>3, <2>2, <2>3, GotoMoves DEF IInv, Places, Single
  <2>5. Knows(t)'
    BY <2>2, <2>4 DEF Knows, Moved
  <2>6. Pages'
    BY <1>1, <1>3, PagesSame DEF Reset
  <2>7. QED  BY <1>1, <2>4, <2>5, <2>6, OthersKnow
<1>4. CASE Leave(t, "purge") /\ UNCHANGED used
  <2>1. Moved(t, "idle", NoCall)
    BY <1>4, LeaveMoves DEF IInv
  <2>2. Pages'
    BY <1>1, <1>4, PagesSame DEF Reset
  <2>3. QED  BY <1>1, <2>1, <2>2, IdleKnows, OthersKnow
<1>5. QED  BY <1>3, <1>4 DEF PurgeNext

LEMMA RemoveImageReset ==
  ASSUME IInv, Reset, NEW t \in Threads, RemoveImage(t), UNCHANGED <<config, linux>>
  PROVE  Reset'
<1> DEFINE s == call[t].slot
<1>1. Goto(t, "remove", "free") /\ call' = call /\ UNCHANGED <<used, dirty, decommit_queue, held>>
  BY DEF RemoveImage
<1>2. Moved(t, "free", call[t]) /\ pc[t] = "remove"
  BY <1>1, StayMoves DEF IInv, Places
<1>3. /\ s \in MemorySlots /\ s \notin dirty
      /\ \/ call[t].op \in {"deallocate", "purge"}
         \/ call[t].op = "allocate" /\ call[t].kind \in Kinds
  BY <1>2 DEF Reset, Knows
<1>4. InHand(t) = {s} /\ call[t].batch = {} /\ s \notin held \cup decommit_queue
  BY <1>2, OneInHand DEF Single
<1>5. \A x \in MemorySlots \ {s} : image_slot'[x] = image_slot[x]
  BY DEF RemoveImage, IInv, Typed, Data
<1>6. InHand(t)' = {s}
  BY <1>2, <1>4, Hands DEF InHand
<1>7. Knows(t)'
  BY <1>1, <1>2, <1>3, <1>4, <1>6 DEF Knows, Moved
<1>8. Pages'
  BY <1>1, <1>3, <1>4, <1>5 DEF Reset, Pages
<1>9. QED  BY <1>1, <1>2, <1>4, <1>5, <1>7, <1>8, OthersKnow

-----------------------------------------------------------------------------

LEMMA InitReset == Init => Reset
  BY DEF Init, Reset, Pages, Knows, InHand, NoCall

LEMMA NextReset == IInv /\ Reset /\ [Next]_vars => Reset'
<1> SUFFICES ASSUME IInv, Reset, [Next]_vars PROVE Reset'
  OBVIOUS
<1>1. ASSUME NEW t \in Threads, Call(t) PROVE Reset'
  <2>1. UNCHANGED <<config, linux>>
    BY <1>1 DEF Call
  <2>2. QED  BY <1>1, <2>1, AllocateReset, DeallocateReset, PurgeModuleReset DEF Call
<1>2. ASSUME NEW t \in Threads, Step(t) PROVE Reset'
  <2>1. UNCHANGED <<config, linux>>
    BY <1>2 DEF Step
  <2>2. CASE PickIndex(t) \/ NoIndex(t) \/ TakeImage(t) \/ Make(t) \/ Undo(t)
    BY <2>1, <2>2, PickIndexReset, NoIndexReset, TakeImageReset, MakeReset, UndoReset
  <2>3. CASE Count(t) \/ LimitError(t) \/ TakeQueue(t) \/ Decommit(t) \/ Return(t)
    BY <2>1, <2>3, CountReset, LimitErrorReset, TakeQueueReset, DecommitReset, ReturnReset
  <2>4. CASE FreeIndex(t) \/ ClearAnon(t) \/ MergeOrFlush(t) \/ PurgeNext(t) \/ RemoveImage(t)
    BY <2>1, <2>4, FreeIndexReset, ClearAnonReset, MergeOrFlushReset, PurgeNextReset,
       RemoveImageReset
  <2>5. QED  BY <1>2, <2>2, <2>3, <2>4 DEF Step
<1>3. CASE UNCHANGED vars
  BY <1>3 DEF vars, slots, Reset, Pages, Knows, InHand
<1>4. QED  BY <1>1, <1>2, <1>3 DEF Next

LEMMA ResetInvariant == Spec => [](IInv /\ Reset)
<1>1. Init => IInv /\ Reset
  BY InitIInv, InitReset
<1>2. (IInv /\ Reset) /\ [Next]_vars => (IInv /\ Reset)'
  BY NextIInv, NextReset
<1>3. QED  BY <1>1, <1>2, PTL DEF Spec

\* No memory and no table is ever built on pages that an earlier instance wrote, whichever
\* of the postponed, batched and retried resets have failed before.
THEOREM NeverBuiltOnDirty == Spec => []BuiltOnClean
<1>1. Reset => BuiltOnClean
  BY DEF Reset, Knows, BuiltOnClean
<1>2. QED  BY <1>1, ResetInvariant, PTL

\* The assertions of return_memory_image_slot never fail, and an ImageSlot that is not
\* Unknown describes clean pages.
THEOREM ImageSlotsHold == Spec => []ImageSlots
<1>1. Reset => ImageSlots
  <2> SUFFICES ASSUME Reset, NEW s \in MemorySlots
               PROVE  /\ s \in held \cup decommit_queue => image_slot[s] = "Unknown"
                      /\ \A t \in Threads :
                           pc[t] = "return" /\ s \in call[t].batch => image_slot[s] = "Unknown"
                      /\ image_slot[s] = "PreviouslyUsed" => s \notin dirty
    BY DEF ImageSlots
  <2>1. ASSUME NEW t \in Threads, pc[t] = "return", s \in call[t].batch
        PROVE  image_slot[s] = "Unknown"
    <3>1. Knows(t) /\ s \in InHand(t) \cap MemorySlots
      BY <2>1 DEF Reset, InHand
    <3>2. QED  BY <2>1, <3>1 DEF Knows
  <2>2. QED  BY <2>1 DEF Reset, Pages
<1>2. QED  BY <1>1, ResetInvariant, PTL
=============================================================================
