--------------------------- MODULE PoolingAllocator ---------------------------
(***************************************************************************)
(* The pooling instance allocator shared by the threads of an engine       *)
(* (runtime/vm/instance/allocator/pooling.rs, decommit_queue.rs,           *)
(* memory_pool.rs, table_pool.rs, unix_stack_pool.rs): pools of memories,  *)
(* tables and fiber stacks, and the queue that batches the decommits of    *)
(* what was given back.  A step of a thread is what no other thread can    *)
(* see half done: one critical section, atomic or system call.             *)
(*                                                                         *)
(* The index allocators are abstracted to the set of slots in use: which   *)
(* of the free slots they hand out is the subject of IndexAllocator.  What *)
(* happens to the pages of a memory is the subject of MemorySlot; here a   *)
(* slot is dirty or not.                                                   *)
(***************************************************************************)
EXTENDS Integers, FiniteSets

CONSTANTS
  Threads,
  MemorySlots, TableSlots, StackSlots,
  Modules,       \* compiled modules, each with one memory
  Configs,       \* PoolingAllocationConfig: the slots of the pools, decommit_batch_size and
                 \* async_stack_zeroing
  None           \* Option::None

Slots == MemorySlots \cup TableSlots \cup StackSlots
Kinds == {MemorySlots, TableSlots, StackSlots}

ASSUME PoolingAssumption ==
  /\ Configs \subseteq [slots : SUBSET Slots, batch_size : Nat \ {0}, zeroing : BOOLEAN]
  /\ None \notin Modules /\ None \notin Slots
  /\ IsFiniteSet(Slots) /\ IsFiniteSet(Threads)
  /\ MemorySlots \cap TableSlots = {} /\ (MemorySlots \cup TableSlots) \cap StackSlots = {}

VARIABLES
  config,          \* one of Configs
  linux,           \* decommit_behavior() is RestoreOriginalMapping
  used,            \* slots in use according to the index allocators
  affinity,        \* module of a memory slot's last allocation
  image_slot,      \* ImageSlot of a memory slot
  mapped,          \* module whose image is mapped in a memory slot
  dirty,           \* slots whose pages may hold what a guest left there
  decommit_queue,  \* the entities of the shared queue, one region each
  live,            \* live_memories, live_tables, live_stacks
  held,            \* slots of the objects that the embedding holds
  pc, call,        \* where each thread is, and its locals
  dropped,         \* modules being or having been dropped
  purged           \* modules whose purge_module has returned

slots == <<used, affinity, image_slot, mapped, dirty>>
vars  == <<config, linux, slots, decommit_queue, live, held, pc, call, dropped, purged>>

KindOf(s) == CHOOSE k \in Kinds : s \in k
NoCall == [op |-> None, kind |-> {}, for |-> None, slot |-> None, batch |-> {},
           ok |-> TRUE, retried |-> FALSE, alone |-> FALSE]

Init ==
  /\ config \in Configs /\ linux \in BOOLEAN
  /\ used = {} /\ dirty = {} /\ decommit_queue = {} /\ held = {}
  /\ affinity = [s \in MemorySlots |-> None]
  /\ image_slot = [s \in MemorySlots |-> "Unmapped"]
  /\ mapped = [s \in MemorySlots |-> None]
  /\ live = [k \in Kinds |-> 0]
  /\ pc = [t \in Threads |-> "idle"] /\ call = [t \in Threads |-> NoCall]
  /\ dropped = {} /\ purged = {}

\* A call starts.  `alone` records whether it runs without any other call.
Enter(t, at, c) ==
  LET solo == \A u \in Threads \ {t} : pc[u] = "idle"
  IN /\ pc[t] = "idle"
     /\ pc' = [pc EXCEPT ![t] = at]
     /\ call' = [u \in Threads |->
                   IF u = t THEN [c EXCEPT !.alone = solo]
                   ELSE [call[u] EXCEPT !.alone = FALSE]]

Goto(t, from, to) == pc[t] = from /\ pc' = [pc EXCEPT ![t] = to]
Leave(t, from) == Goto(t, from, "idle") /\ call' = [call EXCEPT ![t] = NoCall]

-----------------------------------------------------------------------------
(* allocate_memory, allocate_table, allocate_fiber_stack *)

Allocate(t, kind, m) ==
  /\ kind \cap config.slots # {}
  /\ m # None => kind = MemorySlots /\ m \notin dropped
  /\ Enter(t, "index", [NoCall EXCEPT !.op = "allocate", !.kind = kind, !.for = m])
  /\ UNCHANGED <<slots, decommit_queue, live, held, dropped, purged>>

\* The free slots among which the index allocator chooses.
Candidates(kind, m) ==
  LET free   == (kind \cap config.slots) \ used
      affine == {s \in free \cap MemorySlots : m # None /\ affinity[s] = m}
  IN IF affine # {} THEN affine ELSE free

PickIndex(t) ==
  LET kind == call[t].kind
      m == call[t].for
  IN \E s \in Candidates(kind, m) :
       /\ Goto(t, "index", IF kind = MemorySlots THEN "take"
                           ELSE IF kind = TableSlots THEN "make" ELSE "count")
       /\ used' = used \cup {s}
       /\ affinity' = IF kind = MemorySlots THEN [affinity EXCEPT ![s] = m] ELSE affinity
       /\ call' = [call EXCEPT ![t].slot = s]
       /\ UNCHANGED <<image_slot, mapped, dirty, decommit_queue, live, held, dropped, purged>>

\* PoolConcurrencyLimitError: flush and retry, once.
NoIndex(t) ==
  /\ call[t].kind \cap config.slots \subseteq used
  /\ Goto(t, "index", IF call[t].retried THEN "limit_error" ELSE "limit")
  /\ UNCHANGED <<slots, decommit_queue, live, held, call, dropped, purged>>

\* Mutant: a slot in unknown state is taken as it is.
TakeImageUnreset(t) ==
  LET s == call[t].slot
  IN /\ pc[t] = "take"
     /\ image_slot' = [image_slot EXCEPT ![s] = "Unknown"]
     /\ Goto(t, "take", IF call[t].op = "purge" THEN "remove" ELSE "make")
     /\ UNCHANGED <<used, affinity, mapped, dirty, decommit_queue, live, held, call, dropped, purged>>

\* take_memory_image_slot: an unknown slot is paved over, which may fail.
TakeImage(t) ==
  LET s == call[t].slot
      taken == IF call[t].op = "purge" THEN "remove" ELSE "make"
  IN /\ pc[t] = "take"
     /\ image_slot' = [image_slot EXCEPT ![s] = "Unknown"]
     /\ \/ /\ image_slot[s] # "Unknown"
           /\ Goto(t, "take", taken)
           /\ UNCHANGED <<mapped, dirty>>
        \/ /\ image_slot[s] = "Unknown"
           /\ mapped' = [mapped EXCEPT ![s] = None]
           /\ dirty' = dirty \ {s}
           /\ Goto(t, "take", taken)
        \/ /\ image_slot[s] = "Unknown"
           /\ Goto(t, "take", IF call[t].op = "purge" THEN "free" ELSE "undo")
           /\ UNCHANGED <<mapped, dirty>>
     /\ UNCHANGED <<used, affinity, decommit_queue, live, held, call, dropped, purged>>

\* instantiate and Memory::new_static, or Table::new_static: system calls may
\* fail, and the resource limiter may refuse after they are done.
Make(t) ==
  LET s == call[t].slot
      touch == IF s \in MemorySlots THEN dirty \cup {s} ELSE dirty
      image == IF s \in MemorySlots THEN [mapped EXCEPT ![s] = call[t].for] ELSE mapped
  IN /\ \/ Goto(t, "make", "count") /\ dirty' = touch /\ mapped' = image
        \/ Goto(t, "make", "undo") /\ dirty' \in {dirty, touch} /\ mapped' \in {mapped, image}
     /\ UNCHANGED <<used, affinity, image_slot, decommit_queue, live, held, call, dropped, purged>>

\* DeallocateIndexGuard::drop; the error is returned.
Undo(t) ==
  /\ Leave(t, "undo")
  /\ used' = used \ {call[t].slot}
  /\ UNCHANGED <<affinity, image_slot, mapped, dirty, decommit_queue, live, held, dropped, purged>>

\* The live counter; from now on the embedding may write to the object.
Count(t) ==
  LET s == call[t].slot
  IN /\ Leave(t, "count")
     /\ live' = [live EXCEPT ![KindOf(s)] = @ + 1]
     /\ held' = held \cup {s}
     /\ dirty' = dirty \cup {s}
     /\ UNCHANGED <<used, affinity, image_slot, mapped, decommit_queue, dropped, purged>>

LimitError(t) ==
  /\ Leave(t, "limit_error")
  /\ UNCHANGED <<slots, decommit_queue, live, held, dropped, purged>>

-----------------------------------------------------------------------------
(* Flushing *)

\* Mutant: only a queue with a full batch is flushed.
TakeQueueFull(t) ==
  /\ IF Cardinality(decommit_queue) < config.batch_size
     THEN Goto(t, "limit", "limit_error") /\ UNCHANGED <<call, decommit_queue>>
     ELSE /\ Goto(t, "limit", "flush")
          /\ call' = [call EXCEPT ![t].batch = decommit_queue, ![t].retried = TRUE]
          /\ decommit_queue' = {}
  /\ UNCHANGED <<slots, live, held, dropped, purged>>

\* flush_decommit_queue on the way to a retry: the queue is taken out of the
\* mutex; an empty one frees nothing and the first error stands.
TakeQueue(t) ==
  /\ IF decommit_queue = {}
     THEN Goto(t, "limit", "limit_error") /\ UNCHANGED <<call, decommit_queue>>
     ELSE /\ Goto(t, "limit", "flush")
          /\ call' = [call EXCEPT ![t].batch = decommit_queue, ![t].retried = TRUE]
          /\ decommit_queue' = {}
  /\ UNCHANGED <<slots, live, held, dropped, purged>>

\* The entities of a batch that have a region in DecommitQueue::raw.
Raw(b) == {s \in b : (s \in MemorySlots => linux) /\ (s \in StackSlots => config.zeroing)}

\* decommit_all_raw: the regions in turn, up to the first failure.
Decommit(t) ==
  LET b == call[t].batch
  IN /\ Goto(t, "flush", "return")
     /\ \/ /\ dirty' = dirty \ Raw(b)
           /\ UNCHANGED call
        \/ \E done \in SUBSET Raw(b) :
             /\ done # Raw(b)
             /\ dirty' = dirty \ done
             /\ call' = [call EXCEPT ![t].ok = FALSE]
     /\ UNCHANGED <<used, affinity, image_slot, mapped, decommit_queue, live, held, dropped, purged>>

\* Memories are returned first, then tables, then stacks.
NextOf(b) ==
  IF b \cap MemorySlots # {} THEN b \cap MemorySlots
  ELSE IF b \cap TableSlots # {} THEN b \cap TableSlots
  ELSE b

\* Mutant: the image of a memory is returned whether or not it was reset.
ReturnUnchecked(t) ==
  \E s \in NextOf(call[t].batch) :
    /\ Goto(t, "return", "free")
    /\ call' = [call EXCEPT ![t].slot = s]
    /\ image_slot' = IF s \in MemorySlots
                     THEN [image_slot EXCEPT ![s] = "PreviouslyUsed"] ELSE image_slot
    /\ dirty' = IF s \in TableSlots /\ ~call[t].ok THEN dirty \ {s} ELSE dirty
    /\ UNCHANGED <<used, affinity, mapped, decommit_queue, live, held, dropped, purged>>

\* The next entity of the batch: a memory's image goes back to its ImageSlot
\* if every decommit succeeded, a table is zeroed by hand if one failed.
Return(t) ==
  \E s \in NextOf(call[t].batch) :
    /\ Goto(t, "return", "free")
    /\ call' = [call EXCEPT ![t].slot = s]
    /\ image_slot' = IF s \in MemorySlots
                     THEN [image_slot EXCEPT ![s] = IF call[t].ok THEN "PreviouslyUsed"
                                                    ELSE "Unknown"]
                     ELSE image_slot
    /\ dirty' = IF s \in TableSlots /\ ~call[t].ok THEN dirty \ {s} ELSE dirty
    /\ UNCHANGED <<used, affinity, mapped, decommit_queue, live, held, dropped, purged>>

\* Mutant: the last entity of a batch keeps its index.
FreeIndexButLast(t) ==
  LET s == call[t].slot
      rest == call[t].batch \ {s}
      op == call[t].op
  IN /\ used' = IF rest = {} /\ op = "allocate" THEN used ELSE used \ {s}
     /\ IF rest = {} /\ op = "deallocate"
        THEN Leave(t, "free")
        ELSE /\ Goto(t, "free", IF rest # {} THEN "return"
                                ELSE IF op = "purge" THEN "purge" ELSE "index")
             /\ call' = [call EXCEPT ![t].slot = None, ![t].batch = rest]
     /\ UNCHANGED <<affinity, image_slot, mapped, dirty, decommit_queue, live, held, dropped, purged>>

\* The index goes back to its allocator; then the next entity of the batch,
\* the retry of the allocation, or the next turn of purge_module's loop.
FreeIndex(t) ==
  LET s == call[t].slot
      rest == call[t].batch \ {s}
      op == call[t].op
  IN /\ used' = used \ {s}
     /\ IF rest = {} /\ op = "deallocate"
        THEN Leave(t, "free")
        ELSE /\ Goto(t, "free", IF rest # {} THEN "return"
                                ELSE IF op = "purge" THEN "purge" ELSE "index")
             /\ call' = [call EXCEPT ![t].slot = None, ![t].batch = rest]
     /\ UNCHANGED <<affinity, image_slot, mapped, dirty, decommit_queue, live, held, dropped, purged>>

-----------------------------------------------------------------------------
(* deallocate_memory, deallocate_table, deallocate_fiber_stack *)

Deallocate(t, s) ==
  /\ s \in held
  /\ Enter(t, "clear", [NoCall EXCEPT !.op = "deallocate", !.slot = s,
                          !.for = IF s \in MemorySlots THEN affinity[s] ELSE None])
  /\ live' = [live EXCEPT ![KindOf(s)] = @ - 1]
  /\ held' = held \ {s}
  /\ UNCHANGED <<slots, decommit_queue, dropped, purged>>

\* clear_and_remain_ready where a memory is reset at once, by new anonymous
\* memory; when that fails the index is freed without an image.
ClearAnon(t) ==
  LET s == call[t].slot
  IN /\ s \in MemorySlots /\ ~linux
     /\ \/ /\ dirty' = dirty \ {s}
           /\ mapped' = [mapped EXCEPT ![s] = None]
           /\ call' = [call EXCEPT ![t].batch = {s}]
        \/ /\ call' = [call EXCEPT ![t].batch = {s}, ![t].ok = FALSE]
           /\ UNCHANGED <<dirty, mapped>>
     /\ Goto(t, "clear", "return")
     /\ UNCHANGED <<used, affinity, image_slot, decommit_queue, live, held, dropped, purged>>

\* merge_or_flush of the queue with this one entity: at once when it has no
\* region or a full batch, else through the shared queue, under its mutex.
MergeOrFlush(t) ==
  LET s == call[t].slot
      queue == decommit_queue \cup {s}
  IN /\ pc[t] = "clear" /\ (s \in MemorySlots => linux)
     /\ IF Raw({s}) = {} \/ config.batch_size = 1
        THEN /\ Goto(t, "clear", "flush")
             /\ call' = [call EXCEPT ![t].batch = {s}]
             /\ UNCHANGED decommit_queue
        ELSE IF Cardinality(queue) >= config.batch_size
        THEN /\ Goto(t, "clear", "flush")
             /\ call' = [call EXCEPT ![t].batch = queue]
             /\ decommit_queue' = {}
        ELSE Leave(t, "clear") /\ decommit_queue' = queue
     /\ UNCHANGED <<slots, live, held, dropped, purged>>

-----------------------------------------------------------------------------
(* purge_module *)

\* The last reference to a module goes away: no instance uses it, and none of
\* the calls that create or destroy its memories is still running.
PurgeModule(t, m) ==
  /\ m \notin dropped
  /\ \A s \in held \cap MemorySlots : affinity[s] # m
  /\ \A u \in Threads : call[u].for # m
  /\ Enter(t, "purge", [NoCall EXCEPT !.op = "purge", !.for = m])
  /\ dropped' = dropped \cup {m}
  /\ UNCHANGED <<slots, decommit_queue, live, held, purged>>

\* Mutant: the slot keeps its affinity while it is purged.
PurgeNextAffine(t) ==
  LET affine == {s \in MemorySlots \ used : affinity[s] = call[t].for}
  IN /\ \/ \E s \in affine :
             /\ Goto(t, "purge", "take")
             /\ used' = used \cup {s}
             /\ call' = [call EXCEPT ![t].slot = s]
             /\ UNCHANGED <<affinity, purged>>
        \/ /\ affine = {}
           /\ Leave(t, "purge")
           /\ purged' = purged \cup {call[t].for}
           /\ UNCHANGED <<used, affinity>>
     /\ UNCHANGED <<image_slot, mapped, dirty, decommit_queue, live, held, dropped>>

\* alloc_affine_and_clear_affinity, or the end of the loop.
PurgeNext(t) ==
  LET affine == {s \in MemorySlots \ used : affinity[s] = call[t].for}
  IN /\ \/ \E s \in affine :
             /\ Goto(t, "purge", "take")
             /\ used' = used \cup {s}
             /\ affinity' = [affinity EXCEPT ![s] = None]
             /\ call' = [call EXCEPT ![t].slot = s]
             /\ UNCHANGED purged
        \/ /\ affine = {}
           /\ Leave(t, "purge")
           /\ purged' = purged \cup {call[t].for}
           /\ UNCHANGED <<used, affinity>>
     /\ UNCHANGED <<image_slot, mapped, dirty, decommit_queue, live, held, dropped>>

\* Mutant: the slot goes back with its image.
RemoveImageKeeps(t) ==
  LET s == call[t].slot
  IN /\ Goto(t, "remove", "free")
     /\ image_slot' = [image_slot EXCEPT ![s] = "PreviouslyUsed"]
     /\ UNCHANGED <<used, affinity, mapped, dirty, decommit_queue, live, held, call, dropped, purged>>

\* remove_image, and the ImageSlot gets the slot back unless that failed.
RemoveImage(t) ==
  LET s == call[t].slot
  IN /\ Goto(t, "remove", "free")
     /\ \/ /\ mapped' = [mapped EXCEPT ![s] = None]
           /\ image_slot' = [image_slot EXCEPT ![s] = "PreviouslyUsed"]
        \/ UNCHANGED <<mapped, image_slot>>
     /\ UNCHANGED <<used, affinity, dirty, decommit_queue, live, held, call, dropped, purged>>

-----------------------------------------------------------------------------

Step(t) ==
  /\ \/ PickIndex(t) \/ NoIndex(t) \/ TakeImage(t) \/ Make(t) \/ Undo(t)
     \/ Count(t) \/ LimitError(t)
     \/ TakeQueue(t) \/ Decommit(t) \/ Return(t) \/ FreeIndex(t)
     \/ ClearAnon(t) \/ MergeOrFlush(t)
     \/ PurgeNext(t) \/ RemoveImage(t)
  /\ UNCHANGED <<config, linux>>

Call(t) ==
  /\ \/ \E kind \in Kinds, m \in Modules \cup {None} : Allocate(t, kind, m)
     \/ \E s \in Slots : Deallocate(t, s)
     \/ \E m \in Modules : PurgeModule(t, m)
  /\ UNCHANGED <<config, linux>>

Next == \E t \in Threads : Call(t) \/ Step(t)

Spec == Init /\ [][Next]_vars

\* A thread that is inside a call of the allocator is eventually scheduled.
FairSpec == Spec /\ \A t \in Threads : WF_vars(Step(t))

-----------------------------------------------------------------------------
(* Properties *)

TypeOK ==
  /\ config \in Configs /\ linux \in BOOLEAN
  /\ used \subseteq Slots /\ dirty \subseteq Slots
  /\ decommit_queue \subseteq Slots /\ held \subseteq Slots
  /\ affinity \in [MemorySlots -> Modules \cup {None}]
  /\ image_slot \in [MemorySlots -> {"Unmapped", "Unknown", "PreviouslyUsed"}]
  /\ mapped \in [MemorySlots -> Modules \cup {None}]
  /\ \A k \in Kinds : live[k] \in 0 .. Cardinality(k)
  /\ \A t \in Threads :
       /\ pc[t] \in {"idle", "index", "take", "make", "undo", "count", "limit", "limit_error",
                     "flush", "return", "free", "clear", "purge", "remove"}
       /\ call[t].batch \subseteq Slots /\ call[t].slot \in Slots \cup {None}
  /\ dropped \subseteq Modules /\ purged \subseteq dropped

\* The slots that thread t has in its hands.
InHand(t) == call[t].batch \cup ({call[t].slot} \ {None})

\* What Drop for PoolingInstanceAllocator asserts after it has flushed the queue: no
\* live objects and no slot in use.
EmptyAtDrop ==
  (\A t \in Threads : pc[t] = "idle") /\ held = {} =>
    /\ \A k \in Kinds : live[k] = 0
    /\ used = decommit_queue

\* A slot in use has exactly one owner: the embedding, the shared queue, or one
\* thread that is creating, flushing or purging it.  None is lost and none is
\* freed twice, whatever fails in between, so all of them are back at the end.
OneOwner ==
  /\ TypeOK
  /\ used = held \cup decommit_queue \cup UNION {InHand(t) : t \in Threads}
  /\ held \cap decommit_queue = {}
  /\ \A t \in Threads :
       /\ InHand(t) \cap (held \cup decommit_queue) = {}
       /\ \A u \in Threads \ {t} : InHand(t) \cap InHand(u) = {}
  /\ EmptyAtDrop

\* A memory or a table is built on a slot that was reset since its last use,
\* although the reset may be postponed, batched with others and may fail.
BuiltOnClean == \A t \in Threads : pc[t] = "make" => call[t].slot \notin dirty

\* The assertions of return_memory_image_slot: an ImageSlot is Unknown as long
\* as its slot is in use, so nobody else has returned it; and the ImageSlot of
\* a free slot describes clean pages.
ImageSlots ==
  \A s \in MemorySlots :
    /\ s \in held \cup decommit_queue => image_slot[s] = "Unknown"
    /\ \A t \in Threads : pc[t] = "return" /\ s \in call[t].batch => image_slot[s] = "Unknown"
    /\ image_slot[s] = "PreviouslyUsed" => s \notin dirty

\* A limit error is not premature: a call that had the pool to itself reports
\* that all slots are taken only when the embedding holds every one of them,
\* so nothing was left in the decommit queue.
LimitMeansFull ==
  \A t \in Threads :
    pc[t] = "limit_error" /\ call[t].alone => call[t].kind \cap config.slots \subseteq held

\* What the documentation of purge_module promises: once it has returned, no free slot
\* is affine to the module and none has its image mapped.  This needs a batch size of
\* one: purge_module does not see the slots that wait in the decommit queue, and they
\* come back with the affinity and the image of the purged module.
PurgeComplete ==
  config.batch_size = 1 =>
    \A m \in purged, s \in MemorySlots \ used :
      affinity[s] # m /\ (image_slot[s] = "PreviouslyUsed" => mapped[s] # m)

\* Every call of the allocator returns; purge_module's loop in particular ends
\* although it frees the slots that it looks for.
CallsReturn == \A t \in Threads : pc[t] # "idle" ~> pc[t] = "idle"
=============================================================================
