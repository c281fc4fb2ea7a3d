------------------------------ MODULE MemorySlot ------------------------------
(***************************************************************************)
(* One slot of the memory pool through its lives: MemoryImageSlot          *)
(* (runtime/vm/cow.rs) on top of the mappings of the slot's address range, *)
(* and the ImageSlot that pooling/memory_pool.rs keeps for it while it is  *)
(* free.  The index allocator gives a slot to one owner at a time, so the  *)
(* owner's steps are not interleaved with anything: each operation is one  *)
(* action, and every system call in it may fail.                           *)
(*                                                                         *)
(* Pages are host pages.  The contents of a page are zero, the page of an  *)
(* image at that place, or "wasm": whatever the guest wrote.               *)
(***************************************************************************)
EXTENDS Integers, FiniteSets

CONSTANTS
  NumPages,      \* static_size
  Images,        \* memory images of the modules
  Extent,        \* pages an image covers: linear_memory_offset, len
  MinSize,       \* minimum size of the memory an image belongs to
  KeepResident,  \* linear_memory_keep_resident
  None           \* Option::None

Pages == 0 .. NumPages - 1
Upto(n) == 0 .. n - 1

ASSUME MemorySlotAssumption ==
  /\ NumPages \in Nat /\ KeepResident \in Nat
  /\ None \notin Images
  \* ModuleMemoryImages::new makes no image beyond the initial memory.
  /\ \A i \in Images : MinSize[i] \in 0 .. NumPages /\ Extent[i] \subseteq Upto(MinSize[i])

VARIABLES
  os,          \* the slot's mappings: backing, contents, rw pages, private pages
  linux,       \* decommit_behavior() is RestoreOriginalMapping
  image_slot,  \* ImageSlot: Unmapped, Unknown or PreviouslyUsed
  slot,        \* the MemoryImageSlot, None when there is none
  pc,          \* free, instance, or queued for decommit
  memory,      \* the memory in use: image, size, and reliance on guard pages
  raw,         \* pages given to DecommitQueue::push_raw
  written      \* history: pages the instance has written

vars == <<os, linux, image_slot, slot, pc, memory, raw, written>>

Options  == Images \cup {None}
Contents == Options \cup {"wasm"}     \* None stands for zero
NewSlot  == [image |-> None, accessible |-> 0, dirty |-> FALSE]
NoMemory == [image |-> None, size |-> 0, virtual |-> TRUE]

\* The page p of a fresh memory with this image.
Initial(image, p) ==
  IF image # None /\ p \in Extent[image] THEN image ELSE None

Init ==
  /\ os = [backing |-> [p \in Pages |-> None], contents |-> [p \in Pages |-> None],
           rw |-> {}, private |-> {}]
  /\ linux \in BOOLEAN
  /\ image_slot = "Unmapped" /\ slot = None /\ pc = "free"
  /\ memory = NoMemory /\ raw = {} /\ written = {}

-----------------------------------------------------------------------------
(* What the system calls do to the mappings k. *)

\* mmap of anonymous memory over P: erase_existing_mapping, remap_as_zeros_at.
MapAnon(k, P, access) ==
  [backing  |-> [p \in Pages |-> IF p \in P THEN None ELSE k.backing[p]],
   contents |-> [p \in Pages |-> IF p \in P THEN None ELSE k.contents[p]],
   rw       |-> IF access THEN k.rw \cup P ELSE k.rw \ P,
   private  |-> k.private \ P]

\* map_image_at: a private mapping of the image.
MapImage(k, i) ==
  [backing  |-> [p \in Pages |-> IF p \in Extent[i] THEN i ELSE k.backing[p]],
   contents |-> [p \in Pages |-> IF p \in Extent[i] THEN i ELSE k.contents[p]],
   rw       |-> k.rw \cup Extent[i],
   private  |-> k.private \ Extent[i]]

\* set_protection
Expose(k, P) == [k EXCEPT !.rw = @ \cup P]
Hide(k, P)   == [k EXCEPT !.rw = @ \ P]

\* decommit_pages: the mapping shows its backing again.
Decommit(k, P) ==
  [k EXCEPT !.contents = [p \in Pages |-> IF p \in P THEN k.backing[p] ELSE @[p]],
            !.private = @ \ P]

\* manually_reset_region, or fill(0) when there is no image.
ManualReset(k, image, P) ==
  [k EXCEPT !.contents = [p \in Pages |-> IF p \in P THEN Initial(image, p) ELSE @[p]],
            !.private = @ \cup P]

-----------------------------------------------------------------------------
(* MemoryPool::allocate for a memory m: each stage maps what there is, o    *)
(* (the mappings) and s (the MemoryImageSlot), to what it leaves.           *)

\* Mutant: a slot in unknown state is used as it is.
TakeUnreset ==
  [o |-> os,
   s |-> IF image_slot = "PreviouslyUsed" THEN slot ELSE NewSlot]

\* take_memory_image_slot
Take ==
  [o |-> IF image_slot = "Unknown" THEN MapAnon(os, Pages, FALSE) ELSE os,
   s |-> IF image_slot = "PreviouslyUsed" THEN slot ELSE NewSlot]

RemoveImage(x) ==
  IF x.s.image = None THEN x
  ELSE [o |-> MapAnon(x.o, Extent[x.s.image], TRUE), s |-> [x.s EXCEPT !.image = None]]

Unimage(x, m) == IF x.s.image = m.image THEN x ELSE RemoveImage(x)

Enlarge(x, m) ==
  IF x.s.accessible >= m.size THEN x
  ELSE [o |-> Expose(x.o, x.s.accessible .. m.size - 1),
        s |-> [x.s EXCEPT !.accessible = m.size]]

\* Mutant: the pages above the initial size stay accessible.
ShrinkNot(x, m) == x

Shrink(x, m) ==
  IF m.virtual /\ m.size < x.s.accessible
  THEN [o |-> Hide(x.o, m.size .. x.s.accessible - 1),
        s |-> [x.s EXCEPT !.accessible = m.size]]
  ELSE x

PlaceImage(x, m) ==
  [o |-> IF x.s.image # m.image /\ m.image # None THEN MapImage(x.o, m.image) ELSE x.o,
   s |-> [x.s EXCEPT !.image = m.image, !.dirty = TRUE]]

\* MemoryImageSlot::instantiate up to and including each of its system calls;
\* the last element is its success.
Stages(m) ==
  LET t == Take
      u == Unimage(t, m)
      e == Enlarge(u, m)
      h == Shrink(e, m)
  IN <<[o |-> os, s |-> NewSlot], t, u, e, h, PlaceImage(h, m)>>

Requests ==
  [image : Images, size : 0 .. NumPages, virtual : BOOLEAN] \cup
  [image : {None}, size : 0 .. NumPages, virtual : BOOLEAN]

Allocate(m) ==
  /\ pc = "free"
  /\ m.image # None => m.size = MinSize[m.image]
  /\ os' = Stages(m)[6].o /\ slot' = Stages(m)[6].s
  /\ image_slot' = "Unknown" /\ pc' = "instance"
  /\ memory' = m /\ written' = {}
  /\ UNCHANGED <<linux, raw>>

\* One of the system calls fails, or the resource limiter refuses the memory
\* after all of them: the MemoryImageSlot is dropped and the index is freed.
AllocateFails(m) ==
  /\ pc = "free"
  /\ m.image # None => m.size = MinSize[m.image]
  /\ \E stage \in 1 .. 6 : os' = Stages(m)[stage].o
  /\ slot' = None /\ image_slot' = "Unknown"
  /\ UNCHANGED <<linux, pc, memory, raw, written>>

-----------------------------------------------------------------------------
(* The instance *)

\* Guest code stores to a page of its memory.
Write(p) ==
  /\ pc = "instance" /\ p < memory.size
  /\ os' = [os EXCEPT !.contents[p] = "wasm", !.private = @ \cup {p}]
  /\ written' = written \cup {p}
  /\ UNCHANGED <<linux, image_slot, slot, pc, memory, raw>>

\* LocalMemory::grow with MemoryImageSlot::set_heap_limit; a growth that
\* fails changes nothing.
Grow(size) ==
  /\ pc = "instance" /\ memory.size < size
  /\ IF size <= slot.accessible
     THEN UNCHANGED <<os, slot>>
     ELSE /\ os' = Expose(os, slot.accessible .. size - 1)
          /\ slot' = [slot EXCEPT !.accessible = size]
  /\ memory' = [memory EXCEPT !.size = size]
  /\ UNCHANGED <<linux, image_slot, pc, raw, written>>

-----------------------------------------------------------------------------
(* deallocate_memory, flush and purge_module *)

\* deallocate_memory on Linux: reset_with_pagemap resets the pages of keep by
\* hand and hands the pages of rest to the decommit queue.
Clear(keep, rest) ==
  /\ pc = "instance" /\ linux
  /\ os' = ManualReset(os, slot.image, keep)
  /\ raw' = rest
  /\ slot' = [slot EXCEPT !.dirty = FALSE]
  /\ pc' = "queued" /\ memory' = NoMemory /\ written' = {}
  /\ UNCHANGED <<linux, image_slot>>

\* pagemap_disabled: the first pages are kept, the others are decommitted.
ClearPrefix ==
  LET n == IF KeepResident < slot.accessible THEN KeepResident ELSE slot.accessible
  IN pc = "instance" /\ Clear(Upto(n), n .. slot.accessible - 1)

\* PAGEMAP_SCAN: the private pages up to where the scan stopped, which may be
\* anywhere (page limit, region limit), are reset, the pages after it not.
ClearScanned ==
  /\ pc = "instance"
  /\ KeepResident > 0 /\ ~(KeepResident <= 1 /\ slot.accessible <= 1)
  /\ \E walk_end \in 0 .. slot.accessible :
       LET dirty == os.private \cap Upto(walk_end)
       IN /\ Cardinality(dirty) <= KeepResident
          /\ Clear(dirty, walk_end .. slot.accessible - 1)

\* deallocate_memory elsewhere: reset_with_anon_memory, which may fail.
ClearAnon ==
  /\ pc = "instance" /\ ~linux
  /\ \/ /\ os' = MapAnon(os, Pages, FALSE)
        /\ slot' = NewSlot
        /\ pc' = "queued"
     \/ /\ slot' = None
        /\ pc' = "free"
        /\ UNCHANGED os
  /\ memory' = NoMemory /\ written' = {}
  /\ UNCHANGED <<linux, image_slot, raw>>

\* Mutant: the image is kept although the decommit failed.
FlushKeepsImage ==
  /\ pc = "queued" /\ pc' = "free" /\ raw' = {}
  /\ image_slot' = "PreviouslyUsed"
  /\ os' = Decommit(os, raw) \/ os' = os
  /\ UNCHANGED <<linux, slot, memory, written>>

\* DecommitQueue::flush and MemoryPool::deallocate.  When some decommit of the
\* batch fails, the pages of this slot may or may not have been decommitted;
\* elsewhere than on Linux nothing is queued and nothing can fail.
Flush ==
  /\ pc = "queued" /\ pc' = "free" /\ raw' = {}
  /\ \/ /\ os' = Decommit(os, raw)
        /\ image_slot' = "PreviouslyUsed"
        /\ UNCHANGED slot
     \/ /\ linux
        /\ os' = Decommit(os, raw) \/ os' = os
        /\ image_slot' = "Unknown"
        /\ slot' = None
  /\ UNCHANGED <<linux, memory, written>>

\* One turn of purge_module's loop on this slot, which has been used before.
Purge ==
  LET x == RemoveImage(Take)
  IN /\ pc = "free" /\ image_slot # "Unmapped"
     /\ \/ /\ os' = x.o /\ slot' = x.s
           /\ image_slot' = "PreviouslyUsed"
        \/ /\ os' \in {os, Take.o} /\ slot' = None
           /\ image_slot' = "Unknown"
     /\ UNCHANGED <<linux, pc, memory, raw, written>>

Next ==
  \/ \E m \in Requests : Allocate(m) \/ AllocateFails(m)
  \/ \E p \in Pages : Write(p)
  \/ \E size \in 0 .. NumPages : Grow(size)
  \/ ClearPrefix \/ ClearScanned \/ ClearAnon
  \/ Flush
  \/ Purge

Spec == Init /\ [][Next]_vars

-----------------------------------------------------------------------------
(* Properties *)

TypeOK ==
  /\ os \in [backing : [Pages -> Options], contents : [Pages -> Contents],
             rw : SUBSET Pages, private : SUBSET Pages]
  /\ linux \in BOOLEAN
  /\ image_slot \in {"Unmapped", "Unknown", "PreviouslyUsed"}
  /\ slot \in [image : Options, accessible : 0 .. NumPages, dirty : BOOLEAN] \cup {None}
  /\ pc \in {"free", "instance", "queued"}
  /\ memory \in [image : Options, size : 0 .. NumPages, virtual : BOOLEAN]
  /\ raw \subseteq Pages /\ written \subseteq Pages

\* An instance sees its own initial memory and its own writes and nothing else:
\* every page that it has not written, the ones it may still grow into
\* included, holds its image or zero, whatever the earlier owners of the slot
\* wrote, whichever pages were kept resident and whichever system call failed.
FreshMemory ==
  pc = "instance" =>
    \A p \in Pages \ written : os.contents[p] = Initial(memory.image, p)

\* Guest accesses trap where they must: the readable and writable pages are
\* those below `accessible`, they include the memory, and for a memory whose
\* bounds are checked by guard pages they are no more than it.
GuardPages ==
  pc = "instance" =>
    /\ os.rw = Upto(slot.accessible)
    /\ memory.size <= slot.accessible
    /\ memory.virtual => memory.size = slot.accessible

\* What the field `dirty` documents as its invariant, for a slot that is back
\* in the pool: a clean mapping of the image, zero beyond it, readable and
\* writable below `accessible` and inaccessible above.
CleanInPool ==
  /\ TypeOK
  /\ image_slot = "PreviouslyUsed" =>
       /\ ~slot.dirty
       /\ os.rw = Upto(slot.accessible)
       /\ \A p \in Pages : /\ os.contents[p] = Initial(slot.image, p)
                           /\ os.backing[p] = Initial(slot.image, p)
=============================================================================
