# Verification of the wasmtime runtime in wasm-deps

`wasm-deps` bundles three forks: `wasmtime/` (a WebAssembly runtime in Rust),
`wasmtime-py/` (its Python bindings) and `aws-bedrock-token-generator-js/` (a
small token signer). This directory holds TLA+ models of those parts of the
wasmtime runtime where the order of events is what makes the code hard: state
that threads share, and the component model's async calls. TLC configurations
check them on small instances, and TLAPS proofs settle some of their properties
for all instances. All paths below are relative to
`src/wasmtime/crates/wasmtime/src/runtime` unless they say otherwise.

Contents:

1. [Inventory](#1-inventory)
2. [Modules and how they correspond to the code](#2-modules-and-how-they-correspond-to-the-code)
3. [Runs](#3-runs)
4. [Disagreements between code and documentation](#4-disagreements-between-code-and-documentation)
5. [Proofs](#5-proofs)
6. [What is not modelled](#6-what-is-not-modelled)
7. [Plan](#7-plan)

## 1. Inventory

The runtime has one `Engine` per configuration, shared by all threads. Each
thread works on its own `Store`. A store runs one thing at a time, so there are
two places where interleavings matter. The first is what the stores of an engine
share:

| part | shared state | operations | what is hard about it |
|---|---|---|---|
| parking spot, `vm/parking_spot.rs` | mutex, map from addresses to intrusive lists of waiters, park tokens | `wait32`, `wait64`, `notify` | notify against the value check, timeout against notify, spurious wakeups, nodes that are reused |
| type registry, `type_registry.rs` | hash consing map, slab of types, side tables, atomic counts | register, look up, clone, root, drop | counts change without the lock; a type whose count is zero can be brought back; out of memory at any point; nested removal |
| index allocators, `vm/instance/allocator/pooling/index_allocator.rs` | two intrusive lists per slot, cached counters | `alloc`, `alloc_affine_and_clear_affinity`, `free` | a slot is on two lists and leaves both; the limit on warm slots |
| memory slots, `vm/cow.rs`, `pooling/memory_pool.rs` | mappings of a slot, `MemoryImageSlot`, `ImageSlot` | `instantiate`, `set_heap_limit`, `clear_and_remain_ready`, `remove_image` | one slot serves modules with different images and sizes; every system call may fail; pages are kept resident |
| pooling allocator, `pooling.rs`, `decommit_queue.rs`, `table_pool.rs`, `unix_stack_pool.rs` | pools, shared decommit queue, live counters | allocate and deallocate memories, tables, stacks; `purge_module` | resets are postponed and batched; flush and retry; failing decommits |
| instances and GC heaps, `vm/instance/allocator.rs`, `store.rs`, `gc_heap_pool.rs` | instance counter, heap slots | `allocate_module`, `deallocate_module`, `allocate_gc_store`, drop of a store | count first and compare later; several resources are taken one after the other and each may fail |

The second is the component model's async ABI, where guests and the host take
turns on one store in an order that nobody controls:

| part | state | operations | what is hard about it |
|---|---|---|---|
| streams and futures, `component/concurrent/futures_and_streams.rs` | `TransmitState`, the handle states of the two ends, pending events, host futures | read, write, cancel, drop, lift, lower, pipe, polls of producers and consumers, delivery of events | a result waits while the next call is made; cancellation and drop meet a call that is half served |
| tasks and event loop, `component/concurrent.rs` | `ConcurrentState` (tasks, waitables, sets, two queues), `ConcurrentInstanceState` | calls, waits, yields, `task.return`, `task.cancel`, `subtask.cancel`, `subtask.drop`, backpressure | one event slot for three statuses; a thread must be woken exactly once; whoever leaves an instance lets others in; who deletes a task |

How they interact: a store that instantiates a module counts the instance
(`StoreResources`), takes memories and tables from the pools
(`PoolingAllocator`), each pool asks an index allocator for a slot
(`IndexAllocator`), and the slot of a memory is brought into the right state
(`MemorySlot`). Compiled modules hold their types through the registry
(`TypeRegistry`). Guests that share a memory block and wake each other through
the parking spot (`ParkingSpot`). Components on one store call each other
through tasks (`GuestTasks`) and pass data through streams (`Transmit`); the
events of both are delivered through the same waitables.

The other parts of the repository, and why they are left out or come later, are
in [section 6](#6-what-is-not-modelled). `PROJECT.json` lists every part, the
source lines behind every definition, and the hazards with the properties that
cover them.

## 2. Modules and how they correspond to the code

A definition that is preceded by a comment starting with "Mutant:" is a
deliberately wrong variant of the definition after it. It is no part of the
model: it shows that a property notices such a mistake.

### ParkingSpot, WaitQueues

`ParkingSpot` models `wait` and `notify` line by line where another thread can
observe a difference. The mutex `lock` has an owner. A wait goes through the
places `wait_lock`, `validate` (the atomic load), `enqueue`, `deadline` (the
test at the head of the loop), `park` and `relock`. `std::thread::park_timeout`
is the boolean `token`, set by `unpark`, plus a return on timeout and a bounded
number of spurious returns. Time is three values of a deadline: none, ahead,
reached. `next`, `prev` and `spot` are the links of the waiter nodes. A node is
indexed by its thread because it is a thread-local (`vm/memory/shared_memory.rs`).
`owed` is a history variable: what notifies have reported minus the waits that
returned `Ok`. Rust assertions are not guards, they are the invariant
`AssertsHold`.

`WaitQueues` is the contract: a first-in first-out queue per address.

### TypeRegistry

A rec group is abstracted to a shape with the shapes that it refers to, its
supertype and its trampoline type. An entry (`RecGroupEntry`) has its atomic
count `registrations` and its flag `unregistered`; the variables of
`TypeRegistryInner` keep their names. One entry stands for one rec group with one
type, hence one index. Counts are changed by clone and drop
without the lock, so each critical section is split into the steps between
which such a change can fall. `work` is the call stack of the lock holder:
removing an entry can drain the drop stack, which removes further entries. Each
allocation for which the code propagates `OutOfMemory` may fail. `program`,
chosen by `Init` from `Programs`, is what the threads register: shapes one by one,
modules (sequences of shapes), and how many handles of an entry they hold.

### IndexAllocator, SlotQueue

Every operation of the allocator holds its mutex throughout and is one action:
`AllocAffine`, `AllocWarm`, `AllocCold` are the outcomes of `_alloc`, `Free` is
`free`. The lists are modelled as they are stored, with links in the slots.
`peak` is a history variable, the largest number of slots in use at once.
The limit `max_unused_warm_slots` is a field that `Init` chooses and no step
changes. `SimpleIndexAllocator`, which tables, stacks and GC heaps use, is the
case of the limit 0 in which no request names a memory. That a list visits
exactly a given set of slots (`Visits`) is stated by an order of that set that the
links follow in both directions.

`SlotQueue` is the policy that `PoolingAllocationConfig::max_unused_warm_slots`
documents, stated on a queue of slots in the order in which they were freed. It
also says what `unused_bytes_resident` reports: the sum over the queue.

### MemorySlot

One slot of the memory pool through any number of owners. `os` is what the
operating system knows: for each page what backs it, what it contains, whether
it is accessible, and whether it is a private copy. The system calls are
operators on that record (`MapAnon`, `MapImage`, `Expose`, `Decommit`).
`Stages` lists what `instantiate` leaves behind after each of its system calls,
and `AllocateFails` stops after any of them. Page contents are zero, a page of
an image, or `"wasm"`. `linux`, chosen by `Init`, tells whether decommit
restores the original mapping. `ClearPrefix` is the reset without, and `ClearScanned` with, the
`PAGEMAP_SCAN` ioctl, which may stop anywhere. The scan is taken to report every
private page that it passes: what the kernel says about pages that are swapped
out is outside the model.

The owner of a slot is alone with it, which is what `OneOwner` of
`PoolingAllocator` shows, so nothing is interleaved here.

### PoolingAllocator

Threads that call the allocator. A step is one critical section, one atomic
operation or one system call, so a flush is `TakeQueue` (under the mutex),
`Decommit` (no lock), and then, per entity, `Return` (the image) and `FreeIndex`
(the index). Slots of all three kinds are in `used`, `dirty` and so on; the
index allocator is abstracted to "some free slot, an affine one if there is
one", and pages are abstracted to a bit. `linux` is as in `MemorySlot`; `config`,
chosen by `Init` from `Configs`, is which slots the pools have, the batch size and
`async_stack_zeroing`. `held` are the objects that the embedding has, `call` the
locals of a call, `purged` the modules for which `purge_module` has returned.
`PurgeModule` is enabled when no instance of the module exists and no call for it
is running: it runs when the last reference to the module goes away, and stores
keep their modules until their instances are deallocated.

### StoreResources

Stores that instantiate a module and allocate their GC heap, concurrently. An
action is one step of `allocate_module`, `deallocate_module`,
`allocate_gc_store`, `GcHeapPool` or `Drop for StoreOpaque`. `status` follows an
instance from `Increment` to `Decrement`. What the guard `DeallocateOnDrop`
does on an early return, and what `deallocate_module` does, is the same
sequence of steps, at the place `unwind`. `Faults` says where the host can be
out of memory: reserving the maps of the guard, `Instance::new`, `new_gc_heap`.
A single memory or table is obtained in one step. `lost` is a history variable:
what the four early returns of `Leak` take and nobody holds any more (section 4).

### Transmit, Channel

One stream or future. `kind` and `realloc` (whether lowering an item may call
`realloc`, and so needs a work item of its own) are chosen by `Init`, as is whether
the write end belongs to a guest (`guest_new`) or to the host (`new_transmit`).
`write` and `read` are `WriteState` and `ReadState`, `local` is
`TransmitLocalState` of the handles or says who else has the end, `event` holds
the event pending for each end. `host` is the host future in flight: the
consumer that serves a write, the producer that serves a read, the work item that
lowers, or the loop that connects two host ends. `saved` is what the function
`write` holds in its locals while that work item has not run.

An action is one call of an intrinsic, one delivery of an event, one poll of a
host future, or one hand-over of an end. A synchronous call that has to wait
leaves the guest in `waiting`, and `Resume` is the rest of it. `ConsumePolls` and
`ProducePolls` are what a producer or consumer of the embedding may answer
(external code, constrained by what the callers of the traits check).

Items are numbered in the order in which the writer offers them, and an address is
the number of items before it: `memory` is the buffer of the read in progress,
`got` what the reader was told of, `next` how many items the writer was told were
taken. `bug` is set where the code has a `bail_bug!`.

Two constants restrict what the guests do. `CancelOnce`: a guest does not cancel a
call again while the first cancellation waits for the host. `LiftWhole`: the read
end is not handed to the host while a write is half done and unreported. Without
them the code reaches `bail_bug!` (section 4).

`Channel` is the contract: items move, each end is told complete counts, and once
an end is closed nothing moves.

### GuestTasks

One thread of a caller instance calls exports of one callee instance, each lifted
with a callback, stackful or synchronously, and each call synchronous or not.
`c` is the `ConcurrentState`: the tasks with their fields (`NewTask`), the event of
every waitable, set membership, `ready` and `waiting` of the sets, and the high and
low priority queues. The helpers of the code that take `&mut ConcurrentState` are
functions from one such record to the next (`SetEvent`, `TakeEvent`, `Join`,
`MarkReady`, `CleanupThread`), so that an action composes the calls in the order in
which the handler makes them. `inst` is `ConcurrentInstanceState`.

`running` says who has the store: the event loop, the caller, or a task. The
loop's actions take one work item each: `RunStart` and `RunDeliver` run a guest
call that may enter, `Postpone` keeps one that may not, `ResumeCall`,
`ResumeWait`, `ResumeYield`, `ResumeCancel` continue the caller in the intrinsic it
was suspended in, `ResumeTask` continues a fiber of the callee, `HostComplete`
lowers the result of a host call. `Leave` is the return of a callee to the event
loop: `exit_instance` with `partition_pending`, then what the returned code asks
for.

A task of `scenario.sync_typed`, whose function type is not async, may not block
until it has resolved (`MayBlock`). Until then its callback is called again at once
when it yields (`CallbackAgain`), its `thread.yield` runs only threads of its own
instance (`Promote`), and its waits trap. `may_block` is the flag that
`check_blocking` reads for `waitable-set.wait`. `set_thread` computes it when the task
is switched to, so it stays clear after `task.return` until the next switch.

`inside`, `outcome` and `seen` are history variables: who has a frame in the
instance that must be its only one, how each call was resolved, and what its
caller was told. `scenario`, chosen by `Init`, is what the components may do.

## 3. Runs

Twelve runs, each with a `.cfg` of its own. Bounds are `CONSTANTS` of the modules
and get their values in the configurations.

| run | checks | instance | result |
|---|---|---|---|
| `parking_safety` | `AssertsHold`, `ListInv`, `NotifyResults`, `NoLostWakeup` | 3 threads, 1 address, 2 values, 2 calls each, notify up to 2, 1 spurious wakeup | holds |
| `parking_fifo` | `ImplementsWaitQueues`, `CallsReturn` | 3 threads, 2 addresses, 1 call each, fair | holds |
| `types` | `RefCounts`, `AssertsHold`, `HandlesResolve`, `Canonical`, `DrainTerminates` | 2 threads, 3 indices, 5 entries; function types with a trampoline type, or three levels of struct types | holds |
| `index_lists` | `ListsExact`, `FootprintBounded`, `ImplementsQueue` | 4 slots, 2 memories, limits 0 and 2, slots with and without resident bytes | holds |
| `slot_lives` | `FreshMemory`, `GuardPages`, `CleanInPool` | 4 pages, 3 overlapping images, 2 pages kept resident, both platforms | holds |
| `pool` | `OneOwner`, `BuiltOnClean`, `ImageSlots`, `LimitMeansFull`, `PurgeComplete`, `CallsReturn` | 2 threads, 1 module, two slots of like or different kinds, batch of 1 or 2, both platforms, fair | holds |
| `store_faults` | `WithinLimit`, `MemoriesDisjoint`, `Conserved` | 3 stores, 3 instances, limit 2, pools that run out, every fault | holds |
| `store_gc` | `ReleasedAtDrop` | 2 stores, 1 GC heap, no fault | violated |
| `stream_calls` | `NoBug`, `Lossless`, `BusyExact`, `NoStall`, `Reclaimed`, `ImplementsChannel`, `CallsEnd` | a stream or a future, every owner of either end, calls of up to 3 and altogether 5 items, fair | holds |
| `stream_lift` | `NoBug` | calls of up to 2 items, the read end may be lifted at any time | violated |
| `tasks_calls` | `NoBug`, `Admission`, `StatusesOnce`, `Placed`, `NoneForgotten`, `Reclaimed`, `CallsReturn` | 2 calls, five scenarios, fair | holds |
| `tasks_handles` | `HandlesLive` | the same scenarios | violated |

What the runs show:

- **Parking spot.** A thread whose value check succeeded is never missed by a
  notify that reported fewer wakeups than it was asked for. The sum of what
  notifies report is exactly the number of waits that return `Ok`, and a timeout
  that races with a notify is counted on one side only. The lists are queues.
- **Type registry.** Counts are exact at every step, also in the middle of a
  rollback. The two races that the comments in `unregister_entry` describe are
  handled: without either test an invariant fails. Index equality is type
  equality although indices are reused. `DrainTerminates` is a variant function:
  every step of draining lowers `Effort`, so the critical section ends.
- **Index allocator.** A slot is on two lists and always leaves both, and the cached
  counters agree with the lists. The slots ever used exceed the most ever in use at
  once by at most `max_unused_warm_slots - 1`, and by none if that is 0. The lists
  implement the documented policy, and the resident bytes that are reported are the
  sum over the free slots.
- **Memory slots.** A new owner sees its own image and zeros, nothing of a
  previous owner, and relies on guard pages only where they are inaccessible,
  whatever was kept resident and whichever system call failed before.
- **Pooling allocator.** Every slot in use has exactly one owner throughout
  batching, failures and purges. A call that runs alone reports an exhausted pool
  only if the embedding holds every slot. Without batching, nothing of a purged
  module is left in a free slot. Every call returns.
- **Stores.** The instance limit holds although the counter overshoots. What is
  taken is given back, except by the four early returns in `Leak`.
- **Streams and futures.** Items arrive once, in order, and in the buffer that was
  named. Both ends are told the same counts, and no end is told twice or never. A
  handle is busy exactly while its call is in progress. The transmit outlives the
  first end that is dropped, and when two guests have dropped their ends it is deleted
  (for host ends see [section 4](#4-disagreements-between-code-and-documentation)). Detailed steps implement `Channel`, and a call that
  somebody can serve ends.
- **Tasks.** Whatever the two calls do, a non-reentrant instance has one task
  inside and lets the next one in when it leaves. Every suspended thread is in
  exactly one place from which it will be woken (`Placed`), and none waits for what
  has already happened (`NoneForgotten`). A caller is told each status once and in
  order. Finished tasks are deleted, with one exception that `Reclaimed` names.

Why the bounds are enough to meet the interesting cases:

- Three threads on one address give a list with a head, a middle and a tail, so
  that a timed out waiter leaves from each place. Two calls each reuse a node and
  a stale park token. `MaxCalls` and `MaxSpurious` bound the behaviours, so
  `CHECK_DEADLOCK FALSE` is set in these two runs: calls run out, and a wait
  without a deadline that nobody notifies blocks for ever, as it should.
- Two threads suffice for the races of the registry, which are between one that
  has counted down to zero and one that brings the type back. Three levels are
  the least at which a supertype list has two elements. `MaxEntries` leaves room
  for an entry that is unregistered while its successor exists. The programs of
  `MCPrograms` hold one handle of an entry where there are three shapes, and two
  where there are two.
- Four slots with two memories give affine lists of length two and more next to
  slots of another memory. The limit 2 is met, exceeded and undercut.
- The three images lie inside the two resident pages, across their end, and on
  exactly these pages; four pages leave room to grow beyond every image.
- The pools of `MCConfigs` put a memory and a table, or a table and a stack, into
  one batch of two, let a pool run out while its slot is in the queue, and let a
  purge and an allocation compete for two memories.
- Three stores against a limit of two overshoot the counter.
- A call of three items can be served in three, two or one step, and five items
  leave something for a second call on either side. When they are used up a
  stream rests, and the embedding of a host end need not do anything, so deadlock
  is not checked; that nobody is stuck in the meantime is `NoStall` and `CallsEnd`.
- The five scenarios of `MCScenarios`: one call of every kind, with backpressure
  and a host call; a task that stays inside while a second call comes; a stackful
  task that applies backpressure around a second call; a callback that waits for
  the host while its caller is in a synchronous call; a task that may not block before
  it has returned, next to one that yields and waits. A component may stop using
  its handles, so deadlock is not checked here either.

Symmetry is used in safety runs only, on sets whose members the model does not
tell apart.

Fairness, always weak, is assumed for what the code's environment must do and
never for beginning a call, a spurious wakeup or a failure:

- `ParkingSpot`, `PoolingAllocator`: `Step(t)`, the steps inside a call. The
  operating system eventually runs a thread that can run, and a mutex which is free
  is eventually obtained. The parking spot also has `Tick`: time passes, so a
  deadline is eventually reached.
- `Transmit`: `Wake(e)`, since the event loop resumes a thread whose event is
  there; `Lower`, a work item in the loop's queue; `Finish`, since
  `StreamProducer` and `StreamConsumer` ask a host that is told to finish to do so
  at once. A host that is not told to finish may stay pending for ever.
- `GuestTasks`: `LoopStep`, since the embedding polls `run_concurrent`; and
  `GiveBack(t)`, since a task that runs eventually gives the store back. Only a task
  that may not block is assumed to resolve in the end if it gives nothing back, because
  the event loop cannot run before that, just as a synchronous export is assumed to
  return. Nobody else is assumed to resolve a task: `CallsReturn` says that an
  asynchronous call comes back whatever the callee does, and a synchronous one once its
  task is resolved.

## 4. Disagreements between code and documentation

Three are runs of their own:

- `store_gc`: `allocate_gc_store` allocates a memory and then the GC heap. If the
  heap is refused because `total_gc_heaps` are in use, the memory is dropped and
  its slot stays taken (`store.rs:1874`). Dropping the allocator asserts that no
  memory is live (`pooling.rs:352`).
- `stream_lift`: a write of two items, of which a guest has read one, is still
  `GuestReady` while its event waits. If the read end is lifted and piped now, the
  consumer starts on the rest, the delivery of the event closes the write, and the
  consumer's next read fails with `bail_bug!("expected WriteState::GuestReady")`
  (`futures_and_streams.rs:902`); one that completes without reading fails at
  `futures_and_streams.rs:2864`. One `bug` stands for both. With `LiftWhole` the run `stream_calls` excludes it.
- `tasks_handles`: a callee returns its result, suspends, and exits before its
  caller drops the subtask. `cleanup_thread` deletes the task
  (`component/concurrent.rs:2072`), and the caller's `subtask.drop` fails on a
  handle that names nothing: it begins with `waitable_join`, which looks the task up,
  and `ready_to_delete` does not look at the handle. The comment at `concurrent.rs:2102`
  has a resolved task deleted "once `subtask.drop` is called".

Met while modelling, and visible in the models as a condition or a restriction:

- `PurgeComplete` needs a batch size of 1. With a larger one a memory of a module
  may be in the decommit queue when `purge_module` runs. It comes back affine to
  the module and with its image mapped, while `allocator.rs:275` says that all
  lingering resources are purged.
- When a decommit fails, memories are marked unknown and tables are zeroed by
  hand, but stacks go back as they are (`decommit_queue.rs:218`), while
  `config.rs:844` says that stacks are zeroed before they are used. `BuiltOnClean`
  is therefore about memories and tables.
- `Leak` in `StoreResources` names the other early returns that keep what they
  took, all of them when the host is out of memory: reserving the maps of the guard
  (the instance stays counted), `Instance::new` (its memories and tables stay
  taken) and `new_gc_heap`. `Conserved` shows that there are no more in the
  modelled code.
- `Transmit`. A second cancellation while the first one waits for the host is a
  `bail_bug!` (`CancelOnce` excludes it), and so is a cancellation from another
  thread of the guest while a synchronous call waits on the handle, which the model's
  guest does not make. A transmit whose host end is ready when the guest end is
  dropped is not deleted; `Reclaimed` demands deletion when two guests have dropped
  their ends. A
  producer with a buffer left over is polled once more after its reader is gone
  (`futures_and_streams.rs:723`). A future that was written to a host consumer and
  then cancelled stays marked as done. An end that is dropped or lifted stays in
  the `ready` set of the waitable set it was in.
- `GuestTasks`. A caller whose callee returns and exits before the caller resumes
  leaves a task that nobody deletes; `Reclaimed` excepts exactly this case,
  although `concurrent.rs:980` wants no such leak. A start that `partition_pending`
  has moved to the queue and that is cancelled before it runs traps with
  `SubtaskCancelAfterTerminal` (`concurrent.rs:2128`); a trap ends the caller, so the
  model has no step for it. Two threads that wait on one set can take each other's event. There is
  one caller thread in the model, so this is not met. A `thread.yield` of a task that
  may not block suspends it if another thread of its instance can run (`ThreadYield`
  with `Promote`), without `skip_may_block_check` (`concurrent.rs:3596`), although the
  `debug_assert!` of `suspend` (`concurrent.rs:1953`) says that only a task that may block
  comes there. The model has the release build, where the task is suspended and resumed
  like any other.

## 5. Proofs

TLAPS checks the theorems for every value of the constants, so for any number of
threads, addresses, stores, slots and tasks. Each module of proofs assumes only the
named assumption of the module it is about, and each such assumption is evaluated by
TLC in the runs.

| module | theorem | property |
|---|---|---|
| `ParkingSpotProofs` | `AssertsNeverFail`, `ListsWellFormed`, `NotifyResultsExact`, `NoWakeupLost` | `AssertsHold`, `ListInv`, `NotifyResults`, `NoLostWakeup` |
| `IndexAllocatorProofs` | `ListsStayExact`, `FootprintHolds` | `ListsExact`, `FootprintBounded` |
| `PoolingAllocatorProofs` | `SlotsOwned` | `OneOwner` |
| `PoolingResetProofs` | `NeverBuiltOnDirty`, `ImageSlotsHold` | `BuiltOnClean`, `ImageSlots` |
| `StoreResourcesProofs` | `CountSafe`, `LimitHolds` | `WithinLimit` |
| `StoreMemoriesProofs` | `MemoriesStayDisjoint` | `MemoriesDisjoint` |
| `StoreConservedProofs` | `NothingElseLeaks` | `Conserved` |
| `GuestTasksProofs` | `AdmissionHolds` | `Admission` |

### ParkingSpotProofs

`ParkingSpotAssumption`: finitely many threads, `Nil` is not one of them, the bounds
are natural numbers. `TypeCorrect` and `MutualExclusion` are proved on the way. All
rest on one inductive invariant `IInv`:

- `Typed`: the types, with `owed` any integer. That it is not negative is a
  conjunct of its own, `owed >= 0`: no wait returns `Ok` before the notify that
  woke it has counted it, because the mutex is held until then.
- `LockInv`: the holder of the mutex is the thread between lock and unlock. Every
  other conjunct needs it, since it keeps two threads from changing lists at once.
- `Locals`, `AtMostN`: what a thread knows at its place, for instance that a
  notify that gives up early has seen an empty list.
- `Lists`, that is `AssertsHold` and the links: they agree in both directions,
  and exactly the blocked threads are linked. `PushLists` and `RemoveLists` show
  what the two list operations preserve.
- `Acyclic`: sets of nodes can be assigned to the nodes that grow strictly along
  `next`. Local well-formedness allows a cycle next to an empty list. Acyclicity
  rules it out, so that a blocked thread implies a list with a head
  (`HeadReachable`), which is what `NoWakeupLost` needs.
- `WakeConservation`: counts what was reported against what is still to return.

### IndexAllocatorProofs

For any capacity, any set of memories and any set of limits. The inductive
invariant is `TypeOK /\ CountersExact /\ WarmInv /\ AffineInv /\ PeakInv /\
FootprintBounded`. That a list visits a set of slots is an existential statement,
an order that the links follow. The lemmas about `append` and `remove` give the
order after the operation: the old one with the slot added at its end, or with it
taken out. `FootprintBounded` is inductive only together with `PeakInv` (the peak is
at least the number of slots in use) and the exact counters, because `_alloc`
decides on a cold slot by the counters.

### PoolingAllocatorProofs, PoolingResetProofs

`PoolingAssumption`: the three kinds of slots are disjoint and finite, batch sizes
are positive. The first invariant, `IInv`, has four parts. `Typed`; `Shapes`, what
the place of a call says about its locals (nothing, one slot, or a batch in its
hands); `Owned`, the partition of the slots in use; `Counted`, that a live counter is
the number of held slots of its kind. Seven lemmas (`OwnedTake`, `OwnedFree`,
`OwnedGive`, ...) say how the partition changes when a slot passes from one owner
to another, and each action is an instance of one of them.

The second invariant, `Reset`, needs the first. `Pages` says what is known about a
slot that nobody works on: a free table is zeroed, an `ImageSlot` that is not
`Unknown` describes clean pages, the slots of held and queued memories are `Unknown`,
and memories are queued only where decommit restores their mapping. `Knows(t)` says
what a call knows about the slots in its hands at each place, for instance that
after a flush in which everything succeeded the memories and tables of the batch are
clean. Since a thread changes only slots in its own hands, ownership gives that it
disturbs no other (`OthersKnow`). This is the argument by which a failure in the
batch of one owner cannot put dirty pages under another.

### StoreResourcesProofs

`CountSafe` shows the inductive invariant `CountInv`, and `LimitHolds` derives
`WithinLimit`. The limit alone is not inductive. It needs that the counter is at
least the number of counted instances, and for that, that a store counts down only
for an instance that it counted up (`CurrentAgrees`, `OwnersAgree`). The invariant
has `<=` and not `=` since the failure of the guard leaves the counter too high.

### StoreMemoriesProofs, StoreConservedProofs

`StoreResourcesAssumption`: the instances and the slots of the pools are finite,
`None` is none of them. `SlotInv` extends `CountInv` by what a store has of a GC
heap at each place (`GcStores`), and by who holds which memory (`InstancesHold`,
`StoresHold`). `MemoriesDisjoint` is not inductive because of the order in which a heap
is dropped: between freeing the index and deallocating the memory a store still
names an index that another store may have taken. `OneHeap` says that this is the
only place where two stores name one index, and `GcStores` that the slot is
already `Free` when the index is freed.

`AccountInv` adds one account for each of instances, memories, tables and GC heaps,
and `NothingElseLeaks` derives `Conserved` from it. Each account is kept by a lemma of
its own (`InstanceStep`, `MemoryStep`, `TableStep`, `HeapStep`). They need that an
instance that is refused, or whose guard could not be built, owns nothing yet
(`Unowned`, `ForgetsNothing`), and that what is lost is held by nobody. The bound on
the number of GC heaps comes from `OneHeap`: stores whose heap is counted have
different indices.

### GuestTasksProofs

For any number of tasks and any scenarios. `IInv == InstTyped /\ Admission`:
`do_not_enter` is set exactly while a task is inside, there is at most one, and
no pending call could enter. Every action is one of seven kinds as far as the instance
is concerned: enter, leave, leave and enter again, postpone, cancel a pending start,
change the backpressure, or none of these. The interesting ones are those that can make a
pending call ready, leaving and lowering the backpressure: both run
`partition_pending`, and `PartitionsExact` shows that it leaves no ready call behind.

### Only model-checked

Liveness (`CallsReturn`, `CallsEnd`) and what recursive functions compute are out of
reach of the prover. The refinements (`ImplementsWaitQueues`, `ImplementsQueue`,
`ImplementsChannel`), `LimitMeansFull`, `PurgeComplete`, and the properties of `TypeRegistry`, `MemorySlot`, `Transmit` and, except
`Admission`, of `GuestTasks` are checked by TLC on the instances above and not proved
so far.

## 6. What is not modelled

- Code generators and interpreters (Cranelift, Winch, Pulley) and the compilation
  driver: pure translations, whose correctness is about instruction semantics. They
  are by far the largest part of the repository, together with generated and
  vendored code.
- Traps, signal handlers, unwinding, stack switching: native code and processor
  state. Memory protection keys only partition the memory pool into stripes that
  do not interact; one stripe is modelled.
- The on-demand allocator, linking, tables and globals of an instance: sequential
  within a store.
- Binding generators, the C API, the command line, `wasmtime-py` and the token
  generator: wrappers, generated text and I/O.
- The memory model below sequential consistency. Atomics are modelled as
  sequentially consistent, so the orderings chosen in the code are not checked.
- In `StoreResources`, the component instance counter and dummy instances.
- In `Transmit`, buffers that a host shares directly with a guest, `try_into`, and
  error contexts.
- In `GuestTasks`, explicit threads (`thread.new` and what resumes them), cancellation
  of host subtasks, calls from the host into a guest, callees that call other
  guests, a caller that exits while its subtasks run, reuse of table ids, and error
  contexts. Which lifts an export of a given type may have is up to the validator, which
  is not in the repository; the model has every combination that the code handles.
- What the plan below lists.

## 7. Plan

Modules to come, the most important behaviour first:

1. `SharedMemory`: `grow` and atomic wait and notify, composed with `ParkingSpot`.
2. The component instance counter, in `StoreResources`.
3. Component resource tables: handles, borrow counts, free lists.
4. The rest of component-model async, as listed above; `Transmit` and `GuestTasks`
   composed through the waitables that both use.
5. The deferred reference counting collector and its free list.
6. Fibers and cancellation of async calls; epochs and the module registry.
7. `no_std` locks; the slab; the worker of the compilation cache.
8. WASI: the stdin worker thread and the background writer.

Runs for these will use two or three actors and the smallest tables that fill up;
where two runs ask the same question of different configurations they are joined
by a configuration variable that `Init` chooses, as `linux`, `config` and `scenario`
are.

Theorems to come, in this order: `PurgeComplete` of `PoolingAllocator`; `FreshMemory` and
`GuardPages` of `MemorySlot`; `Placed` of `GuestTasks`; the step simulation behind
`ImplementsWaitQueues`.
