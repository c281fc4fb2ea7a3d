------------------------------ MODULE GuestTasks ------------------------------
(***************************************************************************)
(* Guest-to-guest calls of the component model's async ABI                 *)
(* (runtime/component/concurrent.rs): tasks, waitable sets, backpressure,  *)
(* cancellation, and the event loop that runs it all.                      *)
(*                                                                         *)
(* One thread of a caller instance calls the exports of one callee         *)
(* instance.  An export is lifted with a callback, stackful or             *)
(* synchronously; a callee task may in turn call the host and wait for it. *)
(* A store runs one thing at a time: the event loop takes work items, or a *)
(* guest runs until it suspends or returns.  A step is one intrinsic, one  *)
(* work item, or one return to the event loop.                             *)
(*                                                                         *)
(* A call of an intrinsic that traps ends the store, so it is no step.     *)
(* Errors the guest is not to blame for (bail_bug!, assert!, a table entry *)
(* the event loop needs and does not find) set `bug`.                      *)
(***************************************************************************)
EXTENDS Integers, SequencesExt

CONSTANTS
  Tasks,       \* the calls that are made, one task each
  Scenarios    \* what the components do: `calls`, how each task may be lifted and
               \* whether its call may be asynchronous; `suspend`, the tasks that may
               \* suspend in the middle of a call; `sync_typed`, the tasks of exports
               \* whose function type is not async; and the bounds on the callee's
               \* backpressure counter (u16 in the code) and on its host calls

None == "none"
Terminal == {"Returned", "ReturnCancelled"}
Lifts == {"callback", "stackful", "sync"}

ASSUME GuestTasksAssumption ==
  /\ IsFiniteSet(Tasks)
  /\ Scenarios \subseteq [calls : [Tasks -> SUBSET (Lifts \X BOOLEAN)], suspend : SUBSET Tasks,
                           sync_typed : SUBSET Tasks,
                           max_backpressure : Nat, max_host_calls : Nat]

\* Waitables: the subtasks of the caller, and the host subtask of each callee task.
Host(t) == <<"host", t>>
Waitables == Tasks \cup {Host(t) : t \in Tasks}
\* Waitable sets: the caller thread's sync_call_set, a set of the caller, and one set
\* of each callee task, which its host subtask is joined to.
Sets == {"sync", "set"} \cup Tasks
Threads == {"caller"} \cup Tasks

VARIABLES
  scenario,  \* one of Scenarios, for the whole behaviour
  c,         \* ConcurrentState: the tasks, waitables, sets and queues
  inst,      \* ConcurrentInstanceState of the callee
  running,   \* the thread that executes, or "loop"
  caller,    \* where the caller thread is, and its locals
  block,     \* why a callee fiber is suspended
  may_block, \* task_may_block of the callee, the flag that check_blocking reads
  inside,    \* tasks with a frame in the callee that must be its only one
  host,      \* the host subtask of each callee task
  outcome,   \* how each call was resolved
  seen,      \* the statuses the caller was given, in order
  bug

vars == <<scenario, c, inst, running, caller, block, may_block, inside, host, outcome, seen, bug>>

\* GuestTask; `threads` is the implicit thread or nothing, so it also stands for `exited`.
NewTask(lifted, async) ==
  [live |-> TRUE, lifted |-> lifted, async |-> async, lower |-> TRUE, lift |-> TRUE,
   cancel_sent |-> FALSE, starting_sent |-> FALSE, event |-> None, thread |-> TRUE,
   sync |-> "NotProduced", handle |-> FALSE, wake |-> FALSE]
NoTask == [NewTask("sync", TRUE) EXCEPT !.live = FALSE, !.lower = FALSE, !.lift = FALSE,
                                        !.thread = FALSE]

\* Work items: StartImplicit, DeliverEvent, ResumeFiber or ResumeThread, WorkerFunction.
Start(t)      == [kind |-> "start", thread |-> t, set |-> None]
Deliver(t, s) == [kind |-> "deliver", thread |-> t, set |-> s]
Resume(x)     == [kind |-> "resume", thread |-> x, set |-> None]
Worker(t)     == [kind |-> "worker", thread |-> t, set |-> None]

Idle == [at |-> "run", task |-> None, async |-> FALSE, old |-> None]

Init ==
  /\ scenario \in Scenarios
  /\ c = [task    |-> [t \in Tasks |-> NoTask],
          event   |-> [w \in Waitables |-> None],
          set     |-> [w \in Waitables |-> None],
          ready   |-> [s \in Sets |-> {}],
          waiting |-> [s \in Sets |-> {}],
          high    |-> <<>>, low |-> <<>>]
  /\ inst = [backpressure |-> 0, do_not_enter |-> FALSE, pending |-> {}]
  /\ running = "caller" /\ caller = Idle
  /\ block = [t \in Tasks |-> None] /\ may_block = FALSE /\ inside = {}
  /\ host = [t \in Tasks |-> None]
  /\ outcome = [t \in Tasks |-> "uncalled"]
  /\ seen = [t \in Tasks |-> <<>>]
  /\ bug = FALSE

-----------------------------------------------------------------------------
(* Waitables: functions from one ConcurrentState to the next *)

\* WaitMode: a callback that waits has left the instance, a fiber has not.
WakeUp(x, s) ==
  IF x # "caller" /\ block[x] = None THEN Deliver(x, s) ELSE Resume(x)

\* Mutant: the thread that is woken can still be woken by a cancellation.
MarkReadyKeepsWake(k, w) ==
  LET s == k.set[w]
      first == CHOOSE x \in k.waiting[s] : TRUE
      marked == [k EXCEPT !.ready[s] = @ \cup {w}]
  IN IF s = None THEN k
     ELSE IF k.waiting[s] = {} THEN marked
     ELSE [marked EXCEPT !.waiting[s] = @ \ {first}, !.high = Append(@, WakeUp(first, s))]

\* Waitable::mark_ready: the first waiter of the set, if any, is made runnable.
MarkReady(k, w) ==
  LET s == k.set[w]
      first == CHOOSE x \in k.waiting[s] : TRUE
      marked == [k EXCEPT !.ready[s] = @ \cup {w}]
  IN IF s = None THEN k
     ELSE IF k.waiting[s] = {} THEN marked
     ELSE [marked EXCEPT !.waiting[s] = @ \ {first},
                         !.task = [t \in Tasks |-> IF t = first THEN [@[t] EXCEPT !.wake = FALSE]
                                                   ELSE @[t]],
                         !.high = Append(@, WakeUp(first, s))]

SetEvent(k, w, e) == MarkReady([k EXCEPT !.event[w] = e], w)

TakeEvent(k, w) ==
  [k EXCEPT !.event[w] = None,
            !.ready = [s \in Sets |-> IF s = k.set[w] THEN @[s] \ {w} ELSE @[s]]]

\* Waitable::join; s may be None.
Join(k, w, s) ==
  LET moved == [k EXCEPT !.set[w] = s,
                         !.ready = [r \in Sets |-> IF r = k.set[w] THEN @[r] \ {w} ELSE @[r]]]
  IN IF s # None /\ k.event[w] # None THEN MarkReady(moved, w) ELSE moved

\* Thread x is suspended until set s has an event (resume_fiber, SuspendReason::Waiting).
WaitOn(k, x, s) == [k EXCEPT !.waiting[s] = @ \cup {x}]

PushHigh(k, items) == [k EXCEPT !.high = @ \o items]
PushLow(k, item) == [k EXCEPT !.low = Append(@, item)]

\* Instance::get_event for a callee task: its own event, else one of the set's; the
\* result is the set of states it can lead to, empty when there is no event.
GotEvent(k, t, s, cancellable) ==
  LET own == k.task[t].event
  IN IF own # None /\ (cancellable \/ own # "Cancelled")
     THEN {[k EXCEPT !.task[t].event = None]}
     ELSE IF s = None THEN {}
     ELSE {[k EXCEPT !.ready[s] = @ \ {w}, !.event[w] = None] : w \in k.ready[s]}

\* GuestTask::ready_to_delete
ReadyToDelete(k, t) ==
  ~k.task[t].thread /\ k.task[t].sync # "Produced" /\ k.event[t] \notin Terminal

\* The entry of the task is gone; what is left is the handle the caller may still hold.
Delete(k, t) == [k EXCEPT !.task[t] = [NoTask EXCEPT !.handle = k.task[t].handle], !.set[t] = None]

\* Mutant: a task whose result was taken synchronously is left to its caller.
CleanupThreadAsync(k, t) ==
  LET gone == [k EXCEPT !.task[t].thread = FALSE]
  IN IF gone.task[t].async /\ ReadyToDelete(gone, t) THEN Delete(gone, t) ELSE gone

\* cleanup_thread with CleanupTask::Yes, for the only thread of a task.
CleanupThread(k, t) ==
  LET gone == [k EXCEPT !.task[t].thread = FALSE]
  IN IF ReadyToDelete(gone, t) THEN Delete(gone, t) ELSE gone

-----------------------------------------------------------------------------
(* The callee instance *)

\* Mutant: only backpressure keeps a call out.
IsReadyInside(call, i) ==
  call.kind = "start" => i.backpressure = 0

\* GuestCall::is_ready
IsReady(call, i) ==
  ~i.do_not_enter /\ (call.kind = "start" => i.backpressure = 0)

\* partition_pending moves the ready calls to the queue in the order of their ids, which
\* may be any order since ids are reused.
Partitions(i) == SetToSeqs({call \in i.pending : IsReady(call, i)})

Exited == [inst EXCEPT !.do_not_enter = FALSE]

\* The calls that are let in when the task leaves the instance, if it had entered it.
LetIn(t) == IF t \in inside THEN Partitions(Exited) ELSE {<<>>}

\* ConcurrentState::may_block: a task of an async function may block, and any task may
\* once it has resolved.
MayBlock(t) == t \in scenario.sync_typed => ~c.task[t].lift

\* set_thread leaves task_may_block clear when no task of the callee runs.  For one that
\* does, it holds what MayBlock was when the task was switched to.
Switch(t) == running' = t /\ may_block' = MayBlock(t)
SwitchAway(t) == running = t /\ running' = "loop" /\ may_block' = FALSE

\* The callee returns to the event loop.  exit_instance, when the task had entered it,
\* comes before anything the returned value asks for.
Leave(t, calls) ==
  /\ SwitchAway(t)
  /\ inside' = inside \ {t}
  /\ inst' = IF t \in inside THEN [Exited EXCEPT !.pending = @ \ Range(calls)] ELSE inst

-----------------------------------------------------------------------------
(* The caller.  It holds a handle of a subtask from the moment a call returns with
   the callee unfinished until subtask.drop. *)

Callers(t) == running = "caller" /\ c.task[t].handle /\ c.task[t].live
Tell(t, status) == seen' = [seen EXCEPT ![t] = Append(@, status)]

\* prepare_call and start_call, up to the suspension that waits for the callee to start.
StartCall(t, lifted, async) ==
  /\ running = "caller" /\ outcome[t] = "uncalled" /\ <<lifted, async>> \in scenario.calls[t]
  /\ c' = LET made == [c EXCEPT !.task[t] = NewTask(lifted, async)]
          IN WaitOn(Join(PushHigh(made, <<Start(t)>>), t, "sync"), "caller", "sync")
  /\ caller' = [Idle EXCEPT !.at = "call", !.task = t, !.async = async]
  /\ outcome' = [outcome EXCEPT ![t] = None]
  /\ running' = "loop"
  /\ UNCHANGED <<scenario, inst, block, may_block, inside, host, seen, bug>>

WaitableJoin(t, s) ==
  /\ Callers(t) /\ c.set[t] # s
  /\ c' = Join(c, t, s)
  /\ UNCHANGED <<scenario, inst, running, caller, block, may_block, inside, host, outcome, seen, bug>>

\* get_event for the caller, whose own task has no event.
Receive(k, s) ==
  IF k.ready[s] = {}
  THEN bug' = TRUE /\ c' = k /\ UNCHANGED seen
  ELSE \E t \in k.ready[s] :
         /\ c' = [k EXCEPT !.ready[s] = @ \ {t}, !.event[t] = None]
         /\ bug' = (k.event[t] = None \/ ~k.task[t].handle \/ ~k.task[t].live)
         /\ Tell(t, k.event[t])

\* waitable-set.poll, or waitable-set.wait when an event is there.
SetReceive ==
  /\ running = "caller" /\ c.ready["set"] # {}
  /\ Receive(c, "set")
  /\ UNCHANGED <<scenario, inst, running, caller, block, may_block, inside, host, outcome>>

SetWait ==
  /\ running = "caller" /\ c.ready["set"] = {}
  /\ c' = WaitOn(c, "caller", "set")
  /\ caller' = [Idle EXCEPT !.at = "wait"] /\ running' = "loop"
  /\ UNCHANGED <<scenario, inst, block, may_block, inside, host, outcome, seen, bug>>

SubtaskDrop(t) ==
  /\ Callers(t)
  /\ ~c.task[t].lift /\ c.event[t] = None   \* else Trap::SubtaskDropNotResolved
  /\ c' = LET removed == [Join(c, t, None) EXCEPT !.task[t].handle = FALSE]
          IN IF ReadyToDelete(c, t) THEN Delete(removed, t) ELSE removed
  /\ UNCHANGED <<scenario, inst, running, caller, block, may_block, inside, host, outcome, seen, bug>>

\* subtask.cancel before the parameters were lowered: the call leaves `pending`.  (A
\* call that partition_pending has just moved to the queue makes this trap.)
CancelStarting(t) ==
  /\ Callers(t) /\ c.task[t].lower /\ Start(t) \in inst.pending
  /\ c' = [c EXCEPT !.task[t].lower = FALSE, !.task[t].lift = FALSE, !.task[t].thread = FALSE]
  /\ inst' = [inst EXCEPT !.pending = @ \ {Start(t)}]
  /\ outcome' = [outcome EXCEPT ![t] = "StartCancelled"]
  /\ Tell(t, "StartCancelled")
  /\ UNCHANGED <<scenario, running, caller, block, may_block, inside, host, bug>>

\* The end of subtask.cancel: the terminal status is taken.
TakeStatus(k, t) ==
  /\ c' = TakeEvent(k, t)
  /\ bug' = (k.event[t] \notin Terminal \/ ~k.task[t].live)
  /\ Tell(t, k.event[t])
  /\ running' = "caller" /\ caller' = Idle

\* subtask.cancel of a subtask that is resolved; its status may already be pending.
CancelResolved(t) ==
  /\ Callers(t) /\ ~c.task[t].lower /\ ~c.task[t].lift
  /\ c.event[t] \in Terminal   \* else Trap::SubtaskCancelAfterTerminal
  /\ TakeStatus(c, t)
  /\ UNCHANGED <<scenario, inst, block, may_block, inside, host, outcome>>

\* The rest of subtask.cancel when the callee goes on: BLOCKED, or wait_for_event.
AwaitStatus(k, t, async) ==
  /\ IF async
     THEN c' = k /\ caller' = Idle /\ running' = "caller"
     ELSE /\ c' = WaitOn(Join(k, t, "sync"), "caller", "sync")
          /\ caller' = [Idle EXCEPT !.at = "cancel", !.task = t, !.old = k.set[t]]
          /\ running' = "loop"
  /\ UNCHANGED <<scenario, seen, bug>>

\* Mutant: the waiting task is left where it is.
SubtaskCancelUnwoken(t, async) ==
  /\ Callers(t) /\ ~c.task[t].lower /\ c.task[t].lift
  /\ AwaitStatus([c EXCEPT !.task[t].cancel_sent = TRUE, !.task[t].event = "Cancelled"], t, async)
  /\ UNCHANGED <<scenario, inst, block, may_block, inside, host, outcome>>

\* Mutant: the interrupted thread is left in the set it waited in.
SubtaskCancelStays(t, async) ==
  LET sent == [c EXCEPT !.task[t].cancel_sent = TRUE, !.task[t].event = "Cancelled"]
      woken == [sent EXCEPT !.task[t].wake = FALSE]
  IN /\ Callers(t) /\ ~c.task[t].lower /\ c.task[t].lift
     /\ IF c.task[t].wake
        THEN /\ c' = PushLow(PushHigh(woken, <<WakeUp(t, None)>>), Resume("caller"))
             /\ caller' = [Idle EXCEPT !.at = "yield", !.task = t, !.async = async]
             /\ running' = "loop"
             /\ UNCHANGED <<scenario, seen, bug>>
        ELSE AwaitStatus(sent, t, async)
     /\ UNCHANGED <<scenario, inst, block, may_block, inside, host, outcome>>

\* subtask.cancel of a running subtask: a cancellable wait is interrupted and the caller
\* yields to it once.
SubtaskCancel(t, async) ==
  LET sent == [c EXCEPT !.task[t].cancel_sent = TRUE, !.task[t].event = "Cancelled"]
      woken == [sent EXCEPT !.task[t].wake = FALSE, !.waiting[t] = @ \ {t}]
  IN /\ Callers(t) /\ ~c.task[t].lower /\ c.task[t].lift
     /\ IF c.task[t].wake
        THEN /\ c' = PushLow(PushHigh(woken, <<WakeUp(t, None)>>), Resume("caller"))
             /\ bug' = (t \notin c.waiting[t])
             /\ caller' = [Idle EXCEPT !.at = "yield", !.task = t, !.async = async]
             /\ running' = "loop"
             /\ UNCHANGED seen
        ELSE AwaitStatus(sent, t, async)
     /\ UNCHANGED <<scenario, inst, block, may_block, inside, host, outcome>>

-----------------------------------------------------------------------------
(* The event loop: high-priority items in order, a low-priority one when there are none *)

Items == c.high \o c.low
HasItem == c.high # <<>> \/ c.low # <<>>
Item == IF c.high # <<>> THEN Head(c.high) ELSE Head(c.low)
Rest == IF c.high # <<>> THEN [c EXCEPT !.high = Tail(@)] ELSE [c EXCEPT !.low = Tail(@)]
Loop(kind) == running = "loop" /\ HasItem /\ Item.kind = kind

\* A guest call is run: the task enters the instance, unless it is stackful.
Enter(t) ==
  /\ Switch(t)
  /\ inside' = IF c.task[t].lifted = "stackful" THEN inside ELSE inside \cup {t}
  /\ inst' = IF c.task[t].lifted = "stackful" THEN inst ELSE [inst EXCEPT !.do_not_enter = TRUE]

\* StartImplicit: the parameters are lowered, which tells the caller `Started`.
RunStart ==
  LET t == Item.thread
  IN /\ Loop("start") /\ IsReady(Item, inst)
     /\ Enter(t)
     /\ c' = SetEvent([Rest EXCEPT !.task[t].lower = FALSE], t, "Started")
     /\ bug' = (~c.task[t].live \/ ~c.task[t].lower)
     /\ UNCHANGED <<scenario, caller, block, host, outcome, seen>>

\* DeliverEvent: the callback is called.
RunDeliver ==
  LET t == Item.thread
      got == GotEvent(Rest, t, Item.set, TRUE)
  IN /\ Loop("deliver") /\ IsReady(Item, inst)
     /\ Enter(t)
     /\ bug' = (got = {} \/ ~c.task[t].live)
     /\ IF got = {} THEN c' = Rest ELSE c' \in got
     /\ UNCHANGED <<scenario, caller, block, host, outcome, seen>>

\* Mutant: the caller is not told that its call has to wait.
PostponeSilent ==
  /\ running = "loop" /\ HasItem
  /\ Item.kind \in {"start", "deliver"} /\ ~IsReady(Item, inst)
  /\ c' = Rest
  /\ inst' = [inst EXCEPT !.pending = @ \cup {Item}]
  /\ UNCHANGED <<scenario, running, caller, block, may_block, inside, host, outcome, seen, bug>>

\* A call that cannot enter yet is kept with its instance; the first time, the caller
\* of a task that has not started is told `Starting`.
Postpone ==
  LET t == Item.thread
      told == [Rest EXCEPT !.task[t].starting_sent = TRUE]
  IN /\ running = "loop" /\ HasItem
     /\ Item.kind \in {"start", "deliver"} /\ ~IsReady(Item, inst)
     /\ c' = IF Item.kind = "start" /\ ~c.task[t].starting_sent
             THEN SetEvent(told, t, "Starting") ELSE told
     /\ inst' = [inst EXCEPT !.pending = @ \cup {Item}]
     /\ bug' = ~c.task[t].live
     /\ UNCHANGED <<scenario, running, caller, block, may_block, inside, host, outcome, seen>>

ResumesCaller(at) == Loop("resume") /\ Item.thread = "caller" /\ caller.at = at

\* start_call after its suspension.  An asynchronous call returns with whatever the
\* callee has come to, a synchronous one waits until the callee has returned.
ResumeCall ==
  LET t == caller.task
      status == c.event[t]
      left == Join(TakeEvent(Rest, t), t, None)
      taken == [left EXCEPT !.task[t].sync = "Taken"]
  IN /\ ResumesCaller("call")
     /\ bug' = (status = None \/ ~c.task[t].live)
     /\ IF caller.async
        THEN /\ c' = IF status = "Returned" THEN left ELSE [left EXCEPT !.task[t].handle = TRUE]
             /\ Tell(t, status)
             /\ running' = "caller" /\ caller' = Idle
        ELSE IF status = "Returned"
        THEN /\ c' = IF ReadyToDelete(taken, t) THEN Delete(taken, t) ELSE taken
             /\ Tell(t, status)
             /\ running' = "caller" /\ caller' = Idle
        ELSE /\ c' = WaitOn(TakeEvent(Rest, t), "caller", "sync")
             /\ UNCHANGED <<scenario, seen, running, caller>>
     /\ UNCHANGED <<scenario, inst, block, may_block, inside, host, outcome>>

\* waitable-set.wait after its suspension.
ResumeWait ==
  /\ ResumesCaller("wait")
  /\ Receive(Rest, "set")
  /\ running' = "caller" /\ caller' = Idle
  /\ UNCHANGED <<scenario, inst, block, may_block, inside, host, outcome>>

\* subtask.cancel after it has yielded to the interrupted task.
ResumeYield ==
  LET t == caller.task
  IN /\ ResumesCaller("yield")
     /\ IF c.task[t].lift THEN AwaitStatus(Rest, t, caller.async) ELSE TakeStatus(Rest, t)
     /\ UNCHANGED <<scenario, inst, block, may_block, inside, host, outcome>>

\* subtask.cancel after wait_for_event.
ResumeCancel ==
  /\ ResumesCaller("cancel")
  /\ TakeStatus(Join(Rest, caller.task, caller.old), caller.task)
  /\ UNCHANGED <<scenario, inst, block, may_block, inside, host, outcome>>

\* A fiber of the callee goes on after thread.yield or waitable-set.wait; the suffix of
\* `block` says whether that was cancellable.
ResumeTask ==
  LET t == Item.thread
      waited == block[t] \in {"wait", "wait_cancellable"}
      cancellable == block[t] \in {"yield_cancellable", "wait_cancellable"}
      got == GotEvent(Rest, t, t, cancellable)
  IN /\ Loop("resume") /\ t \in Tasks
     /\ Switch(t) /\ block' = [block EXCEPT ![t] = None]
     /\ IF waited
        THEN bug' = (got = {}) /\ (IF got = {} THEN c' = Rest ELSE c' \in got)
        ELSE /\ c' = IF cancellable THEN [Rest EXCEPT !.task[t].event = None] ELSE Rest
             /\ bug' = (cancellable /\ c.task[t].event \notin {None, "Cancelled"})
     /\ UNCHANGED <<scenario, inst, caller, inside, host, outcome, seen>>

\* on_complete of first_poll: the result of the host is lowered on a worker fiber.
HostComplete ==
  LET t == Item.thread
  IN /\ Loop("worker")
     /\ host' = [host EXCEPT ![t] = "done"]
     /\ c' = SetEvent(Rest, Host(t), "Returned")
     /\ UNCHANGED <<scenario, inst, running, caller, block, may_block, inside, outcome, seen, bug>>

\* The future of the host, polled by the event loop, is ready.
HostReady(t) ==
  /\ running = "loop" /\ host[t] = "running"
  /\ host' = [host EXCEPT ![t] = "ready"]
  /\ c' = PushHigh(c, <<Worker(t)>>)
  /\ UNCHANGED <<scenario, inst, running, caller, block, may_block, inside, outcome, seen, bug>>

-----------------------------------------------------------------------------
(* The callee *)

\* task_complete
Resolve(t, k, status) ==
  /\ outcome' = [outcome EXCEPT ![t] = status]
  /\ c' = SetEvent([k EXCEPT !.task[t].lift = FALSE], t, status)

\* task.return; the lifted result of a synchronous call is kept for its caller.
TaskReturn(t) ==
  /\ running = t /\ c.task[t].lift /\ c.task[t].lifted # "sync"
  /\ Resolve(t, [c EXCEPT !.task[t].sync = IF c.task[t].async THEN @ ELSE "Produced"], "Returned")
  /\ UNCHANGED <<scenario, inst, running, caller, block, may_block, inside, host, seen, bug>>

\* Mutant: a task that has returned can still be cancelled.
TaskCancelTwice(t) ==
  /\ running = t /\ c.task[t].lifted # "sync" /\ c.task[t].cancel_sent
  /\ Resolve(t, c, "ReturnCancelled")
  /\ UNCHANGED <<scenario, inst, running, caller, block, may_block, inside, host, seen, bug>>

TaskCancel(t) ==
  /\ running = t /\ c.task[t].lift /\ c.task[t].lifted # "sync" /\ c.task[t].cancel_sent
  /\ Resolve(t, c, "ReturnCancelled")
  /\ UNCHANGED <<scenario, inst, running, caller, block, may_block, inside, host, seen, bug>>

\* backpressure_modify; the counter going back to zero lets waiting calls in.
BackpressureInc(t) ==
  /\ running = t /\ inst.backpressure < scenario.max_backpressure
  /\ inst' = [inst EXCEPT !.backpressure = @ + 1]
  /\ UNCHANGED <<scenario, c, running, caller, block, may_block, inside, host, outcome, seen, bug>>

BackpressureDec(t) ==
  LET less == [inst EXCEPT !.backpressure = @ - 1]
  IN /\ running = t /\ inst.backpressure > 0
     /\ IF less.backpressure = 0
        THEN \E calls \in Partitions(less) :
               /\ inst' = [less EXCEPT !.pending = @ \ Range(calls)]
               /\ c' = PushHigh(c, calls)
        ELSE inst' = less /\ UNCHANGED c
     /\ UNCHANGED <<scenario, running, caller, block, may_block, inside, host, outcome, seen, bug>>

\* An asynchronous host call that is not ready at first_poll; its subtask is joined to
\* the set of the task.
HostCall(t) ==
  /\ running = t /\ host[t] = None
  /\ Cardinality({u \in Tasks : host[u] # None}) < scenario.max_host_calls
  /\ host' = [host EXCEPT ![t] = "running"]
  /\ c' = Join(c, Host(t), t)
  /\ UNCHANGED <<scenario, inst, running, caller, block, may_block, inside, outcome, seen, bug>>

\* waitable-set.wait of a callee fiber.
TaskWait(t, cancellable) ==
  LET got == GotEvent(c, t, t, cancellable)
  IN /\ running = t /\ t \in scenario.suspend
     /\ may_block   \* else Trap::CannotBlockSyncTask
     /\ IF got = {}
        THEN /\ c' = WaitOn([c EXCEPT !.task[t].wake = cancellable], t, t)
             /\ block' = [block EXCEPT ![t] = IF cancellable THEN "wait_cancellable" ELSE "wait"]
             /\ SwitchAway(t)
        ELSE c' \in got /\ UNCHANGED <<block, may_block, running>>
     /\ UNCHANGED <<scenario, inst, caller, inside, host, outcome, seen, bug>>

\* A thread of the callee that could run: a guest call, or a fiber that has yielded.
Local(item) ==
  \/ item.kind \in {"start", "deliver"}
  \/ item.kind = "resume" /\ item.thread # "caller"
     /\ block[item.thread] \in {"yield", "yield_cancellable"}

\* promote_instance_local_thread_work_item, when it returns true.
Promote(k) ==
  LET first == Min({n \in DOMAIN k.low : Local(k.low[n])})
  IN IF \E n \in DOMAIN k.high : Local(k.high[n]) THEN k
     ELSE [k EXCEPT !.low = RemoveAt(@, first), !.high = Append(@, k.low[first])]

\* thread.yield.  A task that may not block yields only to threads of its own instance,
\* one of which is moved ahead of all other work.
ThreadYield(t, cancellable) ==
  LET k == IF MayBlock(t) THEN c ELSE Promote(c)
  IN /\ running = t /\ t \in scenario.suspend
     /\ MayBlock(t) \/ \E n \in DOMAIN Items : Local(Items[n])   \* else nothing happens
     /\ IF cancellable /\ c.task[t].event # None
        THEN /\ c' = [k EXCEPT !.task[t].event = None]
             /\ bug' = (c.task[t].event # "Cancelled")
             /\ UNCHANGED <<block, may_block, running>>
        ELSE /\ c' = PushLow(k, Resume(t))
             /\ block' = [block EXCEPT ![t] = IF cancellable THEN "yield_cancellable" ELSE "yield"]
             /\ SwitchAway(t)
             /\ UNCHANGED bug
     /\ UNCHANGED <<scenario, inst, caller, inside, host, outcome, seen>>

\* The end of a task: CALLBACK_CODE_EXIT, or the return of a stackful export.
Exit(t) ==
  /\ c.task[t].lifted # "sync" /\ ~c.task[t].lift   \* else Trap::NoAsyncResult
  /\ \E calls \in LetIn(t) : Leave(t, calls) /\ c' = CleanupThread(PushHigh(c, calls), t)
  /\ UNCHANGED <<scenario, caller, block, host, outcome, seen, bug>>

\* The return of a synchronously lifted export, which resolves the task.
ReturnSync(t) ==
  /\ c.task[t].lifted = "sync"
  /\ \E calls \in LetIn(t) :
       /\ Leave(t, calls)
       /\ c' = CleanupThread(
                 SetEvent([PushHigh(c, calls) EXCEPT
                             !.task[t].lift = FALSE,
                             !.task[t].sync = IF c.task[t].async THEN @ ELSE "Produced"],
                          t, "Returned"), t)
  /\ outcome' = [outcome EXCEPT ![t] = "Returned"]
  /\ UNCHANGED <<scenario, caller, block, host, seen, bug>>

\* CALLBACK_CODE_YIELD
CallbackYield(t) ==
  /\ c.task[t].lifted = "callback" /\ MayBlock(t)
  /\ \E calls \in LetIn(t) :
       /\ Leave(t, calls)
       /\ c' = PushLow([PushHigh(c, calls) EXCEPT
                          !.task[t].event = IF @ = None THEN "None" ELSE @], Deliver(t, None))
  /\ UNCHANGED <<scenario, caller, block, host, outcome, seen, bug>>

\* CALLBACK_CODE_YIELD of a task that may not block: the task has left the instance, which
\* lets calls in, and enters it again at once to be given Cancelled or no event.
CallbackAgain(t) ==
  /\ running = t /\ c.task[t].lifted = "callback" /\ ~MayBlock(t)
  /\ \E calls \in LetIn(t) :
       /\ inst' = [inst EXCEPT !.pending = @ \ Range(calls)]
       /\ c' = [PushHigh(c, calls) EXCEPT !.task[t].event = None]
  /\ UNCHANGED <<scenario, running, caller, block, may_block, inside, host, outcome, seen, bug>>

\* CALLBACK_CODE_WAIT
CallbackWait(t) ==
  /\ c.task[t].lifted = "callback"
  /\ MayBlock(t)   \* else Trap::CannotBlockSyncTask
  /\ \E calls \in LetIn(t) :
       /\ Leave(t, calls)
       /\ LET k == PushHigh(c, calls)
          IN c' = IF k.task[t].event # None \/ k.ready[t] # {}
                  THEN PushHigh(k, <<Deliver(t, t)>>)
                  ELSE WaitOn([k EXCEPT !.task[t].wake = TRUE], t, t)
  /\ UNCHANGED <<scenario, caller, block, host, outcome, seen, bug>>

-----------------------------------------------------------------------------

CallerStep ==
  \/ \E t \in Tasks, lifted \in Lifts, async \in BOOLEAN : StartCall(t, lifted, async)
  \/ \E t \in Tasks, s \in {"set", None} : WaitableJoin(t, s)
  \/ SetReceive \/ SetWait
  \/ \E t \in Tasks : SubtaskDrop(t) \/ CancelStarting(t) \/ CancelResolved(t)
  \/ \E t \in Tasks, async \in BOOLEAN : SubtaskCancel(t, async)

LoopStep ==
  \/ RunStart \/ RunDeliver \/ Postpone
  \/ ResumeCall \/ ResumeWait \/ ResumeYield \/ ResumeCancel \/ ResumeTask
  \/ HostComplete

\* A callee gives control back to the event loop.
GiveBack(t) ==
  \/ Exit(t) \/ ReturnSync(t) \/ CallbackYield(t) \/ CallbackWait(t)
  \/ \E cancellable \in BOOLEAN : TaskWait(t, cancellable) \/ ThreadYield(t, cancellable)

CalleeStep(t) ==
  \/ GiveBack(t) \/ CallbackAgain(t)
  \/ TaskReturn(t) \/ TaskCancel(t) \/ BackpressureInc(t) \/ BackpressureDec(t) \/ HostCall(t)

Next == CallerStep \/ LoopStep \/ (\E t \in Tasks : CalleeStep(t) \/ HostReady(t))

Spec == Init /\ [][Next]_vars

\* The embedder keeps polling the event loop (run_concurrent), and a callee that runs
\* gives control back sooner or later.  Only a task that may not block, and keeps the
\* event loop from running until it has, is asked to resolve.
FairSpec ==
  /\ Spec /\ WF_vars(LoopStep)
  /\ \A t \in Tasks : WF_vars(GiveBack(t) \/ (t \in scenario.sync_typed /\ TaskReturn(t)))
-----------------------------------------------------------------------------
(* Properties *)

TypeOK ==
  /\ scenario \in Scenarios /\ bug \in BOOLEAN /\ may_block \in BOOLEAN
  /\ running \in Threads \cup {"loop"} /\ inside \subseteq Tasks
  /\ \A t \in Tasks : c.task[t].event \in {None, "None", "Cancelled"}
  /\ \A w \in Waitables : c.event[w] \in {None, "Starting", "Started"} \cup Terminal
                            /\ c.set[w] \in Sets \cup {None}
  /\ \A s \in Sets : c.ready[s] \subseteq Waitables /\ c.waiting[s] \subseteq Threads
  /\ inst.backpressure \in 0 .. scenario.max_backpressure
  /\ \A call \in inst.pending : call.kind \in {"start", "deliver"}
  /\ caller.at \in {"run", "call", "wait", "yield", "cancel"}
  /\ outcome \in [Tasks -> {"uncalled", None, "StartCancelled"} \cup Terminal]

\* No step meets a condition the code reports as a bug of its own or trips over: a
\* resumed thread finds the event it was woken for, a task that runs still exists.
NoBug == ~bug

\* A call is let in when it may, and only then.  do_not_enter of the callee is set exactly
\* while a task that needs the instance for itself has a frame in it, and there is never a
\* second one; a call that waits for the instance could not enter it.
Admission ==
  /\ inst.do_not_enter = (inside # {})
  /\ \A t, u \in inside : t = u
  /\ \A call \in inst.pending : ~IsReady(call, inst)

Rank(status) == CASE status = "Starting" -> 1 [] status = "Started" -> 2 [] OTHER -> 3

\* The statuses a caller is given of a subtask only go forward, whichever of the call,
\* the set or subtask.cancel hands them out, and the last one, how the call ended,
\* is given once: it is either pending or already told.
StatusesOnce ==
  \A t \in Tasks :
    LET told == {seen[t][i] : i \in DOMAIN seen[t]} \ {"Starting", "Started"}
    IN /\ \A i, j \in DOMAIN seen[t] : i < j => Rank(seen[t][i]) < Rank(seen[t][j])
       /\ outcome[t] \in {"uncalled", None} => told = {} /\ c.event[t] \notin Terminal
       /\ outcome[t] \notin {"uncalled", None} =>
            \/ told = {} /\ c.event[t] = outcome[t]
            \/ told = {outcome[t]} /\ c.event[t] = None

\* The places a thread can be in.
Places(x) ==
  {<<"queue", i>> : i \in {n \in DOMAIN Items : Items[n].thread = x /\ Items[n].kind # "worker"}}
    \cup {<<"set", s>> : s \in {r \in Sets : x \in c.waiting[r]}}
    \cup {<<"pending", call.kind>> : call \in {p \in inst.pending : p.thread = x}}
    \cup (IF running = x THEN {<<"running", 0>>} ELSE {})

\* A thread that has not finished is in one place: it runs, waits in one set, waits for
\* its instance, or is in the queues once.  A finished one is nowhere, and a host result
\* is lowered once.
Placed ==
  /\ TypeOK
  /\ \A x \in Threads :
       Cardinality(Places(x)) = IF x = "caller" \/ c.task[x].thread THEN 1 ELSE 0
  /\ \A t \in Tasks :
       Cardinality({n \in DOMAIN Items : Items[n] = Worker(t)}) = IF host[t] = "ready" THEN 1 ELSE 0

\* Nothing waits for what has already happened.  A set's `ready` holds exactly its
\* members that have an event; a thread waits in a set only if none of them has (a
\* subtask.cancel that waits may find `Started` there, which it does not wait for); a
\* cancellable wait has no cancellation to see.
NoneForgotten ==
  /\ \A s \in Sets : c.ready[s] = {w \in Waitables : c.set[w] = s /\ c.event[w] # None}
  /\ \A s \in Sets : c.waiting[s] # {} =>
       \A w \in c.ready[s] : caller.at = "cancel" /\ c.event[w] = "Started"
  /\ \A t \in Tasks : c.task[t].wake => t \in c.waiting[t] /\ c.task[t].event # "Cancelled"

\* A task is deleted only when its thread has finished and nothing of it is to be told,
\* and it is deleted then, once its caller gave up the handle.  The exception is a task
\* that returned and exited before its asynchronous caller was resumed: start_call leaves
\* it in the table.
Reclaimed ==
  \A t \in Tasks :
    LET done == outcome[t] # "uncalled" /\ ReadyToDelete(c, t)
    IN /\ outcome[t] # "uncalled" /\ ~c.task[t].live => done
       /\ done /\ c.task[t].live =>
            c.task[t].handle \/ (c.task[t].async /\ seen[t] = <<"Returned">>)

\* The comment in cancel_guest_subtask_without_lowered_parameters has a resolved task
\* deleted "once `subtask.drop` is called": until then, a handle names a task that exists.
\* A task whose terminal status was delivered before it exited is deleted at its exit,
\* dropped or not.
HandlesLive == \A t \in Tasks : c.task[t].handle => c.task[t].live

\* The caller is in a call or a cancellation that is asynchronous, or whose task has been
\* resolved by the callee.
Awaited ==
  \/ caller.at \in {"call", "yield"} /\ caller.async
  \/ caller.task # None /\ outcome[caller.task] \in Terminal

\* An asynchronous call or cancellation comes back to its caller whatever the callee
\* does (one that may not block has to yield to another task or to resolve), and a
\* synchronous one does once the callee has resolved the task.
CallsReturn == Awaited ~> (running = "caller")
=============================================================================
