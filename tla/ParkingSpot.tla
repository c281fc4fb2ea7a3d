----------------------------- MODULE ParkingSpot -----------------------------
(***************************************************************************)
(* The wait/notify primitive behind `memory.atomic.wait` and               *)
(* `memory.atomic.notify` (runtime/vm/parking_spot.rs).                    *)
(*                                                                         *)
(* A thread's waiter node (WaiterInner: notified, next, prev) is indexed   *)
(* by the thread itself: the node is a thread-local of shared_memory.rs.   *)
(* What runs under the mutex is split where another thread can observe it: *)
(* the atomic load of `validate`, the deadline test, the unpark token of   *)
(* std::thread.  The assertions of the Rust code are not guards here; they *)
(* are the invariant AssertsHold.                                          *)
(***************************************************************************)
EXTENDS Integers, FiniteSets

CONSTANTS
  Threads,      \* threads that share one ParkingSpot
  Addrs,        \* addresses that are waited on
  Values,       \* values of the atomics at those addresses
  Nil,          \* Option::None for links, and the free mutex
  MaxN,         \* bound on the count given to notify
  MaxCalls,     \* bound on the wait and notify calls of one thread
  MaxSpurious   \* bound on the spurious returns of park_timeout

ASSUME ParkingSpotAssumption ==
  /\ Nil \notin Threads
  /\ IsFiniteSet(Threads)
  /\ MaxN \in Nat /\ MaxCalls \in Nat /\ MaxSpurious \in Nat

VARIABLES
  mem,          \* the atomics, written by wasm code without the mutex
  lock,         \* owner of ParkingSpot::inner
  spot,         \* the BTreeMap of Spot {head, tail}; absent = empty
  next, prev,   \* links of the waiter nodes
  notified,     \* WaiterInner::notified
  token,        \* std::thread's park token
  pc,           \* where each thread is
  call,         \* arguments and locals of the call in progress
  calls,        \* calls made so far (bound)
  spurious,     \* spurious wakeups so far (bound)
  owed          \* sum of notify's results minus number of waits that gave Ok

list  == <<spot, next, prev>>
bound == <<calls, spurious>>
vars  == <<mem, lock, list, notified, token, pc, call, bound, owed>>

NoSpot   == [head |-> Nil, tail |-> Nil]
Links    == Threads \cup {Nil}
WaitPC   == {"wait_lock", "validate", "enqueue", "deadline", "park", "relock"}
NotifyPC == {"notify_lock", "notify", "notify_done"}
Deadlines == {"none", "ahead", "reached"}
NoCall   == [key |-> Nil, expected |-> Nil, deadline |-> "none", n |-> 0, unparked |-> 0]
WaitArgs(a, v, d) == [key |-> a, expected |-> v, deadline |-> d, n |-> 0, unparked |-> 0]
NotifyArgs(a, n) == [key |-> a, expected |-> Nil, deadline |-> "none", n |-> n, unparked |-> 0]

Key(t) == call[t].key
\* The value check has succeeded and the wait has not returned.
Committed(t) == pc[t] \in {"enqueue", "deadline", "park", "relock"}
\* The waiter has been pushed and the wait has not returned.
Pushed(t) == pc[t] \in {"deadline", "park", "relock"}
\* The waiter is in the list of its address.
Queued(t) == Pushed(t) /\ ~notified[t]
Holding(t) == pc[t] \in {"validate", "enqueue", "deadline", "notify", "notify_done"}

TypeOK ==
  /\ mem \in [Addrs -> Values]
  /\ lock \in Links
  /\ spot \in [Addrs -> [head : Links, tail : Links]]
  /\ next \in [Threads -> Links] /\ prev \in [Threads -> Links]
  /\ notified \in [Threads -> BOOLEAN] /\ token \in [Threads -> BOOLEAN]
  /\ pc \in [Threads -> {"idle"} \cup WaitPC \cup NotifyPC]
  /\ call \in [Threads -> [key : Addrs \cup {Nil}, expected : Values \cup {Nil},
                           deadline : Deadlines, n : Nat, unparked : Nat]]
  /\ \A t \in Threads : pc[t] # "idle" => Key(t) \in Addrs
  /\ calls \in [Threads -> Nat] /\ spurious \in Nat
  /\ owed \in Nat

Init ==
  /\ mem \in [Addrs -> Values]
  /\ lock = Nil
  /\ spot = [a \in Addrs |-> NoSpot]
  /\ next = [t \in Threads |-> Nil] /\ prev = [t \in Threads |-> Nil]
  /\ notified = [t \in Threads |-> FALSE] /\ token = [t \in Threads |-> FALSE]
  /\ pc = [t \in Threads |-> "idle"]
  /\ call = [t \in Threads |-> NoCall]
  /\ calls = [t \in Threads |-> 0] /\ spurious = 0
  /\ owed = 0

-----------------------------------------------------------------------------
Goto(t, from, to) == pc[t] = from /\ pc' = [pc EXCEPT ![t] = to]

\* Enter a call, within the bound on calls.
Enter(t, from, to, args) ==
  /\ Goto(t, from, to)
  /\ calls[t] < MaxCalls
  /\ calls' = [calls EXCEPT ![t] = @ + 1]
  /\ call' = [call EXCEPT ![t] = args]
  /\ UNCHANGED <<mem, lock, list, notified, token, spurious, owed>>

\* Leave the call.  The results of wait are told apart by the action that returns.
Return(t, from) ==
  /\ Goto(t, from, "idle")
  /\ call' = [call EXCEPT ![t] = NoCall]

\* Mutant: the new waiter goes to the front.
PushFront(w, a) ==
  LET first == spot[a].head IN
  /\ next' = [next EXCEPT ![w] = first]
  /\ prev' = IF first = Nil THEN prev ELSE [prev EXCEPT ![first] = w]
  /\ spot' = [spot EXCEPT ![a] = [head |-> w, tail |-> IF first = Nil THEN w ELSE @.tail]]

\* Spot::push: the waiter becomes the tail.
Push(w, a) ==
  LET last == spot[a].tail IN
  /\ prev' = [prev EXCEPT ![w] = last]
  /\ next' = IF last = Nil THEN next ELSE [next EXCEPT ![last] = w]
  /\ spot' = [spot EXCEPT ![a] = [head |-> IF last = Nil THEN w ELSE @.head, tail |-> w]]

\* Mutant: the links of the removed node are not cleared.
RemoveKeepsLinks(w, a) ==
  /\ next' = [u \in Threads |-> IF u = prev[w] THEN next[w] ELSE next[u]]
  /\ prev' = [u \in Threads |-> IF u = next[w] THEN prev[w] ELSE prev[u]]
  /\ spot' = [spot EXCEPT ![a] = [head |-> IF prev[w] = Nil THEN next[w] ELSE @.head,
                                  tail |-> IF next[w] = Nil THEN prev[w] ELSE @.tail]]

\* Spot::remove: unlink the waiter wherever it is in the list of a.
Remove(w, a) ==
  /\ next' = [u \in Threads |-> IF u = w THEN Nil
                                ELSE IF u = prev[w] THEN next[w] ELSE next[u]]
  /\ prev' = [u \in Threads |-> IF u = w THEN Nil
                                ELSE IF u = next[w] THEN prev[w] ELSE prev[u]]
  /\ spot' = [spot EXCEPT ![a] = [head |-> IF prev[w] = Nil THEN next[w] ELSE @.head,
                                  tail |-> IF next[w] = Nil THEN prev[w] ELSE @.tail]]

-----------------------------------------------------------------------------
(* ParkingSpot::wait *)

WaitCall(t, a, v, d) ==
  Enter(t, "idle", "wait_lock", WaitArgs(a, v, d))

WaitLock(t) ==
  /\ Goto(t, "wait_lock", "validate")
  /\ lock = Nil /\ lock' = t
  /\ UNCHANGED <<mem, list, notified, token, call, bound, owed>>

\* Mutant: the mutex is dropped between the check and the push.
ValidateUnlocks(t) ==
  /\ Goto(t, "validate", "enqueue")
  /\ mem[Key(t)] = call[t].expected
  /\ lock' = Nil
  /\ UNCHANGED <<mem, list, notified, token, call, bound, owed>>

\* The SeqCst load of `validate`, under the mutex.
Validate(t) ==
  /\ pc[t] = "validate"
  /\ \/ /\ mem[Key(t)] = call[t].expected
        /\ Goto(t, "validate", "enqueue")
        /\ UNCHANGED <<lock, call>>
     \/ /\ mem[Key(t)] # call[t].expected
        /\ Return(t, "validate")   \* WaitResult::Mismatch
        /\ lock' = Nil
  /\ UNCHANGED <<mem, list, notified, token, bound, owed>>

Enqueue(t) ==
  /\ Goto(t, "enqueue", "deadline")
  /\ notified' = [notified EXCEPT ![t] = FALSE]
  /\ Push(t, Key(t))
  /\ UNCHANGED <<mem, lock, token, call, bound, owed>>

\* Mutant: a timed out waiter stays in the list.
CheckDeadlineStays(t) ==
  /\ Goto(t, "deadline", IF call[t].deadline = "reached" THEN "idle" ELSE "park")
  /\ lock' = Nil
  /\ UNCHANGED <<mem, list, notified, token, call, bound, owed>>

\* Top of the loop: time out while still holding the mutex, or drop it and park.
CheckDeadline(t) ==
  /\ \/ /\ call[t].deadline = "reached"
        /\ Return(t, "deadline")   \* WaitResult::TimedOut
        /\ Remove(t, Key(t))
     \/ /\ call[t].deadline # "reached"
        /\ Goto(t, "deadline", "park")
        /\ UNCHANGED <<list, call>>
  /\ lock' = Nil
  /\ UNCHANGED <<mem, notified, token, bound, owed>>

\* park_timeout returns because of a token, which may be left from an earlier wait.
ParkToken(t) ==
  /\ Goto(t, "park", "relock")
  /\ token[t]
  /\ token' = [token EXCEPT ![t] = FALSE]
  /\ UNCHANGED <<mem, lock, list, notified, call, bound, owed>>

\* Mutant: park instead of park_timeout.
ParkForever(t) == ParkToken(t)

ParkTimeout(t) ==
  /\ Goto(t, "park", "relock")
  /\ call[t].deadline = "reached"
  /\ UNCHANGED <<mem, lock, list, notified, token, call, bound, owed>>

ParkSpurious(t) ==
  /\ Goto(t, "park", "relock")
  /\ spurious < MaxSpurious
  /\ spurious' = spurious + 1
  /\ UNCHANGED <<mem, lock, list, notified, token, call, calls, owed>>

\* Mutant: the deadline is looked at before the flag.
RelockDeadlineFirst(t) ==
  /\ lock = Nil
  /\ \/ /\ notified[t] /\ call[t].deadline # "reached"
        /\ Return(t, "relock")
        /\ owed' = owed - 1
        /\ UNCHANGED lock
     \/ /\ ~notified[t] \/ call[t].deadline = "reached"
        /\ Goto(t, "relock", "deadline")
        /\ lock' = t
        /\ UNCHANGED <<call, owed>>
  /\ UNCHANGED <<mem, list, notified, token, bound>>

\* Take the mutex again; a notification wins over the deadline.
Relock(t) ==
  /\ lock = Nil
  /\ \/ /\ notified[t]
        /\ Return(t, "relock")   \* WaitResult::Ok
        /\ owed' = owed - 1
        /\ UNCHANGED lock
     \/ /\ ~notified[t]
        /\ Goto(t, "relock", "deadline")
        /\ lock' = t
        /\ UNCHANGED <<call, owed>>
  /\ UNCHANGED <<mem, list, notified, token, bound>>

-----------------------------------------------------------------------------
(* ParkingSpot::notify *)

\* n = 0 returns 0 without taking the mutex.
NotifyCall(t, a, n) ==
  IF n = 0
  THEN Enter(t, "idle", "idle", NoCall)
  ELSE Enter(t, "idle", "notify_lock", NotifyArgs(a, n))

NotifyLock(t) ==
  /\ Goto(t, "notify_lock", "notify")
  /\ lock = Nil /\ lock' = t
  /\ UNCHANGED <<mem, list, notified, token, call, bound, owed>>

\* One iteration: pop the head, flag it, unpark it, stop at n.
NotifyPop(t) ==
  LET head == spot[Key(t)].head IN
  /\ Goto(t, "notify", IF call[t].unparked + 1 = call[t].n THEN "notify_done" ELSE "notify")
  /\ head # Nil
  /\ Remove(head, Key(t))
  /\ notified' = [notified EXCEPT ![head] = TRUE]
  /\ token' = [token EXCEPT ![head] = TRUE]
  /\ call' = [call EXCEPT ![t].unparked = @ + 1]
  /\ UNCHANGED <<mem, lock, bound, owed>>

\* The queue ran out.
NotifyEmpty(t) ==
  /\ Goto(t, "notify", "notify_done")
  /\ spot[Key(t)].head = Nil
  /\ UNCHANGED <<mem, lock, list, notified, token, call, bound, owed>>

NotifyReturn(t) ==
  /\ Return(t, "notify_done")
  /\ lock' = Nil
  /\ owed' = owed + call[t].unparked
  /\ UNCHANGED <<mem, list, notified, token, bound>>

-----------------------------------------------------------------------------
(* The environment: wasm stores, and time. *)

Store(t, a, v) ==
  /\ pc[t] = "idle"
  /\ mem' = [mem EXCEPT ![a] = v]
  /\ UNCHANGED <<lock, list, notified, token, pc, call, bound, owed>>

Tick(t) ==
  /\ call[t].deadline = "ahead"
  /\ call' = [call EXCEPT ![t].deadline = "reached"]
  /\ UNCHANGED <<mem, lock, list, notified, token, pc, bound, owed>>

\* Steps a thread takes on its own once it is inside wait or notify.
Step(t) ==
  \/ WaitLock(t) \/ Validate(t) \/ Enqueue(t) \/ CheckDeadline(t)
  \/ ParkToken(t) \/ ParkTimeout(t) \/ Relock(t)
  \/ NotifyLock(t) \/ NotifyPop(t) \/ NotifyEmpty(t) \/ NotifyReturn(t)

Call(t) ==
  \E a \in Addrs :
    \/ \E v \in Values, d \in {"none", "ahead"} : WaitCall(t, a, v, d)
    \/ \E n \in 0..MaxN : NotifyCall(t, a, n)
    \/ \E v \in Values : Store(t, a, v)

Next == \E t \in Threads : Step(t) \/ Call(t) \/ Tick(t) \/ ParkSpurious(t)

Spec == Init /\ [][Next]_vars

\* Threads inside the primitive are scheduled and time passes; nobody has to call.
\* With finitely many calls and spurious wakeups the mutex is contended finitely
\* often, so weak fairness is enough although std's mutex is not fair.
FairSpec == Spec /\ \A t \in Threads : WF_vars(Step(t)) /\ WF_vars(Tick(t))

-----------------------------------------------------------------------------
(* Properties *)

\* The mutex has one holder, and the code between lock and unlock is exactly what
\* the holder runs.
LockInv == \A t \in Threads : Holding(t) <=> lock = t

\* The asserts of wait (132-133, 186-187), push (250-251) and notify (208): a node
\* that is not waiting in a list, never pushed, timed out or popped, has no links.
AssertsHold ==
  \A t \in Threads : ~Queued(t) => next[t] = Nil /\ prev[t] = Nil

\* Push, remove from the middle on a timeout, and pop keep every list doubly linked:
\* each blocked, un-notified thread is reachable in the list of its own address, so
\* only a notify of that address can wake it.
ListInv ==
  /\ \A t, u \in Threads : next[t] = u <=> prev[u] = t
  /\ \A t \in Threads : next[t] # Nil => Key(next[t]) = Key(t)
  /\ \A a \in Addrs :
       /\ spot[a].head = Nil <=> spot[a].tail = Nil
       /\ spot[a].head # Nil =>
            /\ Queued(spot[a].head) /\ Queued(spot[a].tail)
            /\ Key(spot[a].head) = a /\ Key(spot[a].tail) = a
            /\ prev[spot[a].head] = Nil /\ next[spot[a].tail] = Nil
  /\ \A t \in Threads : Queued(t) =>
       /\ prev[t] = Nil => spot[Key(t)].head = t
       /\ next[t] = Nil => spot[Key(t)].tail = t

Notifying(t) == pc[t] \in {"notify", "notify_done"}
Woken == {t \in Threads : Pushed(t) /\ notified[t]}

\* "Returns the number of threads that were actually unparked" (195): every unit of
\* every notify's result is one wait that returned Ok or is about to; a wakeup is
\* neither lost to a timeout nor made up.
WakeConservation ==
  /\ (\A t \in Threads : ~Notifying(t)) => owed = Cardinality(Woken)
  /\ \A t \in Threads : Notifying(t) => owed + call[t].unparked = Cardinality(Woken)

\* "Notify at most n threads" (193): also at the limit and for n = 0.
AtMostN ==
  \A t \in Threads : Notifying(t) =>
    /\ call[t].unparked <= call[t].n
    /\ pc[t] = "notify" => call[t].unparked < call[t].n

\* What notify returns is exact: at most n, and in the long run as many as the waits that
\* return Ok (TypeOK has `owed`, the wakeups not yet collected, never negative).
NotifyResults == TypeOK /\ WakeConservation /\ AtMostN

\* "The check-and-block operation is atomic with respect to notify" (59-61): when a
\* notify returns less than n, no thread whose value check had succeeded is still
\* blocked on that address without having been notified.
NoLostWakeup ==
  [][\A u \in Threads :
       (pc[u] = "notify_done" /\ pc'[u] = "idle" /\ call[u].unparked < call[u].n) =>
         \A t \in Threads : Committed(t) /\ Key(t) = Key(u) => Pushed(t) /\ notified[t]]_vars

\* A wait that has a deadline and a notify return, whatever else is blocked.
CallsReturn ==
  \A t \in Threads :
    (pc[t] \in NotifyPC \/ (pc[t] \in WaitPC /\ call[t].deadline # "none")) ~> (pc[t] = "idle")

=============================================================================
