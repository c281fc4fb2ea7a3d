----------------------------- MODULE WaitQueues ------------------------------
(***************************************************************************)
(* What a ParkingSpot promises (the comments of wait32 and notify in       *)
(* runtime/vm/parking_spot.rs): per address a first-in first-out queue of  *)
(* blocked threads.  A thread leaves its queue because it is at the head   *)
(* and a notify takes it, or because it timed out; one that was taken      *)
(* returns, and cannot time out any more.                                  *)
(***************************************************************************)
EXTENDS Sequences

CONSTANTS Threads, Addrs

VARIABLES
  queue,   \* per address, the blocked threads, oldest first
  woken    \* threads taken by a notify that have not returned yet

vars == <<queue, woken>>

In(t, q) == \E i \in DOMAIN q : q[i] = t

Init == queue = [a \in Addrs |-> <<>>] /\ woken = {}

Block(t, a) ==
  /\ t \notin woken /\ \A b \in Addrs : ~In(t, queue[b])
  /\ queue' = [queue EXCEPT ![a] = Append(@, t)]
  /\ UNCHANGED woken

Wake(a) ==
  /\ queue[a] # <<>>
  /\ queue' = [queue EXCEPT ![a] = Tail(@)]
  /\ woken' = woken \cup {Head(queue[a])}

TimeOut(t, a) ==
  /\ In(t, queue[a])
  /\ queue' = [queue EXCEPT ![a] = SelectSeq(@, LAMBDA u : u # t)]
  /\ UNCHANGED woken

Return(t) ==
  /\ t \in woken
  /\ woken' = woken \ {t}
  /\ UNCHANGED queue

Next ==
  \/ \E t \in Threads, a \in Addrs : Block(t, a) \/ TimeOut(t, a)
  \/ \E a \in Addrs : Wake(a)
  \/ \E t \in Threads : Return(t)

Spec == Init /\ [][Next]_vars /\ \A t \in Threads : WF_vars(Return(t))

=============================================================================
