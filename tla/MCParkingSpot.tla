---------------------------- MODULE MCParkingSpot ----------------------------
(* ParkingSpot for TLC: symmetry, and the mapping to WaitQueues. *)
EXTENDS ParkingSpot, Sequences, TLC

ThreadSymmetry == Permutations(Threads)

\* The threads met by following `next` from t, as Spot::num_parked walks a list; the
\* walk gives up after as many nodes as there are threads.
RECURSIVE WalkFrom(_, _)
WalkFrom(t, n) == IF t = Nil \/ n = 0 THEN <<>> ELSE <<t>> \o WalkFrom(next[t], n - 1)
Walk(t) == WalkFrom(t, Cardinality(Threads))

Abstract == INSTANCE WaitQueues WITH
  queue <- [a \in Addrs |-> Walk(spot[a].head)],
  woken <- Woken

\* The linked lists implement first-in first-out queues: waiters are woken in the
\* order in which they blocked, a timeout takes out only its own thread, and a thread
\* taken by notify returns Ok.
ImplementsWaitQueues == Abstract!Spec

=============================================================================
