----------------------------- MODULE MCGuestTasks -----------------------------
(* GuestTasks with two calls, in scenarios that add up instead of multiplying. *)
EXTENDS GuestTasks

CONSTANTS t1, t2

MCTasks == {t1, t2}

Scenario(first, second, backpressure, hosts) ==
  [calls |-> (t1 :> first @@ t2 :> second), suspend |-> {t1}, sync_typed |-> {},
   max_backpressure |-> backpressure, max_host_calls |-> hosts]

Async(lifts) == lifts \X {TRUE}

MCScenarios ==
  { \* One call of every kind, with everything the callee can do.
    Scenario(Lifts \X BOOLEAN, {}, 1, 1),
    \* A call that stays in the instance while a second one comes.
    Scenario(Async({"callback", "sync"}), Async({"callback"}), 0, 0),
    \* A stackful task that turns backpressure on and off around a second call.
    Scenario(Async({"stackful"}), Async({"sync"}), 1, 0),
    \* A task that waits for the host while its caller is in a synchronous call.
    Scenario(Async({"callback"}), {<<"callback", FALSE>>}, 0, 1),
    \* A task that may not block before it has returned, and one that waits or yields.
    [Scenario(Async(Lifts), Async({"callback"}), 0, 0) EXCEPT !.sync_typed = {t1}] }
=============================================================================
