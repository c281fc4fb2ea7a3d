--------------------------- MODULE GuestTasksProofs ---------------------------
(* Proofs about GuestTasks, for any number of tasks and any scenario. *)
EXTENDS GuestTasks, FiniteSetTheorems, TLAPS

\* inst is a record of three fields, and finitely many calls wait.
InstTyped ==
  /\ inst = [backpressure |-> inst.backpressure, do_not_enter |-> inst.do_not_enter,
             pending |-> inst.pending]
  /\ inst.backpressure \in Nat /\ inst.do_not_enter \in BOOLEAN
  /\ IsFiniteSet(inst.pending)

IInv == InstTyped /\ Admission

\* partition_pending finds every call that is ready, and only those.
LEMMA PartitionsExact ==
  ASSUME NEW i, IsFiniteSet(i.pending), NEW calls \in Partitions(i)
  PROVE  Range(calls) = {call \in i.pending : IsReady(call, i)}
<1> DEFINE S == {call \in i.pending : IsReady(call, i)}
           n == Cardinality(S)
<1>1. IsFiniteSet(S) /\ n \in Nat
  BY FS_Subset, FS_CardinalityType
<1>2. calls \in [1 .. n -> S] /\ \A j, k \in 1 .. n : j # k => calls[j] # calls[k]
  BY DEF Partitions, SetToSeqs
<1> HIDE DEF S, n
<1>3. calls \in Injection(1 .. n, S)
  BY <1>2 DEF Injection, IsInjective
<1>4. Cardinality(1 .. n) = n
  BY <1>1, FS_Interval
<1>5. calls \in Surjection(1 .. n, S)
  BY <1>1, <1>3, <1>4, FS_Injection DEF n
<1>6. \A x \in S : \E j \in 1 .. n : calls[j] = x
  BY <1>5 DEF Surjection
<1>7. Range(calls) = S
  BY <1>2, <1>6 DEF Range
<1>8. QED  BY <1>7 DEF S

LEMMA Frame == IInv /\ UNCHANGED <<inst, inside>> => IInv'
  BY DEF IInv, InstTyped, Admission, IsReady

\* partition_pending, run on an instance i that nobody is inside of, leaves the calls
\* that have to wait.
LEMMA PartitionStep ==
  ASSUME NEW b \in Nat, NEW d \in BOOLEAN, NEW P, IsFiniteSet(P),
         NEW i, i = [backpressure |-> b, do_not_enter |-> d, pending |-> P],
         NEW calls \in Partitions(i),
         inst' = [i EXCEPT !.pending = @ \ Range(calls)]
  PROVE  /\ InstTyped' /\ inst'.backpressure = b /\ inst'.do_not_enter = d
         /\ \A call \in inst'.pending : ~IsReady(call, inst)'
<1>1. i.pending = P /\ i.do_not_enter = d /\ i.backpressure = b
  OBVIOUS
<1>2. Range(calls) = {call \in P : IsReady(call, i)}
  BY <1>1, PartitionsExact
<1>3. inst' = [backpressure |-> b, do_not_enter |-> d, pending |-> P \ Range(calls)]
  BY <1>1
<1>4. IsFiniteSet(P \ Range(calls))
  BY FS_Subset
<1>5. InstTyped'
  BY <1>3, <1>4 DEF InstTyped
<1>6. ASSUME NEW call \in inst'.pending PROVE ~IsReady(call, inst)'
  <2>1. call \in P /\ ~IsReady(call, i)
    BY <1>2, <1>3
  <2>2. QED  BY <1>1, <1>3, <2>1 DEF IsReady
<1>7. QED  BY <1>3, <1>5, <1>6

\* What the updates of an instance's record change.
LEMMA Updates ==
  ASSUME NEW b, NEW d, NEW P, NEW i, i = [backpressure |-> b, do_not_enter |-> d, pending |-> P],
         NEW e, NEW m
  PROVE  /\ [i EXCEPT !.do_not_enter = e]
              = [backpressure |-> b, do_not_enter |-> e, pending |-> P]
         /\ [i EXCEPT !.backpressure = m]
              = [backpressure |-> m, do_not_enter |-> d, pending |-> P]
  OBVIOUS

\* exit_instance, when the task had entered it.
LEMMA LeaveStep ==
  ASSUME IInv, NEW t, inside' = inside \ {t},
         IF t \in inside
         THEN \E calls \in Partitions(Exited) : inst' = [Exited EXCEPT !.pending = @ \ Range(calls)]
         ELSE inst' = inst
  PROVE  IInv'
<1>1. CASE t \notin inside
  <2>1. inside' = inside /\ inst' = inst
    BY <1>1
  <2>2. QED  BY <2>1, Frame
<1>2. CASE t \in inside
  <2>1. PICK calls \in Partitions(Exited) : inst' = [Exited EXCEPT !.pending = @ \ Range(calls)]
    BY <1>2
  <2>2. inside' = {}
    BY <1>2 DEF IInv, Admission
  <2>3. Exited = [backpressure |-> inst.backpressure, do_not_enter |-> FALSE,
                  pending |-> inst.pending]
    <3> DEFINE e == FALSE
    <3>1. Exited = [inst EXCEPT !.do_not_enter = e]
      BY DEF Exited
    <3>2. inst = [backpressure |-> inst.backpressure, do_not_enter |-> inst.do_not_enter,
                  pending |-> inst.pending]
      BY DEF IInv, InstTyped
    <3> HIDE DEF e
    <3>3. Exited = [backpressure |-> inst.backpressure, do_not_enter |-> e,
                    pending |-> inst.pending]
      BY <3>1, <3>2, Updates
    <3>4. QED  BY <3>3 DEF e
  <2>4. inst.backpressure \in Nat /\ IsFiniteSet(inst.pending) /\ FALSE \in BOOLEAN
    BY DEF IInv, InstTyped
  <2>5. /\ InstTyped' /\ inst'.do_not_enter = FALSE
        /\ \A call \in inst'.pending : ~IsReady(call, inst)'
    BY <2>1, <2>3, <2>4, PartitionStep
  <2>6. QED  BY <2>2, <2>5 DEF IInv, Admission
<1>3. QED  BY <1>1, <1>2

LEMMA EnterStep ==
  ASSUME IInv, NEW t, ~inst.do_not_enter, Enter(t)
  PROVE  IInv'
<1>1. inside = {}
  BY DEF IInv, Admission
<1>2. CASE c.task[t].lifted = "stackful"
  <2>1. UNCHANGED <<inst, inside>>
    BY <1>2 DEF Enter
  <2>2. QED  BY <2>1, Frame
<1>3. CASE c.task[t].lifted # "stackful"
  <2>1. inside' = {t} /\ inst' = [inst EXCEPT !.do_not_enter = TRUE]
    BY <1>1, <1>3 DEF Enter
  <2>2. inst' = [backpressure |-> inst.backpressure, do_not_enter |-> TRUE,
                 pending |-> inst.pending]
    BY <2>1 DEF IInv, InstTyped
  <2>3. InstTyped'
    BY <2>2 DEF IInv, InstTyped
  <2>4. Admission'
    BY <2>1, <2>2 DEF Admission, IsReady
  <2>5. QED  BY <2>3, <2>4 DEF IInv
<1>4. QED  BY <1>2, <1>3

LEMMA PostponeStep == IInv /\ Postpone => IInv'
<1> SUFFICES ASSUME IInv, Postpone PROVE IInv'
  OBVIOUS
<1>1. /\ ~IsReady(Item, inst) /\ inside' = inside
      /\ inst' = [inst EXCEPT !.pending = @ \cup {Item}]
  BY DEF Postpone
<1>2. inst' = [backpressure |-> inst.backpressure, do_not_enter |-> inst.do_not_enter,
               pending |-> inst.pending \cup {Item}]
  BY <1>1 DEF IInv, InstTyped
<1>3. IsFiniteSet(inst.pending \cup {Item})
  BY FS_AddElement DEF IInv, InstTyped
<1>4. InstTyped'
  BY <1>2, <1>3 DEF IInv, InstTyped
<1>5. Admission'
  BY <1>1, <1>2 DEF IInv, Admission, IsReady
<1>6. QED  BY <1>4, <1>5 DEF IInv

LEMMA CancelStartingStep ==
  ASSUME IInv, NEW t, CancelStarting(t)
  PROVE  IInv'
<1>1. inside' = inside /\ inst' = [inst EXCEPT !.pending = @ \ {Start(t)}]
  BY DEF CancelStarting
<1>2. inst' = [backpressure |-> inst.backpressure, do_not_enter |-> inst.do_not_enter,
               pending |-> inst.pending \ {Start(t)}]
  BY <1>1 DEF IInv, InstTyped
<1>3. IsFiniteSet(inst.pending \ {Start(t)})
  BY FS_RemoveElement DEF IInv, InstTyped
<1>4. InstTyped'
  BY <1>2, <1>3 DEF IInv, InstTyped
<1>5. Admission'
  BY <1>1, <1>2 DEF IInv, Admission, IsReady
<1>6. QED  BY <1>4, <1>5 DEF IInv

\* A task that leaves the instance and enters it again at once keeps all others out.
LEMMA CallbackAgainStep ==
  ASSUME IInv, NEW t, CallbackAgain(t)
  PROVE  IInv'
<1>1. PICK calls \in LetIn(t) :
        inside' = inside /\ inst' = [inst EXCEPT !.pending = @ \ Range(calls)]
  BY DEF CallbackAgain
<1>2. inst' = [backpressure |-> inst.backpressure, do_not_enter |-> inst.do_not_enter,
               pending |-> inst.pending \ Range(calls)]
  BY <1>1 DEF IInv, InstTyped
<1>3. IsFiniteSet(inst.pending \ Range(calls))
  BY FS_Subset DEF IInv, InstTyped
<1>4. InstTyped'
  BY <1>2, <1>3 DEF IInv, InstTyped
<1>5. Admission'
  BY <1>1, <1>2 DEF IInv, Admission, IsReady
<1>6. QED  BY <1>4, <1>5 DEF IInv

LEMMA BackpressureStep ==
  ASSUME IInv, NEW t, BackpressureInc(t) \/ BackpressureDec(t)
  PROVE  IInv'
<1>0. /\ inst = [backpressure |-> inst.backpressure, do_not_enter |-> inst.do_not_enter,
                 pending |-> inst.pending]
      /\ inst.backpressure \in Nat /\ inst.do_not_enter \in BOOLEAN /\ IsFiniteSet(inst.pending)
  BY DEF IInv, InstTyped
<1>1. CASE BackpressureInc(t)
  <2>1. inside' = inside /\ inst' = [inst EXCEPT !.backpressure = @ + 1]
    BY <1>1 DEF BackpressureInc
  <2>2. inst' = [backpressure |-> inst.backpressure + 1, do_not_enter |-> inst.do_not_enter,
                 pending |-> inst.pending]
    BY <2>1, <1>0
  <2>3. InstTyped'
    BY <2>2, <1>0 DEF InstTyped
  <2>4. Admission'
    BY <2>1, <2>2, <1>0 DEF IInv, Admission, IsReady
  <2>5. QED  BY <2>3, <2>4 DEF IInv
<1>2. CASE BackpressureDec(t)
  <2> DEFINE less == [inst EXCEPT !.backpressure = @ - 1]
             b == inst.backpressure - 1
  <2>1. /\ inst.backpressure > 0 /\ inside' = inside
        /\ IF less.backpressure = 0
           THEN \E calls \in Partitions(less) : inst' = [less EXCEPT !.pending = @ \ Range(calls)]
           ELSE inst' = less
    BY <1>2 DEF BackpressureDec
  <2>2. b \in Nat /\ less = [backpressure |-> b, do_not_enter |-> inst.do_not_enter,
                             pending |-> inst.pending]
    <3>1. inst.backpressure > 0
      BY <2>1
    <3>2. b \in Nat
      BY <3>1, <1>0
    <3>3. less = [inst EXCEPT !.backpressure = b]
      OBVIOUS
    <3> HIDE DEF less, b
    <3>4. QED  BY <3>2, <3>3, <1>0, Updates
  <2> HIDE DEF less
  <2>3. CASE less.backpressure = 0
    <3>1. PICK calls \in Partitions(less) : inst' = [less EXCEPT !.pending = @ \ Range(calls)]
      BY <2>1, <2>3
    <3> HIDE DEF b
    <3>2. /\ InstTyped' /\ inst'.do_not_enter = inst.do_not_enter
          /\ \A call \in inst'.pending : ~IsReady(call, inst)'
      BY <1>0, <2>2, <3>1, PartitionStep
    <3>3. QED  BY <2>1, <3>2 DEF IInv, Admission
  <2>4. CASE less.backpressure # 0
    <3>1. b # 0 /\ inst' = [backpressure |-> b, do_not_enter |-> inst.do_not_enter,
                            pending |-> inst.pending]
      BY <2>1, <2>2, <2>4
    <3>2. InstTyped'
      BY <1>0, <2>2, <3>1 DEF InstTyped
    <3>3. Admission'
      BY <2>1, <3>1, <1>0 DEF IInv, Admission, IsReady
    <3>4. QED  BY <3>2, <3>3 DEF IInv
  <2>5. QED  BY <2>3, <2>4
<1>3. QED  BY <1>1, <1>2

LEMMA InitIInv == Init => IInv
<1> SUFFICES ASSUME Init PROVE IInv
  OBVIOUS
<1>1. inst = [backpressure |-> 0, do_not_enter |-> FALSE, pending |-> {}] /\ inside = {}
  BY DEF Init
<1>2. QED  BY <1>1, FS_EmptySet DEF IInv, InstTyped, Admission

LEMMA CallerIInv == IInv /\ CallerStep => IInv'
<1> SUFFICES ASSUME IInv, CallerStep PROVE IInv'
  OBVIOUS
<1>1. CASE \E t \in Tasks, lifted \in Lifts, async \in BOOLEAN : StartCall(t, lifted, async)
  <2>1. UNCHANGED <<inst, inside>>
    BY <1>1 DEF StartCall
  <2>2. QED  BY <2>1, Frame
<1>2. CASE \E t \in Tasks, s \in {"set", None} : WaitableJoin(t, s)
  <2>1. UNCHANGED <<inst, inside>>
    BY <1>2 DEF WaitableJoin
  <2>2. QED  BY <2>1, Frame
<1>3. CASE SetReceive \/ SetWait
  <2>1. UNCHANGED <<inst, inside>>
    BY <1>3 DEF SetReceive, SetWait
  <2>2. QED  BY <2>1, Frame
<1>4. ASSUME NEW t \in Tasks, SubtaskDrop(t) \/ CancelStarting(t) \/ CancelResolved(t)
      PROVE  IInv'
  <2>1. CASE CancelStarting(t)
    BY <2>1, CancelStartingStep
  <2>2. CASE SubtaskDrop(t) \/ CancelResolved(t)
    <3>1. UNCHANGED <<inst, inside>>
      BY <2>2 DEF SubtaskDrop, CancelResolved
    <3>2. QED  BY <3>1, Frame
  <2>3. QED  BY <1>4, <2>1, <2>2
<1>5. CASE \E t \in Tasks, async \in BOOLEAN : SubtaskCancel(t, async)
  <2>1. UNCHANGED <<inst, inside>>
    BY <1>5 DEF SubtaskCancel
  <2>2. QED  BY <2>1, Frame
<1>6. QED  BY <1>1, <1>2, <1>3, <1>4, <1>5 DEF CallerStep

LEMMA LoopIInv == IInv /\ LoopStep => IInv'
<1> SUFFICES ASSUME IInv, LoopStep PROVE IInv'
  OBVIOUS
<1>1. CASE RunStart \/ RunDeliver
  <2>1. ~inst.do_not_enter /\ Enter(Item.thread)
    BY <1>1 DEF RunStart, RunDeliver, IsReady
  <2>2. QED  BY <2>1, EnterStep
<1>2. CASE Postpone
  BY <1>2, PostponeStep
<1>3. CASE ResumeCall \/ ResumeWait \/ ResumeYield \/ ResumeCancel \/ ResumeTask \/ HostComplete
  <2>1. UNCHANGED <<inst, inside>>
    BY <1>3 DEF ResumeCall, ResumeWait, ResumeYield, ResumeCancel, ResumeTask, HostComplete
  <2>2. QED  BY <2>1, Frame
<1>4. QED  BY <1>1, <1>2, <1>3 DEF LoopStep

LEMMA CalleeIInv ==
  ASSUME IInv, NEW t \in Tasks, CalleeStep(t) \/ HostReady(t)
  PROVE  IInv'
<1>1. CASE Exit(t) \/ ReturnSync(t) \/ CallbackYield(t) \/ CallbackWait(t)
  <2>1. inside' = inside \ {t}
    BY <1>1 DEF Exit, ReturnSync, CallbackYield, CallbackWait, Leave, LetIn
  <2>2. IF t \in inside
        THEN \E calls \in Partitions(Exited) : inst' = [Exited EXCEPT !.pending = @ \ Range(calls)]
        ELSE inst' = inst
    BY <1>1 DEF Exit, ReturnSync, CallbackYield, CallbackWait, Leave, LetIn
  <2>3. QED  BY <2>1, <2>2, LeaveStep
<1>2. CASE \E cancellable \in BOOLEAN : TaskWait(t, cancellable) \/ ThreadYield(t, cancellable)
  <2>1. UNCHANGED <<inst, inside>>
    BY <1>2 DEF TaskWait, ThreadYield
  <2>2. QED  BY <2>1, Frame
<1>3. CASE BackpressureInc(t) \/ BackpressureDec(t)
  BY <1>3, BackpressureStep
<1>4. CASE TaskReturn(t) \/ TaskCancel(t) \/ HostCall(t) \/ HostReady(t)
  <2>1. UNCHANGED <<inst, inside>>
    BY <1>4 DEF TaskReturn, TaskCancel, HostCall, HostReady
  <2>2. QED  BY <2>1, Frame
<1>5. CASE CallbackAgain(t)
  BY <1>5, CallbackAgainStep
<1>6. QED  BY <1>1, <1>2, <1>3, <1>4, <1>5 DEF CalleeStep, GiveBack

LEMMA NextIInv == IInv /\ [Next]_vars => IInv'
<1> SUFFICES ASSUME IInv, [Next]_vars PROVE IInv'
  OBVIOUS
<1>1. CASE CallerStep
  BY <1>1, CallerIInv
<1>2. CASE LoopStep
  BY <1>2, LoopIInv
<1>3. ASSUME NEW t \in Tasks, CalleeStep(t) \/ HostReady(t) PROVE IInv'
  BY <1>3, CalleeIInv
<1>4. CASE UNCHANGED vars
  <2>1. UNCHANGED <<inst, inside>>
    BY <1>4 DEF vars
  <2>2. QED  BY <2>1, Frame
<1>5. QED  BY <1>1, <1>2, <1>3, <1>4 DEF Next

\* Whatever the components do, and however many calls are made, the instance admits at
\* most one task that needs it for itself, its do_not_enter flag says exactly whether one
\* is inside, and no call is left in `pending` that handle_guest_call would let in.
THEOREM AdmissionHolds == Spec => []Admission
<1>1. IInv => Admission
  BY DEF IInv
<1>2. QED  BY <1>1, InitIInv, NextIInv, PTL DEF Spec

=============================================================================
