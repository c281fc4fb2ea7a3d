-------------------------- MODULE ParkingSpotProofs --------------------------
(* Proofs about ParkingSpot, for any number of threads, addresses and values. *)
EXTENDS ParkingSpot, FiniteSetTheorems, TLAPS

CallRecord == [key : Addrs \cup {Nil}, expected : Values \cup {Nil},
               deadline : Deadlines, n : Nat, unparked : Nat]

\* TypeOK without the sign of owed, which needs WakeConservation.
Typed ==
  /\ mem \in [Addrs -> Values]
  /\ lock \in Links
  /\ spot \in [Addrs -> [head : Links, tail : Links]]
  /\ next \in [Threads -> Links] /\ prev \in [Threads -> Links]
  /\ notified \in [Threads -> BOOLEAN] /\ token \in [Threads -> BOOLEAN]
  /\ pc \in [Threads -> {"idle"} \cup WaitPC \cup NotifyPC]
  /\ call \in [Threads -> CallRecord]
  /\ \A t \in Threads : pc[t] # "idle" => Key(t) \in Addrs
  /\ calls \in [Threads -> Nat] /\ spurious \in Nat
  /\ owed \in Int

LEMMA PushTyped ==
  ASSUME Typed, NEW w \in Threads, NEW a \in Addrs, Push(w, a)
  PROVE  /\ spot' \in [Addrs -> [head : Links, tail : Links]]
         /\ next' \in [Threads -> Links] /\ prev' \in [Threads -> Links]
  BY DEF Typed, Push, Links

LEMMA RemoveTyped ==
  ASSUME Typed, NEW w \in Threads, NEW a \in Addrs, Remove(w, a)
  PROVE  /\ spot' \in [Addrs -> [head : Links, tail : Links]]
         /\ next' \in [Threads -> Links] /\ prev' \in [Threads -> Links]
  BY DEF Typed, Remove, Links

LEMMA EnterTyped ==
  ASSUME Typed, NEW t \in Threads, NEW from, NEW to \in {"idle", "wait_lock", "notify_lock"},
         NEW args \in CallRecord, to # "idle" => args.key \in Addrs,
         Enter(t, from, to, args)
  PROVE  Typed'
  BY DEF Typed, Enter, Goto, list, Key, WaitPC, NotifyPC

LEMMA CallUpdate ==
  ASSUME NEW c \in [Threads -> CallRecord], NEW t \in Threads
  PROVE  LET d == [c EXCEPT ![t].unparked = @ + 1]
             e == [c EXCEPT ![t].deadline = "reached"]
         IN  /\ d \in [Threads -> CallRecord] /\ e \in [Threads -> CallRecord]
             /\ \A u \in Threads : d[u].key = c[u].key /\ e[u].key = c[u].key
  BY DEF CallRecord, Deadlines

LEMMA TypedStep == Typed /\ [Next]_vars => Typed'
<1> SUFFICES ASSUME Typed, [Next]_vars PROVE Typed'
  OBVIOUS
<1> USE ParkingSpotAssumption
<1> USE DEF Goto, Return, Key, list, bound, WaitPC, NotifyPC, Deadlines
<1>0. NoCall \in CallRecord
  BY DEF NoCall, CallRecord
<1>1. ASSUME NEW t \in Threads, Step(t) PROVE Typed'
  <2>1. CASE WaitLock(t)      BY <2>1 DEF Typed, WaitLock, Links
  <2>2. CASE Validate(t)      BY <2>2, <1>0 DEF Typed, Validate, Links
  <2>3. CASE Enqueue(t)
    <3>1. Key(t) \in Addrs /\ Push(t, Key(t))  BY <2>3 DEF Typed, Enqueue
    <3>2. /\ spot' \in [Addrs -> [head : Links, tail : Links]]
          /\ next' \in [Threads -> Links] /\ prev' \in [Threads -> Links]
      BY <3>1, PushTyped
    <3>3. QED  BY <2>3, <3>2 DEF Typed, Enqueue
  <2>4. CASE CheckDeadline(t)
    <3>1. CASE call[t].deadline = "reached"
      <4>1. Key(t) \in Addrs /\ Remove(t, Key(t))  BY <2>4, <3>1 DEF Typed, CheckDeadline
      <4>2. /\ spot' \in [Addrs -> [head : Links, tail : Links]]
            /\ next' \in [Threads -> Links] /\ prev' \in [Threads -> Links]
        BY <4>1, RemoveTyped
      <4>3. /\ lock' = Nil /\ pc' = [pc EXCEPT ![t] = "idle"]
            /\ call' = [call EXCEPT ![t] = NoCall]
            /\ UNCHANGED <<mem, notified, token, calls, spurious, owed>>
        BY <2>4, <3>1 DEF CheckDeadline
      <4>4. QED  BY <4>2, <4>3, <1>0 DEF Typed, Links
    <3>2. CASE call[t].deadline # "reached"  BY <2>4, <3>2 DEF Typed, CheckDeadline, Links
    <3>3. QED  BY <3>1, <3>2
  <2>5. CASE ParkToken(t)     BY <2>5 DEF Typed, ParkToken
  <2>6. CASE ParkTimeout(t)   BY <2>6 DEF Typed, ParkTimeout
  <2>7. CASE Relock(t)        BY <2>7, <1>0 DEF Typed, Relock, Links
  <2>8. CASE NotifyLock(t)    BY <2>8 DEF Typed, NotifyLock, Links
  <2>9. CASE NotifyPop(t)
    <3>1. PICK head \in Threads : /\ head = spot[Key(t)].head
                                  /\ Key(t) \in Addrs /\ Remove(head, Key(t))
      BY <2>9 DEF Typed, NotifyPop, Links
    <3>2. call' \in [Threads -> CallRecord] /\ \A u \in Threads : call'[u].key = call[u].key
      BY <2>9, CallUpdate DEF Typed, NotifyPop
    <3>3. /\ spot' \in [Addrs -> [head : Links, tail : Links]]
          /\ next' \in [Threads -> Links] /\ prev' \in [Threads -> Links]
      BY <3>1, RemoveTyped
    <3>4. QED  BY <2>9, <3>1, <3>2, <3>3 DEF Typed, NotifyPop
  <2>10. CASE NotifyEmpty(t)  BY <2>10 DEF Typed, NotifyEmpty
  <2>11. CASE NotifyReturn(t)
    <3>1. call[t].unparked \in Nat  BY DEF Typed, CallRecord
    <3>2. QED  BY <2>11, <1>0, <3>1 DEF Typed, NotifyReturn, Links
  <2>12. QED  BY <1>1, <2>1, <2>2, <2>3, <2>4, <2>5, <2>6, <2>7, <2>8, <2>9, <2>10, <2>11 DEF Step
<1>2. ASSUME NEW t \in Threads, Call(t) PROVE Typed'
  <2>1. PICK a \in Addrs :
          \/ \E v \in Values, d \in {"none", "ahead"} : WaitCall(t, a, v, d)
          \/ \E n \in 0..MaxN : NotifyCall(t, a, n)
          \/ \E v \in Values : Store(t, a, v)
    BY <1>2 DEF Call
  <2>2. ASSUME NEW v \in Values, NEW d \in {"none", "ahead"}, WaitCall(t, a, v, d) PROVE Typed'
    <3>1. WaitArgs(a, v, d) \in CallRecord /\ WaitArgs(a, v, d).key \in Addrs
      BY DEF WaitArgs, CallRecord
    <3>2. QED  BY <2>2, <3>1, EnterTyped DEF WaitCall
  <2>3. ASSUME NEW n \in 0..MaxN, NotifyCall(t, a, n) PROVE Typed'
    <3>1. NotifyArgs(a, n) \in CallRecord /\ NotifyArgs(a, n).key \in Addrs
      BY DEF NotifyArgs, CallRecord
    <3>2. QED  BY <2>3, <1>0, <3>1, EnterTyped DEF NotifyCall
  <2>4. ASSUME NEW v \in Values, Store(t, a, v) PROVE Typed'
    BY <2>4 DEF Typed, Store
  <2>5. QED  BY <2>1, <2>2, <2>3, <2>4
<1>3. ASSUME NEW t \in Threads, Tick(t) PROVE Typed'
  <2>1. call' \in [Threads -> CallRecord] /\ \A u \in Threads : call'[u].key = call[u].key
    BY <1>3, CallUpdate DEF Typed, Tick
  <2>2. QED  BY <1>3, <2>1 DEF Typed, Tick
<1>4. ASSUME NEW t \in Threads, ParkSpurious(t) PROVE Typed'
  BY <1>4 DEF Typed, ParkSpurious
<1>5. CASE UNCHANGED vars
  BY <1>5 DEF Typed, vars
<1>6. QED  BY <1>1, <1>2, <1>3, <1>4, <1>5 DEF Next

-----------------------------------------------------------------------------
(* The mutex *)

LEMMA LockStep == Typed /\ LockInv /\ [Next]_vars => LockInv'
<1> SUFFICES ASSUME Typed, LockInv, [Next]_vars PROVE LockInv'
  OBVIOUS
<1> USE ParkingSpotAssumption
<1> USE DEF Typed, LockInv, Holding, Goto, Return, Links
<1>1. ASSUME NEW t \in Threads, Step(t) PROVE LockInv'
  <2>1. CASE WaitLock(t)       BY <2>1 DEF WaitLock
  <2>2. CASE Validate(t)       BY <2>2 DEF Validate
  <2>3. CASE Enqueue(t)        BY <2>3 DEF Enqueue
  <2>4. CASE CheckDeadline(t)  BY <2>4 DEF CheckDeadline
  <2>5. CASE ParkToken(t)      BY <2>5 DEF ParkToken
  <2>6. CASE ParkTimeout(t)    BY <2>6 DEF ParkTimeout
  <2>7. CASE Relock(t)         BY <2>7 DEF Relock
  <2>8. CASE NotifyLock(t)     BY <2>8 DEF NotifyLock
  <2>9. CASE NotifyPop(t)      BY <2>9 DEF NotifyPop
  <2>10. CASE NotifyEmpty(t)   BY <2>10 DEF NotifyEmpty
  <2>11. CASE NotifyReturn(t)  BY <2>11 DEF NotifyReturn
  <2>12. QED  BY <1>1, <2>1, <2>2, <2>3, <2>4, <2>5, <2>6, <2>7, <2>8, <2>9, <2>10, <2>11 DEF Step
<1>2. ASSUME NEW t \in Threads, Call(t) PROVE LockInv'
  BY <1>2 DEF Call, WaitCall, NotifyCall, Enter, Store
<1>3. ASSUME NEW t \in Threads, Tick(t) PROVE LockInv'
  BY <1>3 DEF Tick
<1>4. ASSUME NEW t \in Threads, ParkSpurious(t) PROVE LockInv'
  BY <1>4 DEF ParkSpurious
<1>5. CASE UNCHANGED vars
  BY <1>5 DEF vars
<1>6. QED  BY <1>1, <1>2, <1>3, <1>4, <1>5 DEF Next

-----------------------------------------------------------------------------
(* The waiter lists *)

Lists == AssertsHold /\ ListInv

\* A step that leaves the links alone and changes neither who is queued nor on what.
LEMMA ListFrame ==
  ASSUME Typed, Lists, UNCHANGED list,
         \A u \in Threads : Queued(u)' <=> Queued(u),
         \A u \in Threads : Queued(u) => Key(u)' = Key(u)
  PROVE  Lists'
<1> USE ParkingSpotAssumption DEF Typed, Lists, list, Links
<1>1. AssertsHold'
  BY DEF AssertsHold
<1>2. ListInv'
  BY DEF ListInv, AssertsHold
<1>3. QED  BY <1>1, <1>2

\* Appending a thread that was in no list.
LEMMA PushLists ==
  ASSUME Typed, Lists, NEW w \in Threads, NEW a \in Addrs, ~Queued(w), Push(w, a),
         \A u \in Threads : Queued(u)' <=> (Queued(u) \/ u = w),
         \A u \in Threads : Queued(u) => Key(u)' = Key(u),
         Key(w)' = a
  PROVE  Lists'
<1> USE ParkingSpotAssumption DEF Typed, Lists, Links, Push
<1>1. AssertsHold'
  BY PushTyped DEF AssertsHold, ListInv
<1>2. \A t, u \in Threads : next'[t] = u <=> prev'[u] = t
  BY PushTyped DEF AssertsHold, ListInv
<1>3. \A t \in Threads : next'[t] # Nil => Key(next[t])' = Key(t)'
  BY PushTyped DEF AssertsHold, ListInv
<1>4. \A b \in Addrs :
        /\ spot'[b].head = Nil <=> spot'[b].tail = Nil
        /\ spot'[b].head # Nil =>
             /\ Queued(spot[b].head)' /\ Queued(spot[b].tail)'
             /\ Key(spot[b].head)' = b /\ Key(spot[b].tail)' = b
             /\ prev'[spot'[b].head] = Nil /\ next'[spot'[b].tail] = Nil
  <2> TAKE b \in Addrs
  <2>1. CASE b # a
    <3>1. spot'[b] = spot[b]
      BY <2>1
    <3>2. spot[b].head # Nil => /\ spot[b].head \in Threads /\ spot[b].tail \in Threads
                               /\ Queued(spot[b].head) /\ Queued(spot[b].tail)
                               /\ Key(spot[b].head) = b /\ Key(spot[b].tail) = b
                               /\ prev[spot[b].head] = Nil /\ next[spot[b].tail] = Nil
      BY DEF ListInv
    <3>3. spot[b].head # Nil => spot[b].tail # spot[a].tail
      BY <2>1, <3>2 DEF ListInv
    <3>4. spot[b].head = Nil <=> spot[b].tail = Nil
      BY DEF ListInv
    <3>5. QED  BY <3>1, <3>2, <3>3, <3>4
  <2>2. CASE b = a
    <3>1. /\ spot'[a].tail = w
          /\ spot'[a].head = IF spot[a].head = Nil THEN w ELSE spot[a].head
      BY DEF ListInv
    <3>2. next'[w] = Nil /\ prev'[w] = spot[a].tail
      BY DEF AssertsHold, ListInv
    <3>3. spot[a].head # Nil => /\ spot[a].head \in Threads \ {w} /\ Queued(spot[a].head)
                               /\ Key(spot[a].head) = a /\ prev[spot[a].head] = Nil
      BY DEF ListInv
    <3>4. spot[a].head = Nil => spot[a].tail = Nil
      BY DEF ListInv
    <3>5. QED  BY <2>2, <3>1, <3>2, <3>3, <3>4
  <2>3. QED  BY <2>1, <2>2
<1>5. \A t \in Threads : Queued(t)' =>
        /\ prev'[t] = Nil => spot'[Key(t)'].head = t
        /\ next'[t] = Nil => spot'[Key(t)'].tail = t
  BY PushTyped DEF AssertsHold, ListInv
<1>6. QED  BY <1>1, <1>2, <1>3, <1>4, <1>5 DEF Lists, ListInv

\* Unlinking a queued thread, from the head, the middle or the tail.
LEMMA RemoveLists ==
  ASSUME Typed, Lists, NEW w \in Threads, NEW a \in Addrs, Queued(w), Key(w) = a, Remove(w, a),
         \A u \in Threads : Queued(u)' <=> (Queued(u) /\ u # w),
         \A u \in Threads : Queued(u)' => Key(u)' = Key(u)
  PROVE  Lists'
<1> USE ParkingSpotAssumption
<1>0. /\ spot \in [Addrs -> [head : Links, tail : Links]]
      /\ next \in [Threads -> Links] /\ prev \in [Threads -> Links]
      /\ spot' \in [Addrs -> [head : Links, tail : Links]]
      /\ next' \in [Threads -> Links] /\ prev' \in [Threads -> Links]
  BY RemoveTyped DEF Typed
<1>1. AssertsHold'
  BY <1>0 DEF Lists, AssertsHold, ListInv, Links, Remove
<1>2. \A t, u \in Threads : next'[t] = u <=> prev'[u] = t
  BY <1>0 DEF Lists, AssertsHold, ListInv, Links, Remove
<1>3. \A t \in Threads : next'[t] # Nil => Key(next[t])' = Key(t)'
  BY <1>0 DEF Lists, AssertsHold, ListInv, Links, Remove
<1>4. ASSUME NEW b \in Addrs
      PROVE  /\ spot'[b].head = Nil <=> spot'[b].tail = Nil
             /\ spot'[b].head # Nil =>
                  /\ Queued(spot[b].head)' /\ Queued(spot[b].tail)'
                  /\ Key(spot[b].head)' = b /\ Key(spot[b].tail)' = b
                  /\ prev'[spot'[b].head] = Nil /\ next'[spot'[b].tail] = Nil
  <2>0. next[w] \in Links /\ prev[w] \in Links /\ spot[b].head \in Links /\ spot[b].tail \in Links
    BY <1>0
  <2>1. CASE b # a
    <3>1. spot'[b] = spot[b]
      BY <1>0, <2>1 DEF Remove
    <3>2. QED  BY <1>0, <2>0, <2>1, <3>1 DEF Lists, AssertsHold, ListInv, Links, Remove
  <2>2. CASE b = a
    <3>1. /\ spot'[b].head = IF prev[w] = Nil THEN next[w] ELSE spot[b].head
          /\ spot'[b].tail = IF next[w] = Nil THEN prev[w] ELSE spot[b].tail
      BY <1>0, <2>2 DEF Remove
    <3>2. /\ prev[w] = Nil => spot[b].head = w
          /\ next[w] = Nil => spot[b].tail = w
          /\ prev[w] # Nil => spot[b].head # w
          /\ next[w] # Nil => spot[b].tail # w
          /\ spot[b].head = Nil <=> spot[b].tail = Nil
      <4>1. /\ prev[w] = Nil => spot[b].head = w
            /\ next[w] = Nil => spot[b].tail = w
        BY <2>2 DEF Lists, ListInv
      <4>2. spot[b].head # Nil => prev[spot[b].head] = Nil /\ next[spot[b].tail] = Nil
        BY DEF Lists, ListInv
      <4>3. spot[b].head = Nil <=> spot[b].tail = Nil
        BY DEF Lists, ListInv
      <4>4. QED  BY <4>1, <4>2, <4>3
    <3>3. /\ prev[w] # Nil => Queued(prev[w]) /\ Key(prev[w]) = a /\ next[prev[w]] = w
          /\ next[w] # Nil => Queued(next[w]) /\ Key(next[w]) = a /\ prev[next[w]] = w
      BY <1>0, <2>0 DEF Lists, ListInv, AssertsHold, Links
    <3>4. spot[b].head # Nil =>
            /\ spot[b].head \in Threads /\ spot[b].tail \in Threads
            /\ Queued(spot[b].head) /\ Queued(spot[b].tail)
            /\ Key(spot[b].head) = b /\ Key(spot[b].tail) = b
            /\ prev[spot[b].head] = Nil /\ next[spot[b].tail] = Nil
      BY <2>0, <3>2 DEF Lists, ListInv, Links
    <3>5. spot'[b].head # Nil /\ spot'[b].tail # Nil =>
            /\ Queued(spot[b].head)' /\ Queued(spot[b].tail)'
            /\ Key(spot[b].head)' = b /\ Key(spot[b].tail)' = b
      <4>1. spot'[b].head # Nil => /\ spot'[b].head \in Threads \ {w}
                                   /\ Queued(spot'[b].head) /\ Key(spot'[b].head) = b
        BY <2>0, <2>2, <3>1, <3>2, <3>3, <3>4, <1>0 DEF Links, Lists, ListInv
      <4>2. spot'[b].tail # Nil => /\ spot'[b].tail \in Threads \ {w}
                                   /\ Queued(spot'[b].tail) /\ Key(spot'[b].tail) = b
        BY <2>0, <2>2, <3>1, <3>2, <3>3, <3>4, <1>0 DEF Links, Lists, ListInv
      <4>3. QED  BY <4>1, <4>2
    <3>6. spot'[b].head = Nil <=> spot'[b].tail = Nil
      BY <3>1, <3>2, <3>4
    <3>7. spot'[b].head # Nil => prev'[spot'[b].head] = Nil /\ next'[spot'[b].tail] = Nil
      BY <1>0, <2>0, <3>1, <3>2, <3>3, <3>4 DEF Remove, Links
    <3>8. QED  BY <3>5, <3>6, <3>7
  <2>3. QED  BY <2>1, <2>2
<1>5. ASSUME NEW t \in Threads, Queued(t)'
      PROVE  /\ prev'[t] = Nil => spot'[Key(t)'].head = t
             /\ next'[t] = Nil => spot'[Key(t)'].tail = t
  BY <1>0, <1>5 DEF Lists, AssertsHold, ListInv, Links, Remove, Typed
<1>6. QED  BY <1>1, <1>2, <1>3, <1>4, <1>5 DEF Lists, ListInv

\* What the list lemmas need of the program counters, and what a notify that ran out
\* of waiters knows.
Locals ==
  \A t \in Threads :
    /\ pc[t] = "deadline" => ~notified[t]
    /\ pc[t] = "notify_lock" => call[t].unparked = 0 /\ call[t].n > 0
    /\ (pc[t] = "notify_done" /\ call[t].unparked < call[t].n) => spot[Key(t)].head = Nil

LEMMA ListStep == Typed /\ LockInv /\ Locals /\ Lists /\ [Next]_vars => Lists'
<1> SUFFICES ASSUME Typed, LockInv, Locals, Lists, [Next]_vars PROVE Lists'
  OBVIOUS
<1> USE ParkingSpotAssumption
<1> DEFINE Frame == /\ UNCHANGED list
                    /\ \A u \in Threads : Queued(u)' <=> Queued(u)
                    /\ \A u \in Threads : Queued(u) => Key(u)' = Key(u)
<1>0. Frame => Lists'
  BY ListFrame
<1>1. ASSUME NEW t \in Threads, Step(t) PROVE Lists'
  <2> USE DEF Queued, Pushed, Goto, Return, Key
  <2>1. CASE WaitLock(t)
    <3>1. Frame  BY <2>1 DEF WaitLock, Typed
    <3>2. QED  BY <3>1, <1>0
  <2>2. CASE Validate(t)
    <3>1. Frame  BY <2>2 DEF Validate, Typed
    <3>2. QED  BY <3>1, <1>0
  <2>3. CASE Enqueue(t)
    <3>1. /\ Key(t) \in Addrs /\ Push(t, Key(t)) /\ ~Queued(t) /\ Key(t)' = Key(t)
          /\ \A u \in Threads : Queued(u)' <=> (Queued(u) \/ u = t)
          /\ \A u \in Threads : Queued(u) => Key(u)' = Key(u)
      BY <2>3 DEF Enqueue, Typed
    <3> HIDE DEF Queued, Key
    <3>2. QED  BY <3>1, PushLists
  <2>4. CASE CheckDeadline(t)
    <3>1. CASE call[t].deadline = "reached"
      <4>1. /\ Key(t) \in Addrs /\ Remove(t, Key(t)) /\ Queued(t)
            /\ \A u \in Threads : Queued(u)' <=> (Queued(u) /\ u # t)
            /\ \A u \in Threads : Queued(u)' => Key(u)' = Key(u)
        BY <2>4, <3>1 DEF CheckDeadline, Typed, Locals
      <4> HIDE DEF Queued, Key
      <4>2. QED  BY <4>1, RemoveLists
    <3>2. CASE call[t].deadline # "reached"
      <4>1. Frame  BY <2>4, <3>2 DEF CheckDeadline, Typed
      <4>2. QED  BY <4>1, <1>0
    <3>3. QED  BY <3>1, <3>2
  <2>5. CASE ParkToken(t)
    <3>1. Frame  BY <2>5 DEF ParkToken, Typed
    <3>2. QED  BY <3>1, <1>0
  <2>6. CASE ParkTimeout(t)
    <3>1. Frame  BY <2>6 DEF ParkTimeout, Typed
    <3>2. QED  BY <3>1, <1>0
  <2>7. CASE Relock(t)
    <3>1. Frame  BY <2>7 DEF Relock, Typed
    <3>2. QED  BY <3>1, <1>0
  <2>8. CASE NotifyLock(t)
    <3>1. Frame  BY <2>8 DEF NotifyLock, Typed
    <3>2. QED  BY <3>1, <1>0
  <2>9. CASE NotifyPop(t)
    <3>1. PICK w \in Threads : w = spot[Key(t)].head /\ Key(t) \in Addrs
      BY <2>9 DEF NotifyPop, Typed, Links
    <3>2. Queued(w) /\ Key(w) = Key(t) /\ Remove(w, Key(t))
      BY <2>9, <3>1 DEF NotifyPop, Lists, ListInv
    <3>3. /\ \A u \in Threads : Queued(u)' <=> (Queued(u) /\ u # w)
          /\ \A u \in Threads : Queued(u)' => Key(u)' = Key(u)
      <4>1. /\ notified' = [notified EXCEPT ![w] = TRUE]
            /\ call' = [call EXCEPT ![t].unparked = @ + 1]
            /\ \A u \in Threads : Pushed(u)' <=> Pushed(u)
        BY <2>9, <3>1 DEF NotifyPop, Typed
      <4>2. \A u \in Threads : Key(u)' = Key(u)
        BY <4>1, CallUpdate DEF Typed
      <4>3. QED  BY <4>1, <4>2 DEF Typed
    <3> HIDE DEF Queued, Key
    <3>4. QED  BY <3>1, <3>2, <3>3, RemoveLists
  <2>10. CASE NotifyEmpty(t)
    <3>1. Frame  BY <2>10 DEF NotifyEmpty, Typed
    <3>2. QED  BY <3>1, <1>0
  <2>11. CASE NotifyReturn(t)
    <3>1. Frame  BY <2>11 DEF NotifyReturn, Typed
    <3>2. QED  BY <3>1, <1>0
  <2>12. QED  BY <1>1, <2>1, <2>2, <2>3, <2>4, <2>5, <2>6, <2>7, <2>8, <2>9, <2>10, <2>11 DEF Step
<1>2. ASSUME NEW t \in Threads, Call(t) PROVE Lists'
  <2>1. Frame
    BY <1>2 DEF Call, WaitCall, NotifyCall, Enter, Store, Typed, Queued, Pushed, Goto, Key
  <2>2. QED  BY <2>1, <1>0
<1>3. ASSUME NEW t \in Threads, Tick(t) PROVE Lists'
  <2>1. \A u \in Threads : Key(u)' = Key(u)
    BY <1>3, CallUpdate DEF Tick, Typed, Key
  <2>2. Frame
    BY <1>3, <2>1 DEF Tick, Queued, Pushed
  <2>3. QED  BY <2>2, <1>0
<1>4. ASSUME NEW t \in Threads, ParkSpurious(t) PROVE Lists'
  <2>1. Frame
    BY <1>4 DEF ParkSpurious, Typed, Queued, Pushed, Goto, Key
  <2>2. QED  BY <2>1, <1>0
<1>5. CASE UNCHANGED vars
  <2>1. Frame
    BY <1>5 DEF vars, Queued, Pushed, Key
  <2>2. QED  BY <2>1, <1>0
<1>6. QED  BY <1>1, <1>2, <1>3, <1>4, <1>5 DEF Next

\* The part of Locals and AtMostN that is about one thread.
LocalsOf(t) ==
  /\ pc[t] = "deadline" => ~notified[t]
  /\ pc[t] = "notify_lock" => call[t].unparked = 0 /\ call[t].n > 0
  /\ (pc[t] = "notify_done" /\ call[t].unparked < call[t].n) => spot[Key(t)].head = Nil
  /\ Notifying(t) => call[t].unparked <= call[t].n
  /\ pc[t] = "notify" => call[t].unparked < call[t].n

\* A step of t outside the loop of notify: the others are left alone, and t is not
\* left where LocalsOf says something.
LEMMA LocalsFrame ==
  ASSUME NEW t \in Threads, \A u \in Threads : LocalsOf(u),
         \A u \in Threads \ {t} : pc'[u] = pc[u] /\ notified'[u] = notified[u] /\ call'[u] = call[u],
         (\A u \in Threads \ {t} : pc[u] # "notify_done") \/ spot' = spot,
         pc'[t] \in {"idle", "wait_lock", "validate", "enqueue", "park", "relock"}
  PROVE  \A u \in Threads : LocalsOf(u)'
  BY DEF LocalsOf, Notifying, Key

LEMMA LocalsStep ==
  Typed /\ LockInv /\ Lists /\ Locals /\ AtMostN /\ [Next]_vars => Locals' /\ AtMostN'
<1> SUFFICES ASSUME Typed, LockInv, Lists, \A u \in Threads : LocalsOf(u), [Next]_vars
             PROVE  \A u \in Threads : LocalsOf(u)'
  BY DEF Locals, AtMostN, LocalsOf, Notifying
<1> USE ParkingSpotAssumption
<1>0. /\ pc \in [Threads -> {"idle"} \cup WaitPC \cup NotifyPC]
      /\ notified \in [Threads -> BOOLEAN] /\ call \in [Threads -> CallRecord]
      /\ \A u \in Threads : call[u].n \in Nat /\ call[u].unparked \in Nat
  BY DEF Typed, CallRecord
<1>00. \A u \in Threads : Holding(u) <=> lock = u
  BY DEF LockInv
<1>1. ASSUME NEW t \in Threads, Step(t) PROVE \A u \in Threads : LocalsOf(u)'
  <2> USE <1>0 DEF Goto, Return, list
  <2>1. CASE WaitLock(t)
    <3>1. pc'[t] = "validate" /\ spot' = spot  BY <2>1 DEF WaitLock
    <3>2. \A u \in Threads \ {t} : pc'[u] = pc[u] /\ notified'[u] = notified[u] /\ call'[u] = call[u]
      BY <2>1 DEF WaitLock
    <3>3. QED  BY <3>1, <3>2, LocalsFrame
  <2>2. CASE Validate(t)
    <3>1. pc'[t] \in {"enqueue", "idle"} /\ spot' = spot  BY <2>2 DEF Validate
    <3>2. \A u \in Threads \ {t} : pc'[u] = pc[u] /\ notified'[u] = notified[u] /\ call'[u] = call[u]
      BY <2>2 DEF Validate
    <3>3. QED  BY <3>1, <3>2, LocalsFrame
  <2>3. CASE Enqueue(t)
    <3>1. /\ pc' = [pc EXCEPT ![t] = "deadline"] /\ call' = call
          /\ notified' = [notified EXCEPT ![t] = FALSE]
      BY <2>3 DEF Enqueue
    <3>2. \A u \in Threads : pc[u] # "notify_done"
      BY <2>3, <1>00 DEF Enqueue, Holding
    <3>3. QED  BY <3>1, <3>2 DEF LocalsOf, Notifying
  <2>4. CASE CheckDeadline(t)
    <3>1. pc'[t] \in {"park", "idle"}  BY <2>4 DEF CheckDeadline
    <3>2. \A u \in Threads \ {t} : pc'[u] = pc[u] /\ notified'[u] = notified[u] /\ call'[u] = call[u]
      BY <2>4 DEF CheckDeadline
    <3>3. \A u \in Threads : pc[u] # "notify_done"
      BY <2>4, <1>00 DEF CheckDeadline, Holding
    <3>4. QED  BY <3>1, <3>2, <3>3, LocalsFrame
  <2>5. CASE ParkToken(t) \/ ParkTimeout(t)
    <3>1. pc'[t] = "relock" /\ spot' = spot  BY <2>5 DEF ParkToken, ParkTimeout
    <3>2. \A u \in Threads \ {t} : pc'[u] = pc[u] /\ notified'[u] = notified[u] /\ call'[u] = call[u]
      BY <2>5 DEF ParkToken, ParkTimeout
    <3>3. QED  BY <3>1, <3>2, LocalsFrame
  <2>6. CASE Relock(t)
    <3>1. CASE notified[t]
      <4>1. pc'[t] = "idle" /\ spot' = spot  BY <2>6, <3>1 DEF Relock
      <4>2. \A u \in Threads \ {t} : pc'[u] = pc[u] /\ notified'[u] = notified[u] /\ call'[u] = call[u]
        BY <2>6, <3>1 DEF Relock
      <4>3. QED  BY <4>1, <4>2, LocalsFrame
    <3>2. CASE ~notified[t]
      <4>1. /\ pc' = [pc EXCEPT ![t] = "deadline"] /\ call' = call
            /\ notified' = notified /\ spot' = spot
        BY <2>6, <3>2 DEF Relock
      <4>2. QED  BY <4>1, <3>2 DEF LocalsOf, Notifying, Key
    <3>3. QED  BY <3>1, <3>2
  <2>7. CASE NotifyLock(t)
    <3>1. call[t].unparked = 0 /\ call[t].n > 0
      BY <2>7 DEF NotifyLock, LocalsOf
    <3>2. /\ pc' = [pc EXCEPT ![t] = "notify"] /\ call' = call
          /\ notified' = notified /\ spot' = spot
      BY <2>7 DEF NotifyLock
    <3>3. \A u \in Threads \ {t} : LocalsOf(u)'
      BY <3>2 DEF LocalsOf, Notifying, Key
    <3>4. LocalsOf(t)'
      <4>1. call[t].unparked < call[t].n /\ call[t].unparked <= call[t].n
        BY <3>1 DEF CallRecord
      <4>2. pc'[t] = "notify"
        BY <3>2
      <4>3. QED  BY <3>2, <4>1, <4>2 DEF LocalsOf
    <3>5. QED  BY <3>3, <3>4
  <2>8. CASE NotifyEmpty(t)
    <3>1. /\ pc' = [pc EXCEPT ![t] = "notify_done"] /\ call' = call /\ pc[t] = "notify"
          /\ notified' = notified /\ spot' = spot /\ spot[Key(t)].head = Nil
      BY <2>8 DEF NotifyEmpty
    <3>2. QED  BY <3>1 DEF LocalsOf, Notifying, Key
  <2>9. CASE NotifyReturn(t)
    <3>1. pc'[t] = "idle" /\ spot' = spot  BY <2>9 DEF NotifyReturn
    <3>2. \A u \in Threads \ {t} : pc'[u] = pc[u] /\ notified'[u] = notified[u] /\ call'[u] = call[u]
      BY <2>9 DEF NotifyReturn
    <3>3. QED  BY <3>1, <3>2, LocalsFrame
  <2>10. CASE NotifyPop(t)
    <3>1. PICK w \in Threads : w = spot[Key(t)].head
      BY <2>10 DEF NotifyPop, Typed, Links
    <3>2. /\ notified' = [notified EXCEPT ![w] = TRUE]
          /\ pc' = [pc EXCEPT ![t] = IF call[t].unparked + 1 = call[t].n THEN "notify_done" ELSE "notify"]
          /\ pc[t] = "notify"
      BY <2>10, <3>1 DEF NotifyPop
    <3>3. \A u \in Threads \ {t} :
            pc[u] \notin {"validate", "enqueue", "deadline", "notify", "notify_done"}
      BY <3>2, <1>00 DEF Holding
    <3>4. /\ call'[t].unparked = call[t].unparked + 1 /\ call'[t].n = call[t].n
          /\ \A u \in Threads \ {t} : call'[u] = call[u]
      BY <2>10 DEF NotifyPop, CallRecord
    <3>5. \A u \in Threads \ {t} : LocalsOf(u)'
      BY <3>2, <3>3, <3>4 DEF LocalsOf, Notifying
    <3>6. LocalsOf(t)'
      <4>1. call[t].unparked < call[t].n
        BY <3>2 DEF LocalsOf
      <4>2. pc'[t] = IF call[t].unparked + 1 = call[t].n THEN "notify_done" ELSE "notify"
        BY <3>2
      <4>3. call[t].unparked \in Nat /\ call[t].n \in Nat
        BY DEF CallRecord
      <4>4. CASE call[t].unparked + 1 = call[t].n
        <5>1. pc'[t] = "notify_done" /\ call'[t].unparked = call'[t].n /\ call'[t].n \in Nat
          BY <3>4, <4>2, <4>3, <4>4
        <5>2. ~(call'[t].unparked < call'[t].n) /\ call'[t].unparked <= call'[t].n
          BY <5>1
        <5>3. QED  BY <5>1, <5>2 DEF LocalsOf
      <4>5. CASE call[t].unparked + 1 # call[t].n
        <5>1. call[t].unparked + 1 < call[t].n
          BY <4>1, <4>3, <4>5
        <5>2. pc'[t] = "notify" /\ call'[t].unparked < call'[t].n
          BY <3>4, <4>2, <4>5, <5>1
        <5>3. call'[t].unparked <= call'[t].n
          BY <3>4, <4>3, <5>2
        <5>4. QED  BY <5>2, <5>3 DEF LocalsOf
      <4>6. QED  BY <4>4, <4>5
    <3>7. QED  BY <3>5, <3>6
  <2>11. QED  BY <1>1, <2>1, <2>2, <2>3, <2>4, <2>5, <2>6, <2>7, <2>8, <2>9, <2>10 DEF Step
<1>2. ASSUME NEW t \in Threads, Call(t) PROVE \A u \in Threads : LocalsOf(u)'
  <2>1. PICK a \in Addrs :
          \/ \E v \in Values, d \in {"none", "ahead"} : WaitCall(t, a, v, d)
          \/ \E n \in 0..MaxN : NotifyCall(t, a, n)
          \/ \E v \in Values : Store(t, a, v)
    BY <1>2 DEF Call
  <2>2. CASE \E v \in Values, d \in {"none", "ahead"} : WaitCall(t, a, v, d)
    <3>1. pc'[t] = "wait_lock" /\ spot' = spot
      BY <1>0, <2>2 DEF WaitCall, Enter, Goto, list
    <3>2. \A u \in Threads \ {t} : pc'[u] = pc[u] /\ notified'[u] = notified[u] /\ call'[u] = call[u]
      BY <1>0, <2>2 DEF WaitCall, Enter, Goto
    <3>3. QED  BY <3>1, <3>2, LocalsFrame
  <2>3. CASE \E n \in 0..MaxN : NotifyCall(t, a, n)
    <3>1. PICK n \in 0..MaxN : NotifyCall(t, a, n)
      BY <2>3
    <3>2. /\ pc' = [pc EXCEPT ![t] = IF n = 0 THEN "idle" ELSE "notify_lock"]
          /\ call' = [call EXCEPT ![t] = IF n = 0 THEN NoCall ELSE NotifyArgs(a, n)]
          /\ notified' = notified /\ spot' = spot
      BY <3>1 DEF NotifyCall, Enter, Goto, list
    <3>3. NotifyArgs(a, n).unparked = 0 /\ NotifyArgs(a, n).n = n
      BY DEF NotifyArgs
    <3>4. \A u \in Threads \ {t} : LocalsOf(u)'
      BY <1>0, <3>2 DEF LocalsOf, Notifying, Key
    <3>5. LocalsOf(t)'
      <4>1. CASE n = 0
        <5>1. pc'[t] = "idle"
          BY <1>0, <3>2, <4>1
        <5>2. QED  BY <5>1 DEF LocalsOf, Notifying
      <4>2. CASE n # 0
        <5>1. pc'[t] = "notify_lock" /\ call'[t] = NotifyArgs(a, n)
          BY <1>0, <3>2, <4>2
        <5>2. call'[t].unparked = 0 /\ call'[t].n > 0
          BY <3>3, <4>2, <5>1
        <5>3. QED  BY <5>1, <5>2 DEF LocalsOf, Notifying
      <4>3. QED  BY <4>1, <4>2
    <3>6. QED  BY <3>4, <3>5
  <2>4. CASE \E v \in Values : Store(t, a, v)
    BY <2>4 DEF Store, list, LocalsOf, Notifying, Key
  <2>5. QED  BY <2>1, <2>2, <2>3, <2>4
<1>3. ASSUME NEW t \in Threads, Tick(t) PROVE \A u \in Threads : LocalsOf(u)'
  <2>1. \A u \in Threads : /\ call'[u].key = call[u].key /\ call'[u].n = call[u].n
                            /\ call'[u].unparked = call[u].unparked
    BY <1>0, <1>3 DEF Tick, CallRecord
  <2>2. QED  BY <1>3, <2>1 DEF Tick, list, LocalsOf, Notifying, Key
<1>4. ASSUME NEW t \in Threads, ParkSpurious(t) PROVE \A u \in Threads : LocalsOf(u)'
  <2>1. pc'[t] = "relock" /\ spot' = spot  BY <1>0, <1>4 DEF ParkSpurious, Goto, list
  <2>2. \A u \in Threads \ {t} : pc'[u] = pc[u] /\ notified'[u] = notified[u] /\ call'[u] = call[u]
    BY <1>0, <1>4 DEF ParkSpurious, Goto
  <2>3. QED  BY <2>1, <2>2, LocalsFrame
<1>5. CASE UNCHANGED vars
  BY <1>5 DEF vars, list, LocalsOf, Notifying, Key
<1>6. QED  BY <1>1, <1>2, <1>3, <1>4, <1>5 DEF Next

-----------------------------------------------------------------------------
(* No list has a cycle, so a thread that waits has a head to be reached from *)

Below(D) ==
  \A t \in Threads :
    /\ t \notin D[t]
    /\ next[t] # Nil => D[t] \subseteq D[next[t]] /\ t \in D[next[t]]

\* Some assignment of sets to nodes grows strictly along `next`.
Acyclic == \E D \in [Threads -> SUBSET Threads] : Below(D)

LEMMA PushAcyclic ==
  ASSUME Typed, Lists, Acyclic, NEW w \in Threads, NEW a \in Addrs, ~Queued(w), Push(w, a)
  PROVE  Acyclic'
<1>1. PICK D \in [Threads -> SUBSET Threads] : Below(D)
  BY DEF Acyclic
<1> DEFINE E == [u \in Threads |-> IF u = w THEN Threads \ {w} ELSE D[u] \ {w}]
<1>2. E \in [Threads -> SUBSET Threads]
  OBVIOUS
<1>3. next[w] = Nil /\ spot[a].tail # w /\ \A u \in Threads : next[u] # w
  BY ParkingSpotAssumption DEF Lists, AssertsHold, ListInv, Typed, Links
<1>4. ASSUME NEW t \in Threads
      PROVE  /\ t \notin E[t]
             /\ next'[t] # Nil => E[t] \subseteq E[next'[t]] /\ t \in E[next'[t]]
  <2>1. t \notin E[t]
    BY <1>1 DEF Below
  <2>2. CASE t = spot[a].tail
    <3>1. next'[t] = w /\ t # w
      BY <2>2, <1>3, ParkingSpotAssumption DEF Push, Typed
    <3>2. QED  BY <2>1, <3>1
  <2>3. CASE t # spot[a].tail
    <3>1. next'[t] = next[t] /\ (t = w => next'[t] = Nil) /\ next'[t] # w /\ next[t] \in Links
      BY <2>3, <1>3 DEF Push, Typed
    <3>2. next[t] # Nil => next[t] \in Threads /\ D[t] \subseteq D[next[t]] /\ t \in D[next[t]]
      BY <1>1, <3>1 DEF Below, Links
    <3>3. QED  BY <2>1, <3>1, <3>2
  <2>4. QED  BY <2>2, <2>3
<1>5. Below(E)'
  BY <1>4 DEF Below
<1>6. QED  BY <1>2, <1>5 DEF Acyclic

LEMMA RemoveAcyclic ==
  ASSUME Typed, Lists, Acyclic, NEW w \in Threads, NEW a \in Addrs, Remove(w, a)
  PROVE  Acyclic'
<1>1. PICK D \in [Threads -> SUBSET Threads] : Below(D)
  BY DEF Acyclic
<1>2. ASSUME NEW t \in Threads, next'[t] # Nil
      PROVE  D[t] \subseteq D[next'[t]] /\ t \in D[next'[t]]
  <2>1. CASE t = prev[w]
    <3>1. next[t] = w /\ next'[t] = next[w] /\ next[w] \in Threads
      BY <1>2, <2>1, ParkingSpotAssumption DEF Remove, Typed, Links, Lists, ListInv
    <3>2. /\ D[t] \subseteq D[w] /\ t \in D[w]
          /\ D[w] \subseteq D[next[w]]
      BY <1>1, <3>1, ParkingSpotAssumption DEF Below
    <3>3. QED  BY <3>1, <3>2
  <2>2. CASE t # prev[w]
    <3>1. next'[t] = next[t]
      BY <1>2, <2>2 DEF Remove
    <3>2. QED  BY <1>1, <1>2, <3>1 DEF Below
  <2>3. QED  BY <2>1, <2>2
<1>3. Below(D)'
  BY <1>1, <1>2 DEF Below
<1>4. QED  BY <1>1, <1>3 DEF Acyclic

LEMMA AcyclicStep == Typed /\ Lists /\ Locals /\ Acyclic /\ [Next]_vars => Acyclic'
<1> SUFFICES ASSUME Typed, Lists, Locals, Acyclic, [Next]_vars PROVE Acyclic'
  OBVIOUS
<1>1. ASSUME NEW t \in Threads, Enqueue(t) PROVE Acyclic'
  <2>1. Key(t) \in Addrs /\ ~Queued(t) /\ Push(t, Key(t))
    BY <1>1 DEF Enqueue, Goto, Typed, Queued, Pushed
  <2>2. QED  BY <2>1, PushAcyclic
<1>2. ASSUME NEW t \in Threads, CheckDeadline(t), call[t].deadline = "reached" PROVE Acyclic'
  <2>1. Key(t) \in Addrs /\ Remove(t, Key(t))
    BY <1>2 DEF CheckDeadline, Return, Goto, Typed
  <2>2. QED  BY <2>1, RemoveAcyclic
<1>3. ASSUME NEW t \in Threads, NotifyPop(t) PROVE Acyclic'
  <2>1. PICK w \in Threads : Key(t) \in Addrs /\ Remove(w, Key(t))
    BY <1>3 DEF NotifyPop, Goto, Typed, Links
  <2>2. QED  BY <2>1, RemoveAcyclic
<1>4. CASE UNCHANGED next
  BY <1>4 DEF Acyclic, Below
<1>5. ASSUME NEW t \in Threads, Step(t), ~Enqueue(t), ~NotifyPop(t),
             ~(CheckDeadline(t) /\ call[t].deadline = "reached")
      PROVE  UNCHANGED next
  BY <1>5 DEF Step, WaitLock, Validate, CheckDeadline, ParkToken, ParkTimeout, Relock,
              NotifyLock, NotifyEmpty, NotifyReturn, list
<1>6. ASSUME NEW t \in Threads, Call(t) \/ Tick(t) \/ ParkSpurious(t) PROVE UNCHANGED next
  BY <1>6 DEF Call, WaitCall, NotifyCall, Enter, Store, Tick, ParkSpurious, list
<1>7. CASE UNCHANGED vars
  BY <1>7, <1>4 DEF vars, list
<1>8. QED  BY <1>1, <1>2, <1>3, <1>4, <1>5, <1>6, <1>7 DEF Next

\* If any thread is blocked on a, the list of a has a head.
LEMMA HeadReachable ==
  ASSUME Typed, Lists, Acyclic, NEW t \in Threads, Queued(t), Key(t) \in Addrs
  PROVE  spot[Key(t)].head # Nil
<1>1. PICK D \in [Threads -> SUBSET Threads] : Below(D)
  BY DEF Acyclic
<1> DEFINE Q == {u \in Threads : Queued(u) /\ Key(u) = Key(t)}
           T == {D[u] : u \in Q}
           R == StrictSubsetOrdering(Threads)
<1>2. IsWellFoundedOn(R, SUBSET Threads)
  BY FS_StrictSubsetOrderingWellFounded, FS_FiniteSubsetsOfFinite, ParkingSpotAssumption
<1>3. T \subseteq SUBSET Threads /\ T # {}
  OBVIOUS
<1>4. \E x \in T : \A y \in T : ~(<<y, x>> \in R)
  BY <1>2, <1>3, WFMin
<1>5. PICK u \in Q : \A y \in T : ~(<<y, D[u]>> \in R)
  BY <1>4
<1>6. ASSUME prev[u] # Nil PROVE FALSE
  <2>1. prev[u] \in Threads /\ next[prev[u]] = u
    <3>1. prev[u] \in Threads
      BY <1>6 DEF Typed, Links
    <3>2. QED  BY <3>1 DEF Lists, ListInv
  <2>2. prev[u] \in Q
    <3>1. Queued(prev[u])
      BY <2>1, ParkingSpotAssumption DEF Lists, AssertsHold
    <3>2. Key(prev[u]) = Key(u)
      <4>1. next[prev[u]] # Nil
        BY <2>1, ParkingSpotAssumption
      <4>2. Key(next[prev[u]]) = Key(prev[u])
        BY <2>1, <4>1 DEF Lists, ListInv
      <4>3. QED  BY <2>1, <4>2
    <3>3. QED  BY <2>1, <3>1, <3>2
  <2>3. D[prev[u]] \subseteq D[u] /\ prev[u] \in D[u] /\ prev[u] \notin D[prev[u]]
    BY <1>1, <2>1, ParkingSpotAssumption DEF Below
  <2>4. <<D[prev[u]], D[u]>> \in R
    BY <2>1, <2>3 DEF StrictSubsetOrdering
  <2>5. QED  BY <1>5, <2>2, <2>4
<1>7. spot[Key(u)].head = u
  BY <1>6 DEF Lists, ListInv
<1>8. QED  BY <1>7, ParkingSpotAssumption

-----------------------------------------------------------------------------
(* Conservation of wakeups *)

\* A step that neither wakes nor releases anybody and does not touch a running count.
WakeFrame ==
  /\ owed' = owed /\ Woken' = Woken
  /\ \A u \in Threads : Notifying(u)' <=> Notifying(u)
  /\ \A u \in Threads : Notifying(u) => call'[u].unparked = call[u].unparked

LEMMA WokenFinite == IsFiniteSet(Woken) /\ Cardinality(Woken) \in Nat
<1>1. Woken \in SUBSET Threads
  BY DEF Woken
<1>2. QED  BY <1>1, FS_Subset, FS_CardinalityType, ParkingSpotAssumption

LEMMA WakeStep ==
  Typed /\ LockInv /\ Lists /\ Locals /\ WakeConservation /\ [Next]_vars => WakeConservation'
<1> SUFFICES ASSUME Typed, LockInv, Lists, Locals, WakeConservation, [Next]_vars
             PROVE  WakeConservation'
  OBVIOUS
<1> USE ParkingSpotAssumption
<1>0. WakeFrame => WakeConservation'
  BY DEF WakeFrame, WakeConservation
<1>1. ASSUME NEW t \in Threads, Step(t) PROVE WakeConservation'
  <2>0. \A u \in Threads : Notifying(u) => lock = u
    BY DEF LockInv, Holding, Notifying
  <2>1. CASE WaitLock(t) \/ Validate(t) \/ ParkToken(t) \/ ParkTimeout(t) \/ NotifyEmpty(t)
    <3>1. WakeFrame
      <4> USE DEF Goto, Return, Typed, WakeFrame, Woken, Pushed, Notifying
      <4>1. CASE WaitLock(t)
        BY <4>1 DEF WaitLock
      <4>2. CASE Validate(t)
        BY <4>2 DEF Validate
      <4>3. CASE ParkToken(t) \/ ParkTimeout(t)
        BY <4>3 DEF ParkToken, ParkTimeout
      <4>4. CASE NotifyEmpty(t)
        BY <4>4 DEF NotifyEmpty
      <4>5. QED  BY <2>1, <4>1, <4>2, <4>3, <4>4
    <3>2. QED  BY <3>1, <1>0
  <2>2. CASE Enqueue(t)
    <3>1. WakeFrame
      BY <2>2 DEF Enqueue, Goto, Typed, WakeFrame, Woken, Pushed, Notifying
    <3>2. QED  BY <3>1, <1>0
  <2>3. CASE CheckDeadline(t)
    <3>1. WakeFrame
      BY <2>3 DEF CheckDeadline, Goto, Return, Typed, WakeFrame, Woken, Pushed, Notifying, Locals
    <3>2. QED  BY <3>1, <1>0
  <2>4. CASE Relock(t)
    <3>1. CASE notified[t]
      <4>1. /\ t \in Woken /\ Woken' = Woken \ {t} /\ owed' = owed - 1
            /\ \A u \in Threads : Notifying(u)' => Notifying(u)
        BY <2>4, <3>1 DEF Relock, Return, Goto, Typed, Woken, Pushed, Notifying
      <4>2. \A u \in Threads : ~Notifying(u)
        BY <2>4, <2>0 DEF Relock
      <4>3. owed = Cardinality(Woken)
        BY <4>2 DEF WakeConservation
      <4>4. Cardinality(Woken') = Cardinality(Woken) - 1
        BY <4>1, FS_RemoveElement, WokenFinite
      <4>5. QED  BY <4>1, <4>2, <4>3, <4>4 DEF WakeConservation
    <3>2. CASE ~notified[t]
      <4>1. WakeFrame
        BY <2>4, <3>2 DEF Relock, Goto, Typed, WakeFrame, Woken, Pushed, Notifying
      <4>2. QED  BY <4>1, <1>0
    <3>3. QED  BY <3>1, <3>2
  <2>5. CASE NotifyLock(t)
    <3>1. /\ \A u \in Threads : ~Notifying(u)
          /\ \A u \in Threads : Notifying(u)' => u = t
      BY <2>5, <2>0 DEF NotifyLock, Goto, Typed, Notifying
    <3>2. Woken' = Woken /\ owed' = owed /\ call'[t].unparked = 0 /\ Notifying(t)'
      BY <2>5 DEF NotifyLock, Goto, Typed, Woken, Pushed, Locals, Notifying
    <3>3. owed = Cardinality(Woken) /\ owed \in Int
      BY <3>1 DEF WakeConservation, Typed
    <3>4. owed' + call'[t].unparked = Cardinality(Woken')
      <4>1. owed + 0 = owed
        BY <3>3
      <4>2. QED  BY <3>2, <3>3, <4>1
    <3>5. QED  BY <3>1, <3>2, <3>4 DEF WakeConservation
  <2>6. CASE NotifyPop(t)
    <3>1. PICK w \in Threads : w = spot[Key(t)].head /\ Key(t) \in Addrs
      BY <2>6 DEF NotifyPop, Goto, Typed, Links
    <3>2. Pushed(w) /\ ~notified[w] /\ Notifying(t)
      BY <2>6, <3>1 DEF NotifyPop, Goto, Notifying, Lists, ListInv, Queued
    <3>3. /\ Woken' = Woken \cup {w} /\ w \notin Woken /\ owed' = owed
          /\ \A u \in Threads : Notifying(u)' <=> Notifying(u)
      BY <2>6, <3>1, <3>2 DEF NotifyPop, Goto, Typed, Woken, Pushed, Notifying
    <3>4. \A u \in Threads : Notifying(u) => u = t
      BY <2>0, <3>2
    <3>5. call'[t].unparked = call[t].unparked + 1 /\ call[t].unparked \in Nat
      BY <2>6 DEF NotifyPop, Typed, CallRecord
    <3>6. Cardinality(Woken') = Cardinality(Woken) + 1
      BY <3>3, FS_AddElement, WokenFinite
    <3>7. owed + call[t].unparked = Cardinality(Woken) /\ owed \in Int
      BY <3>2 DEF WakeConservation, Typed
    <3>8. owed' + call'[t].unparked = Cardinality(Woken')
      <4> DEFINE o == owed  c == call[t].unparked  k == Cardinality(Woken)
      <4>1. o \in Int /\ c \in Nat /\ k \in Nat /\ o + c = k
        BY <3>5, <3>7, WokenFinite
      <4> HIDE DEF o, c, k
      <4>2. o + (c + 1) = k + 1
        BY <4>1
      <4>3. QED  BY <4>2, <3>3, <3>5, <3>6 DEF o, c, k
    <3>9. QED  BY <3>2, <3>3, <3>4, <3>8 DEF WakeConservation
  <2>7. CASE NotifyReturn(t)
    <3>1. Notifying(t) /\ owed + call[t].unparked = Cardinality(Woken)
      BY <2>7 DEF NotifyReturn, Return, Goto, Notifying, WakeConservation
    <3>2. owed' = owed + call[t].unparked /\ Woken' = Woken
      BY <2>7 DEF NotifyReturn, Return, Goto, Typed, Woken, Pushed
    <3>3. \A u \in Threads : ~Notifying(u)'
      BY <2>7, <2>0, <3>1 DEF NotifyReturn, Return, Goto, Typed, Notifying
    <3>4. owed' = Cardinality(Woken')
      BY <3>1, <3>2
    <3>5. QED  BY <3>3, <3>4 DEF WakeConservation
  <2>8. QED  BY <1>1, <2>1, <2>2, <2>3, <2>4, <2>5, <2>6, <2>7 DEF Step
<1>2. ASSUME NEW t \in Threads, Call(t) PROVE WakeConservation'
  <2>1. WakeFrame
    <3> USE DEF Enter, Typed, Goto, WakeFrame, Woken, Pushed, Notifying
    <3>1. ASSUME NEW a \in Addrs, NEW v \in Values, NEW d \in {"none", "ahead"}, WaitCall(t, a, v, d)
          PROVE  WakeFrame
      BY <3>1 DEF WaitCall
    <3>2. ASSUME NEW a \in Addrs, NEW n \in 0..MaxN, NotifyCall(t, a, n) PROVE WakeFrame
      BY <3>2 DEF NotifyCall
    <3>3. ASSUME NEW a \in Addrs, NEW v \in Values, Store(t, a, v) PROVE WakeFrame
      BY <3>3 DEF Store, list
    <3> HIDE DEF Enter, Typed, Goto, WakeFrame
    <3>4. QED  BY <1>2, <3>1, <3>2, <3>3 DEF Call
  <2>2. QED  BY <2>1, <1>0
<1>3. ASSUME NEW t \in Threads, Tick(t) PROVE WakeConservation'
  <2>1. \A u \in Threads : call'[u].unparked = call[u].unparked
    BY <1>3 DEF Tick, Typed, CallRecord
  <2>2. WakeFrame
    BY <1>3, <2>1 DEF Tick, WakeFrame, Woken, Pushed, Notifying
  <2>3. QED  BY <2>2, <1>0
<1>4. ASSUME NEW t \in Threads, ParkSpurious(t) PROVE WakeConservation'
  <2>1. WakeFrame
    BY <1>4 DEF ParkSpurious, Goto, Typed, WakeFrame, Woken, Pushed, Notifying
  <2>2. QED  BY <2>1, <1>0
<1>5. CASE UNCHANGED vars
  <2>1. WakeFrame
    BY <1>5 DEF vars, WakeFrame, Woken, Pushed, Notifying
  <2>2. QED  BY <2>1, <1>0
<1>6. QED  BY <1>1, <1>2, <1>3, <1>4, <1>5 DEF Next

\* No wait returns Ok before a notify has counted it: the mutex is held until the
\* count has been returned.
LEMMA OwedStep ==
  Typed /\ LockInv /\ WakeConservation /\ owed >= 0 /\ [Next]_vars => owed' >= 0
<1> SUFFICES ASSUME Typed, LockInv, WakeConservation, owed >= 0, [Next]_vars PROVE owed' >= 0
  OBVIOUS
<1>0. owed \in Int
  BY DEF Typed
<1>1. ASSUME NEW t \in Threads, Relock(t), notified[t] PROVE owed' >= 0
  <2>1. t \in Woken /\ owed' = owed - 1
    BY <1>1 DEF Relock, Return, Goto, Woken, Pushed
  <2>2. \A u \in Threads : ~Notifying(u)
    BY <1>1, ParkingSpotAssumption DEF Relock, LockInv, Holding, Notifying
  <2>3. owed = Cardinality(Woken)
    BY <2>2 DEF WakeConservation
  <2>4. Cardinality(Woken) # 0 /\ Cardinality(Woken) \in Nat
    BY <2>1, WokenFinite, FS_EmptySet
  <2>5. QED  BY <2>1, <2>3, <2>4
<1>2. ASSUME NEW t \in Threads, NotifyReturn(t) PROVE owed' >= 0
  <2>1. call[t].unparked \in Nat
    BY DEF Typed, CallRecord
  <2>2. QED  BY <1>0, <1>2, <2>1 DEF NotifyReturn
<1>3. ASSUME NEW t \in Threads, Step(t), ~NotifyReturn(t), ~(Relock(t) /\ notified[t])
      PROVE  owed' = owed
  BY <1>3 DEF Step, WaitLock, Validate, Enqueue, CheckDeadline, ParkToken, ParkTimeout, Relock,
              NotifyLock, NotifyPop, NotifyEmpty
<1>4. ASSUME NEW t \in Threads, Call(t) \/ Tick(t) \/ ParkSpurious(t) PROVE owed' = owed
  BY <1>4 DEF Call, WaitCall, NotifyCall, Enter, Store, Tick, ParkSpurious
<1>5. CASE UNCHANGED vars
  BY <1>5 DEF vars
<1>6. QED  BY <1>1, <1>2, <1>3, <1>4, <1>5 DEF Next

-----------------------------------------------------------------------------
(* The theorems *)

IInv ==
  /\ Typed /\ owed >= 0 /\ LockInv /\ Locals /\ AtMostN
  /\ Lists /\ Acyclic /\ WakeConservation

LEMMA InitIInv == Init => IInv
<1> SUFFICES ASSUME Init PROVE IInv
  OBVIOUS
<1> USE ParkingSpotAssumption
<1>1. Typed /\ owed >= 0
  <2>1. NoCall \in CallRecord
    BY DEF NoCall, CallRecord, Deadlines
  <2>2. spot \in [Addrs -> [head : Links, tail : Links]]
    BY DEF Init, NoSpot, Links
  <2>3. call \in [Threads -> CallRecord]
    BY <2>1 DEF Init
  <2>4. \A t \in Threads : pc[t] = "idle"
    BY DEF Init
  <2>5. QED  BY <2>2, <2>3, <2>4 DEF Init, Typed, Links
<1>2. LockInv /\ Locals /\ AtMostN
  BY DEF Init, LockInv, Holding, Locals, AtMostN, Notifying
<1>3. Lists
  BY DEF Init, Lists, AssertsHold, ListInv, NoSpot, Queued, Pushed
<1>4. Acyclic
  <2>1. Below([t \in Threads |-> {}])
    BY DEF Init, Below
  <2>2. QED  BY <2>1 DEF Acyclic
<1>5. WakeConservation
  <2>1. Woken = {} /\ owed = 0 /\ \A t \in Threads : ~Notifying(t)
    BY DEF Init, Woken, Pushed, Notifying
  <2>2. QED  BY <2>1, FS_EmptySet DEF WakeConservation
<1>6. QED  BY <1>1, <1>2, <1>3, <1>4, <1>5 DEF IInv

LEMMA NextIInv == IInv /\ [Next]_vars => IInv'
  BY TypedStep, OwedStep, LockStep, LocalsStep, ListStep, AcyclicStep, WakeStep DEF IInv

LEMMA InductiveInvariant == Spec => []IInv
  BY InitIInv, NextIInv, PTL DEF Spec

\* Every variable keeps its type, and no wait is answered Ok that no notify counted.
THEOREM TypeCorrect == Spec => []TypeOK
<1>1. IInv => TypeOK
  BY DEF IInv, Typed, TypeOK, CallRecord
<1>2. QED  BY <1>1, InductiveInvariant, PTL

\* The mutex of ParkingSpot excludes: for any number of threads the holder is the one
\* thread between lock and unlock.
THEOREM MutualExclusion == Spec => []LockInv
<1>1. IInv => LockInv
  BY DEF IInv
<1>2. QED  BY <1>1, InductiveInvariant, PTL

\* None of the asserts of wait, Spot::push and notify fires.
THEOREM AssertsNeverFail == Spec => []AssertsHold
<1>1. IInv => AssertsHold
  BY DEF IInv, Lists
<1>2. QED  BY <1>1, InductiveInvariant, PTL

\* The waiter lists of all addresses stay well formed under push, pop and the removal
\* of a timed out waiter from the middle.
THEOREM ListsWellFormed == Spec => []ListInv
<1>1. IInv => ListInv
  BY DEF IInv, Lists
<1>2. QED  BY <1>1, InductiveInvariant, PTL

\* The numbers notify returns account for exactly the waits that return Ok, and none is
\* above the n it was called with.
THEOREM NotifyResultsExact == Spec => []NotifyResults
<1>1. IInv => WakeConservation /\ AtMostN
  BY DEF IInv
<1>2. QED  BY <1>1, TypeCorrect, InductiveInvariant, PTL DEF NotifyResults

\* A notify that returns less than n leaves no thread blocked on its address: the value
\* check and the push of wait are one step as far as notify can tell.
THEOREM NoWakeupLost == Spec => NoLostWakeup
<1> DEFINE A == \A u \in Threads :
       (pc[u] = "notify_done" /\ pc'[u] = "idle" /\ call[u].unparked < call[u].n) =>
         \A t \in Threads : Committed(t) /\ Key(t) = Key(u) => Pushed(t) /\ notified[t]
<1>1. IInv => A
  <2> SUFFICES ASSUME IInv, NEW u \in Threads, NEW t \in Threads,
                      pc[u] = "notify_done", call[u].unparked < call[u].n,
                      Committed(t), Key(t) = Key(u)
               PROVE  Pushed(t) /\ notified[t]
    OBVIOUS
  <2>1. Key(u) \in Addrs /\ spot[Key(u)].head = Nil
    BY DEF IInv, Typed, Locals
  <2>2. pc[t] # "enqueue"
    BY ParkingSpotAssumption DEF IInv, LockInv, Holding
  <2>3. Pushed(t)
    BY <2>2 DEF Committed, Pushed
  <2>4. ~Queued(t)
    BY <2>1, HeadReachable DEF IInv
  <2>5. QED  BY <2>3, <2>4 DEF Queued
<1>2. IInv /\ [Next]_vars => [A]_vars
  BY <1>1
<1>3. QED  BY <1>2, InductiveInvariant, PTL DEF Spec, NoLostWakeup

=============================================================================
