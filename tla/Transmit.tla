------------------------------- MODULE Transmit -------------------------------
(***************************************************************************)
(* One stream or future of the component model's async support             *)
(* (runtime/component/concurrent/futures_and_streams.rs): its shared       *)
(* TransmitState, the states of its two ends in the guests' handle tables, *)
(* the events that are pending for the ends, and the host's producer or    *)
(* consumer when an end belongs to the host.                               *)
(*                                                                         *)
(* All calls run one at a time on the store.  What interleaves is the      *)
(* order of the two guests' calls, of the deliveries of events, and of the *)
(* polls of host futures.  Items are numbered in the order in which the    *)
(* writer offers them; an address is the number of items before it.        *)
(* A call that traps ends the store and is not a step.                     *)
(***************************************************************************)
EXTENDS Integers, Sequences, FiniteSetsExt

CONSTANTS
  MaxCount,      \* bound: items of one read or write
  MaxItems,      \* bound: items offered over the life of the stream
  CancelOnce,    \* guests do not cancel a call twice
  LiftWhole      \* guests do not hand the read end to the host while a write
                 \* is half done and that has not been reported

ASSUME TransmitAssumption ==
  /\ MaxCount \in Nat \ {0} /\ MaxItems \in Nat \ {0} 
  /\ CancelOnce \in BOOLEAN /\ LiftWhole \in BOOLEAN

Ends == {"w", "r"}
Codes == {"Completed", "Dropped", "Cancelled"}

VARIABLES
  kind,          \* TransmitKind
  realloc,       \* MAY_REQUIRE_REALLOC of the payload
  write, read,   \* WriteState and ReadState
  done,          \* TransmitState::done
  live,          \* the TransmitState is in the table
  local,         \* TransmitLocalState, or who else has the end
  event,         \* the event pending for each end
  waiting,       \* what the guest that uses an end is suspended in
  cancelled,     \* ends whose call in progress was cancelled
  host,          \* the host future in flight
  saved,         \* the ReadState and result held by `write` while it lowers
  buffer, made,  \* items the host's producer has made, and not yet delivered
  next,          \* items the writer has been told were taken
  memory,        \* the buffer of the read in progress
  got,           \* items the reader has been told of
  bug            \* a bail_bug! was reached

state == <<write, read, done, live>>
guest == <<local, event, waiting, cancelled>>
embed == <<host, saved, buffer, made>>
data  == <<next, memory, got>>
vars  == <<kind, realloc, state, guest, embed, data, bug>>

Open == [st |-> "Open", count |-> 0, addr |-> 0, offset |-> 0, cancel |-> FALSE]
Dropped == [Open EXCEPT !.st = "Dropped"]
HostReady == [Open EXCEPT !.st = "HostReady"]
HostToHost == [Open EXCEPT !.st = "HostToHost"]
GuestReady(count, addr) == [Open EXCEPT !.st = "GuestReady", !.count = count, !.addr = addr]

NoEvent == [code |-> "None", n |-> 0, pending |-> FALSE]
Event(code, n, pending) == [code |-> code, n |-> n, pending |-> pending]
NoLowering == [read |-> Open, code |-> "None"]
Blank == [i \in 1..MaxCount |-> 0]

\* ReturnCode::completed: a future reports no count.
Count(code, n) == IF code = "Completed" /\ kind = "future" THEN 0 ELSE n
\* The number of items such a code stands for.
Items(code, n) == IF code = "Completed" /\ kind = "future" THEN 1 ELSE n

\* guest_new, or new_transmit for a host producer.
Init ==
  /\ kind \in {"stream", "future"} /\ realloc \in BOOLEAN
  /\ write \in {Open, HostReady}
  /\ realloc => write = HostReady
  /\ read = Open /\ done = FALSE /\ live = TRUE
  /\ local = [e \in Ends |-> IF write = HostReady THEN "host" ELSE "Idle"]
  /\ event = [e \in Ends |-> NoEvent]
  /\ waiting = [e \in Ends |-> "no"] /\ cancelled = {}
  /\ host = "none" /\ saved = NoLowering /\ buffer = <<>> /\ made = 0
  /\ next = 0 /\ memory = Blank /\ got = <<>>
  /\ bug = FALSE

-----------------------------------------------------------------------------
(* What the guests are told *)

\* The guest at end e learns of a code, with its buffer being m.
Tell(e, code, n, m) ==
  IF e = "w"
  THEN next' = next + Items(code, n) /\ memory' = m /\ got' = got
  ELSE got' = got \o SubSeq(m, 1, Items(code, n)) /\ memory' = Blank /\ next' = next

\* The end of guest_write and guest_read, wait_for_write and wait_for_read
\* included if the call is synchronous.
Return(e, code, n, m, sync) ==
  /\ IF code = "Blocked"
     THEN /\ local' = [local EXCEPT ![e] = "Busy"]
          /\ memory' = m /\ UNCHANGED <<next, got>>
     ELSE /\ local' = [local EXCEPT ![e] =
                         IF code = "Dropped" /\ (e = "w" \/ kind = "stream")
                         THEN "Done" ELSE "Idle"]
          /\ Tell(e, code, n, m)
  /\ waiting' = [waiting EXCEPT ![e] = IF code = "Blocked" /\ sync THEN "call" ELSE "no"]
  /\ cancelled' = cancelled \ {e}

\* send_write_result, send_read_result
Sent(e, code, n) == [event EXCEPT ![e] = Event(code, Count(code, n), TRUE)]

\* Instance::copy of the items after `from` to the positions after `at`.
Copy(at, from, n) ==
  [i \in 1..MaxCount |-> IF i \in (at + 1)..(at + n) THEN from + i - at ELSE memory[i]]

\* Mutant: the result that waits is forgotten.
OldTotalForgotten(e) == 0

\* The count of a result that has not been delivered yet.
OldTotal(e) == IF kind = "stream" /\ event[e].code = "Completed" THEN event[e].n ELSE 0

-----------------------------------------------------------------------------
(* The host's consumer and producer *)

\* What one poll_consume may do with the items that are available.
ConsumePolls(available, cancel) ==
  {p \in [k : 0..available, code : Codes \cup {"Pending"}] :
     /\ p.code = "Cancelled" => cancel
     /\ kind = "future" =>
          /\ p.code # "Dropped"
          /\ p.code = "Completed" => p.k = available
          /\ p.code = "Cancelled" => p.k < available}

\* What one poll of `produce` may do: the producer is only asked when nothing
\* is left of what it made before.
ProducePolls(count, cancel) ==
  IF buffer # <<>> THEN {[k |-> 0, code |-> "Completed"]}
  ELSE {p \in [k : 0..MaxCount, code : Codes \cup {"Pending"}] :
          /\ made + p.k <= MaxItems
          /\ p.code = "Pending" => p.k = 0
          /\ p.code = "Completed" => p.k > 0 \/ count <= 1
          /\ p.code = "Cancelled" => cancel
          /\ kind = "future" =>
               /\ p.code # "Dropped"
               /\ p.k = IF p.code = "Completed" THEN 1 ELSE 0}

Range1(from, n) == [i \in 1..n |-> from + i]

\* The code of a poll of `produce`, with `left` what remains in the buffer.
ProduceCode(code, left) == IF code = "Dropped" /\ left # <<>> THEN "Completed" ELSE code

-----------------------------------------------------------------------------
(* {stream,future}.write: guest_write *)

\* Mutant: a zero-length read is not told of a write that has items.
WriteToGuestUntold(count, sync) ==
  LET n == Min({count, read.count})
      write_complete == count = 0 \/ read.count > 0
  IN /\ read.st = "GuestReady"
     /\ done' = (kind = "future")
     /\ event' = IF n > 0 THEN Sent("r", "Completed", n + OldTotal("r")) ELSE event
     /\ read' = IF count < read.count \/ (n = 0 /\ read.count = 0)
                THEN GuestReady(read.count - n, read.addr + n) ELSE Open
     /\ write' = IF write_complete THEN write ELSE GuestReady(count, next)
     /\ bug' = (~write_complete /\ write.st # "Open")
     /\ Return("w", IF write_complete THEN "Completed" ELSE "Blocked", n,
               Copy(read.addr, next, n), sync)
     /\ UNCHANGED <<live, embed>>

WriteToGuest(count, sync) ==
  LET n == Min({count, read.count})
      write_complete == count = 0 \/ read.count > 0
      read_complete  == count > 0
  IN /\ read.st = "GuestReady"
     /\ done' = (kind = "future")
     /\ event' = IF read_complete THEN Sent("r", "Completed", n + OldTotal("r")) ELSE event
     /\ read' = IF count < read.count \/ (n = 0 /\ read.count = 0)
                THEN GuestReady(read.count - n, read.addr + n) ELSE Open
     /\ write' = IF write_complete THEN write ELSE GuestReady(count, next)
     /\ bug' = (~write_complete /\ write.st # "Open")
     /\ Return("w", IF write_complete THEN "Completed" ELSE "Blocked", n,
               Copy(read.addr, next, n), sync)
     /\ UNCHANGED <<live, embed>>

\* consume: the first poll of the consumer is made by the call itself.  That no
\* earlier future is in flight (no cancel_waker is left) is part of BusyExact.
WriteToHost(count, sync) ==
  /\ read.st = "HostReady" /\ host = "none"
  /\ done' = (kind = "future")
  /\ bug' = (read.cancel \/ read.offset # 0 \/ write.st # "Open")
  /\ \E p \in ConsumePolls(count, FALSE) :
       LET pending == p.code = "Pending"
       IN /\ write' = IF pending THEN GuestReady(count, next) ELSE Open
          /\ read' = IF pending THEN [HostReady EXCEPT !.offset = p.k] ELSE HostReady
          /\ host' = IF pending THEN "consume" ELSE "none"
          /\ local' = [local EXCEPT !["w"] = IF pending THEN "Busy"
                                            ELSE IF p.code = "Dropped" THEN "Done" ELSE "Idle"]
          /\ waiting' = [waiting EXCEPT !["w"] = IF pending /\ sync THEN "call" ELSE "no"]
          /\ got' = got \o Range1(next, p.k)
          /\ next' = IF pending THEN next ELSE next + p.k
  /\ cancelled' = cancelled \ {"w"}
  /\ UNCHANGED <<event, live, saved, buffer, made, memory>>

WriteAlone(count, sync) ==
  /\ read.st \in {"Open", "Dropped"}
  /\ LET blocked == read.st = "Open"
     IN /\ write' = IF blocked THEN GuestReady(count, next) ELSE write
        /\ bug' = (blocked /\ write.st # "Open")
        /\ done' = (~blocked /\ kind = "future")
        /\ Return("w", IF blocked THEN "Blocked" ELSE "Dropped", 0, memory, sync)
  /\ UNCHANGED <<read, live, event, embed>>

GuestWrite(count, sync) ==
  /\ local["w"] = "Idle" /\ waiting["w"] = "no" /\ ~done /\ ~bug
  /\ next + count <= MaxItems
  /\ kind = "future" => count = 1
  /\ WriteToGuest(count, sync) \/ WriteToHost(count, sync) \/ WriteAlone(count, sync)
  /\ UNCHANGED <<kind, realloc>>

-----------------------------------------------------------------------------
(* {stream,future}.read: guest_read *)

ReadFromGuest(count, sync) ==
  LET n == Min({count, write.count})
      write_complete == write.count = 0 \/ count > 0
      read_complete  == write.count > 0
  IN /\ write.st = "GuestReady"
     /\ done' = (kind = "future")
     /\ event' = IF write_complete THEN Sent("w", "Completed", n + OldTotal("w")) ELSE event
     /\ write' = IF count < write.count
                 THEN GuestReady(write.count - n, write.addr + n) ELSE Open
     /\ read' = IF read_complete THEN read ELSE GuestReady(count, 0)
     /\ bug' = (~read_complete /\ read.st # "Open")
     /\ Return("r", IF read_complete THEN "Completed" ELSE "Blocked", n,
               Copy(0, write.addr, n), sync)
     /\ UNCHANGED <<live, embed>>

\* produce: the first poll of the producer is made by the call itself.  It is
\* pending also when the items must be lowered by a work item of its own.
ReadFromHost(count, sync) ==
  /\ write.st = "HostReady" /\ host = "none"
  /\ bug' = (write.cancel \/ write.offset # 0 \/ read.st # "Open")
  /\ \E p \in ProducePolls(count, FALSE) :
       LET items == buffer \o Range1(made, p.k)
           n     == Min({Len(items), count})
           lower == realloc /\ n > 0
           left  == SubSeq(items, n + 1, Len(items))
           code  == ProduceCode(p.code, left)
           pending == p.code = "Pending"
       IN /\ made' = made + p.k
          /\ done' = (kind = "future" /\ (items # <<>> \/ code = "Completed"))
          /\ write' = HostReady
          /\ read' = IF pending THEN GuestReady(count, 0) ELSE Open
          /\ host' = IF pending THEN "produce" ELSE IF lower THEN "lower" ELSE "none"
          /\ saved' = IF lower THEN [read |-> GuestReady(count, 0), code |-> p.code]
                      ELSE NoLowering
          /\ buffer' = IF lower THEN items ELSE left
          /\ Return("r", IF pending \/ lower THEN "Blocked" ELSE code, n,
                    IF lower \/ n = 0 THEN memory ELSE Copy(0, items[1] - 1, n), sync)
  /\ UNCHANGED <<event, live>>

ReadAlone(count, sync) ==
  /\ write.st \in {"Open", "Dropped"}
  /\ LET blocked == write.st = "Open"
     IN /\ read' = IF blocked THEN GuestReady(count, 0) ELSE read
        /\ bug' = (blocked /\ read.st # "Open")
        /\ Return("r", IF blocked THEN "Blocked" ELSE "Dropped", 0, memory, sync)
  /\ UNCHANGED <<write, done, live, event, embed>>

GuestRead(count, sync) ==
  /\ local["r"] = "Idle" /\ waiting["r"] = "no" /\ ~done /\ ~bug
  /\ kind = "future" => count = 1
  /\ ReadFromGuest(count, sync) \/ ReadFromHost(count, sync) \/ ReadAlone(count, sync)
  /\ UNCHANGED <<kind, realloc>>

-----------------------------------------------------------------------------
(* Host futures, polled by the store's event loop *)

\* pipe_from_guest: the consumer is polled again.  A write that is no longer GuestReady
\* is a bail_bug! in Source::read, after the poll or at the end, whichever comes first.
Consume ==
  /\ host = "consume" /\ ~bug
  /\ \E p \in ConsumePolls(write.count - read.offset, read.cancel) :
       LET taken == read.offset + p.k
       IN /\ bug' = (read.st # "HostReady" \/ (p.code # "Pending" /\ write.st # "GuestReady"))
          /\ got' = got \o Range1(write.addr + read.offset, p.k)
          /\ IF p.code = "Pending"
             THEN read' = [read EXCEPT !.offset = taken] /\ UNCHANGED <<write, host, event, done>>
             ELSE /\ read' = IF p.code = "Dropped" THEN Dropped ELSE HostReady
                  /\ write' = Open
                  /\ host' = "none"
                  /\ event' = Sent("w", p.code, taken)
                  /\ done' = (done \/ (kind = "future" /\ p.code = "Completed"))
  /\ UNCHANGED <<kind, realloc, live, local, waiting, cancelled, saved, buffer, made, next, memory>>

\* The end of pipe_to_guest: the read has been given n items.
Produced(code, n) ==
  /\ write' = IF code = "Dropped" THEN Dropped ELSE HostReady
  /\ read' = Open
  /\ host' = "none"
  /\ event' = Sent("r", code, n)

\* pipe_to_guest: the producer is polled again.
Produce ==
  /\ host = "produce" /\ ~bug
  /\ bug' = (write.st # "HostReady" \/ read.st # "GuestReady")
  /\ \E p \in ProducePolls(read.count, write.cancel) :
       LET items == buffer \o Range1(made, p.k)
           n     == Min({Len(items), read.count})
           lower == realloc /\ n > 0
           left  == SubSeq(items, n + 1, Len(items))
       IN /\ made' = made + p.k
          /\ done' = (kind = "future" /\ items # <<>>)
          /\ saved' = IF lower THEN [read |-> read, code |-> p.code] ELSE NoLowering
          /\ IF p.code = "Pending" THEN UNCHANGED <<write, read, host, event, buffer, memory>>
             ELSE IF lower
             THEN /\ write' = [write EXCEPT !.cancel = FALSE]
                  /\ read' = Open /\ host' = "lower" /\ buffer' = items
                  /\ UNCHANGED <<event, memory>>
             ELSE /\ Produced(ProduceCode(p.code, left), n)
                  /\ buffer' = left
                  /\ memory' = IF n = 0 THEN memory ELSE Copy(read.addr, items[1] - 1, n)
  /\ UNCHANGED <<kind, realloc, live, local, waiting, cancelled, next, got>>

\* write, when lowering may call the guest: the work item runs, and the read
\* state that `write` had taken comes back.
Lower ==
  LET n    == Min({Len(buffer), saved.read.count})
      left == SubSeq(buffer, n + 1, Len(buffer))
  IN /\ host = "lower" /\ ~bug
     /\ bug' = (write.st # "HostReady")
     /\ memory' = Copy(saved.read.addr, buffer[1] - 1, n)
     /\ buffer' = left
     /\ saved' = NoLowering
     /\ Produced(ProduceCode(saved.code, left), n)
     /\ UNCHANGED <<kind, realloc, done, live, local, waiting, cancelled, made, next, got>>

\* The loop of set_consumer when both ends are the host's: a batch is made and
\* accepted, all of it unless the consumer drops its end.
Relay ==
  /\ host = "relay" /\ ~bug
  /\ bug' = (write.st # "HostReady" \/ read.st # "HostToHost")
  /\ \E p \in ProducePolls(1, FALSE), drop \in BOOLEAN :
       LET items == buffer \o Range1(made, p.k)
           stop  == drop \/ p.code = "Dropped" \/ (kind = "future" /\ p.code # "Pending")
       IN \E k \in 0..Len(items) :
            /\ drop => items # <<>> /\ kind = "stream"
            /\ ~drop => k = Len(items)
            /\ made' = made + p.k
            /\ got' = got \o SubSeq(items, 1, k)
            /\ buffer' = SubSeq(items, k + 1, Len(items))
            /\ done' = (kind = "future" /\ stop)
            /\ read' = IF drop THEN Dropped ELSE read
            /\ host' = IF stop THEN "none" ELSE host
            /\ live' = ~stop
  /\ UNCHANGED <<kind, realloc, write, guest, saved, next, memory>>

-----------------------------------------------------------------------------
(* Events *)

Side(e) == IF e = "w" THEN write ELSE read
SetSide(e, s) ==
  IF e = "w" THEN write' = s /\ read' = read ELSE read' = s /\ write' = write

\* on_delivery for an event that was taken: the state of the handle, and of the
\* end in the TransmitState.
DeliveredLocal(e, ev) ==
  IF ~ev.pending THEN local[e] ELSE IF ev.code = "Dropped" THEN "Done" ELSE "Idle"
\* A cancelled call leaves the handle idle.
CancelledLocal(e, ev) ==
  IF DeliveredLocal(e, ev) = "Busy" THEN "Idle" ELSE DeliveredLocal(e, ev)
\* Mutant: the end keeps what is left of its call.
DeliveredSideKept(e, ev) == Side(e)

DeliveredSide(e, ev) == IF ev.pending /\ kind = "stream" THEN Open ELSE Side(e)

\* get_event: the guest takes the event of the end from a waitable set.
Deliver(e) ==
  LET ev == event[e]
  IN /\ ev # NoEvent /\ ~bug /\ waiting[e] = "no" /\ local[e] \in {"Idle", "Done", "Busy"}
     /\ event' = [event EXCEPT ![e] = NoEvent]
     /\ bug' = (ev.pending /\ local[e] # "Busy")
     /\ local' = [local EXCEPT ![e] = DeliveredLocal(e, ev)]
     /\ SetSide(e, DeliveredSide(e, ev))
     /\ Tell(e, ev.code, ev.n, memory)
     /\ cancelled' = IF ev.pending THEN cancelled \ {e} ELSE cancelled
     /\ UNCHANGED <<kind, realloc, done, live, waiting, embed>>

\* The guest that waits in a synchronous call is resumed by the event:
\* wait_for_write or wait_for_read, and what the caller does with the code.
Resume(e) ==
  LET ev   == event[e]
      last == ev.code = "Dropped" /\ (e = "w" \/ kind = "stream")
      side == DeliveredSide(e, ev)
  IN /\ ev # NoEvent /\ ~bug /\ waiting[e] # "no"
     /\ event' = [event EXCEPT ![e] = NoEvent]
     /\ bug' = ((ev.pending /\ local[e] # "Busy")
               \/ (waiting[e] = "cancel" /\ side.st \in {"HostReady", "HostToHost"}))
     /\ local' = [local EXCEPT ![e] =
                    IF waiting[e] = "call" THEN (IF last THEN "Done" ELSE "Idle")
                    ELSE CancelledLocal(e, ev)]
     /\ SetSide(e, IF waiting[e] = "cancel" /\ side.st = "GuestReady" THEN Open ELSE side)
     /\ waiting' = [waiting EXCEPT ![e] = "no"]
     /\ Tell(e, ev.code, ev.n, memory)
     /\ cancelled' = cancelled \ {e}
     /\ UNCHANGED <<kind, realloc, done, live, embed>>

-----------------------------------------------------------------------------
(* {stream,future}.cancel-{write,read} *)

Other(e) == IF e = "w" THEN "r" ELSE "w"

\* Mutant: what is left of the call stays on offer.
CancelGuestOffered(e) ==
  LET ev == event[e]
  IN /\ ev # NoEvent \/ Side(Other(e)).st # "HostReady"
     /\ bug' = (ev.code = "Cancelled")
     /\ event' = [event EXCEPT ![e] = NoEvent]
     /\ local' = [local EXCEPT ![e] = CancelledLocal(e, ev)]
     /\ Tell(e, IF ev = NoEvent THEN "Cancelled" ELSE ev.code, ev.n, memory)
     /\ cancelled' = cancelled \ {e}
     /\ UNCHANGED <<waiting, host, write, read>>

\* The call has completed, or its result is waiting: that is what the guest is
\* told.  Otherwise it never met the other side.
CancelGuest(e) ==
  LET ev   == event[e]
      code == IF ev = NoEvent \/ (ev.code = "Completed" /\ kind = "stream")
              THEN "Cancelled" ELSE ev.code
      side == DeliveredSide(e, ev)
  IN /\ ev # NoEvent \/ Side(Other(e)).st # "HostReady"
     /\ bug' = (ev.code = "Cancelled" \/ side.st \in {"HostReady", "HostToHost"})
     /\ event' = [event EXCEPT ![e] = NoEvent]
     /\ SetSide(e, IF side.st = "GuestReady" THEN Open ELSE side)
     /\ local' = [local EXCEPT ![e] = CancelledLocal(e, ev)]
     /\ Tell(e, code, ev.n, memory)
     /\ cancelled' = cancelled \ {e}
     /\ UNCHANGED <<waiting, host>>

\* The host is asked to finish; the result comes as an event.
CancelHost(e, sync) ==
  /\ event[e] = NoEvent /\ Side(Other(e)).st = "HostReady"
  /\ SetSide(Other(e), [Side(Other(e)) EXCEPT !.cancel = TRUE])
  /\ waiting' = [waiting EXCEPT ![e] = IF sync THEN "cancel" ELSE "no"]
  /\ cancelled' = cancelled \cup {e}
  /\ UNCHANGED <<local, event, host, data, bug>>

\* guest_cancel_write, guest_cancel_read
GuestCancel(e, sync) ==
  /\ local[e] = "Busy" /\ waiting[e] = "no" /\ ~bug
  /\ CancelOnce => e \notin cancelled
  /\ CancelGuest(e) \/ CancelHost(e, sync)
  /\ UNCHANGED <<kind, realloc, done, live, saved, buffer, made>>

-----------------------------------------------------------------------------
(* Dropping and handing over the ends *)

\* Mutant: the count of the old event is lost.
UpdatedUncounted(e, pending) == [event EXCEPT ![e] = Event("Dropped", 0, TRUE)]

\* update_event with the code Dropped.
Updated(e, pending) ==
  LET old == event[e]
  IN [event EXCEPT ![e] =
        IF old = NoEvent THEN Event("Dropped", 0, pending)
        ELSE IF kind = "future" THEN old
        ELSE Event("Dropped", old.n, old.pending \/ pending)]

\* Mutant: a call that waits for this end is not told.
DropEndSilent(e) ==
  LET other == Side(Other(e))
      left  == IF other.st = "Dropped" THEN Dropped ELSE Open
  IN /\ IF e = "w" THEN read' = left ELSE write' = left
     /\ event' = IF other.st = "Open" THEN Updated(Other(e), FALSE) ELSE event
     /\ live' = (other.st # "Dropped")
     /\ local' = [local EXCEPT ![e] = "gone"]

\* Mutant: the state is deleted with the first end.
DropEndDeletes(e) ==
  LET other == Side(Other(e))
      left  == IF other.st = "Dropped" THEN Dropped ELSE Open
  IN /\ IF e = "w" THEN read' = left ELSE write' = left
     /\ event' = IF other.st \in {"GuestReady", "Open"}
                 THEN Updated(Other(e), other.st = "GuestReady") ELSE event
     /\ live' = (other.st = "GuestReady")
     /\ local' = [local EXCEPT ![e] = "gone"]

\* The end e is gone; the other end is told, or nobody is left.
DropEnd(e) ==
  LET other == Side(Other(e))
      left  == IF other.st = "Dropped" THEN Dropped ELSE Open
  IN /\ IF e = "w" THEN read' = left ELSE write' = left
     /\ event' = IF other.st \in {"GuestReady", "Open"}
                 THEN Updated(Other(e), other.st = "GuestReady") ELSE event
     /\ live' = (other.st # "Dropped")
     /\ local' = [local EXCEPT ![e] = "gone"]

\* guest_drop_readable, or `close` of the host's reader: host_drop_reader
DropReader ==
  /\ local["r"] \in {"Idle", "Done", "host"} /\ waiting["r"] = "no" /\ ~bug
  /\ read' = Dropped
  /\ DropEnd("r")
  /\ UNCHANGED <<kind, realloc, done, waiting, cancelled, embed, data, bug>>

\* guest_drop_writable: host_drop_writer.  A future must have been written.
DropWriter ==
  /\ local["w"] \in {"Idle", "Done"} /\ waiting["w"] = "no" /\ ~bug
  /\ kind = "future" /\ write.st = "Open" => done \/ read.st = "Dropped"
  /\ write' = IF write.st = "Open" THEN Dropped ELSE write
  /\ DropEnd("w")
  /\ bug' = (write.st \in {"GuestReady", "Dropped"})
  /\ UNCHANGED <<kind, realloc, done, waiting, cancelled, embed, data>>

\* lift_index_to_stream, lift_index_to_future: the read end goes to the host.
Lift ==
  /\ local["r"] = "Idle" /\ waiting["r"] = "no" /\ ~bug
  /\ ~done
  /\ LiftWhole => ~(write.st = "GuestReady" /\ event["w"].pending)
  /\ local' = [local EXCEPT !["r"] = "host"]
  /\ UNCHANGED <<kind, realloc, state, event, waiting, cancelled, embed, data, bug>>

\* lower_stream_to_index, lower_future_to_index: to a guest.
LowerHandle ==
  /\ local["r"] = "host" /\ ~bug
  /\ local' = [local EXCEPT !["r"] = "Idle"]
  /\ UNCHANGED <<kind, realloc, state, event, waiting, cancelled, embed, data, bug>>

\* `pipe`: set_consumer
SetConsumer ==
  /\ local["r"] = "host" /\ ~bug
  /\ IF write.st = "Dropped"
     THEN read' = Dropped /\ live' = FALSE /\ host' = host
     ELSE /\ read' = IF write.st = "HostReady" THEN HostToHost ELSE HostReady
          /\ host' = IF write.st = "HostReady" THEN "relay"
                     ELSE IF write.st = "GuestReady" THEN "consume" ELSE "none"
          /\ live' = live
  /\ local' = [local EXCEPT !["r"] = IF write.st = "Dropped" THEN "gone" ELSE "piped"]
  /\ UNCHANGED <<kind, realloc, write, done, event, waiting, cancelled, saved, buffer, made, data, bug>>

-----------------------------------------------------------------------------
Poll == Consume \/ Produce \/ Lower \/ Relay
Wake(e) == Deliver(e) \/ Resume(e)

Next ==
  \/ \E count \in 0..MaxCount, sync \in BOOLEAN : GuestWrite(count, sync)
  \/ \E count \in 0..MaxCount, sync \in BOOLEAN : GuestRead(count, sync)
  \/ \E e \in Ends : Wake(e)
  \/ \E e \in Ends, sync \in BOOLEAN : GuestCancel(e, sync)
  \/ DropReader \/ DropWriter \/ Lift \/ LowerHandle \/ SetConsumer
  \/ Poll

Spec == Init /\ [][Next]_vars

\* A host that was asked to finish does so, and what was queued is run.
Finish == (write.cancel \/ read.cancel) /\ Poll /\ host' # host

FairSpec ==
  /\ Spec
  /\ \A e \in Ends : WF_vars(Wake(e))
  /\ WF_vars(Finish) /\ WF_vars(Lower)
-----------------------------------------------------------------------------
(* Properties *)

TypeOK ==
  /\ kind \in {"stream", "future"} /\ {realloc, done, live, bug} \subseteq BOOLEAN
  /\ \A s \in {write, read} :
       /\ s.st \in {"Open", "Dropped", "GuestReady", "HostReady", "HostToHost"}
       /\ s.count \in 0..MaxCount /\ s.offset \in 0..MaxCount
  /\ local \in [Ends -> {"Idle", "Done", "Busy", "host", "piped", "gone"}]
  /\ waiting \in [Ends -> {"no", "call", "cancel"}] /\ cancelled \subseteq Ends
  /\ host \in {"none", "consume", "produce", "lower", "relay"}
  /\ \A e \in Ends : event[e].code \in Codes \cup {"None"}

\* No sequence of calls, deliveries and polls reaches one of the places that
\* bail_bug! declares unreachable.
NoBug == ~bug

Owed(e) == Items(event[e].code, event[e].n)
Guestly(e) == local[e] \in {"Idle", "Done", "Busy"}

\* Every item arrives once, unchanged and in order; and the numbers of items
\* that the two sides have been told, or will be told by an event that waits,
\* agree, whatever was split, cancelled or dropped.
Lossless ==
  /\ \A i \in 1..Len(got) : got[i] = i
  /\ \A i \in 1..Owed("r") : memory[i] = Len(got) + i
  /\ IF local["w"] = "host"
     THEN made - Len(buffer) = Len(got) + Owed("r")
     ELSE next + Owed("w") + (IF host = "consume" THEN read.offset ELSE 0)
            = Len(got) + Owed("r")

InProgress(e) ==
  \/ Side(e).st = "GuestReady"
  \/ event[e].pending
  \/ host = (IF e = "w" THEN "consume" ELSE "produce")
  \/ e = "r" /\ host = "lower"

\* A handle is busy exactly while its call is in progress: no completion is
\* lost, and nothing touches a guest's buffer after its call has ended.
BusyExact == TypeOK /\ \A e \in Ends : local[e] = "Busy" <=> InProgress(e)

\* A read and a write never wait for each other: one of them has its result.
NoStall ==
  write.st = "GuestReady" /\ read.st = "GuestReady" => \E e \in Ends : event[e].pending

\* The state is deleted when both guests have dropped their ends, and never
\* while somebody still uses it.
Reclaimed ==
  /\ local["w"] = "gone" /\ local["r"] = "gone" => ~live
  /\ ~live => ~Guestly("w") /\ ~Guestly("r") /\ local["r"] # "host" /\ host = "none"

\* An end is closed, and that shows in the state or at the other end.
Closed ==
  \/ ~live \/ write.st = "Dropped" \/ read.st = "Dropped"
  \/ \E e \in Ends : local[e] \in {"gone", "Done"}

Moved == Len(got) + Owed("r")

C == INSTANCE Channel WITH
       moved  <- Moved,
       told   <- [e \in Ends |->
                    IF e = "w" THEN (IF local["w"] = "host" THEN Moved ELSE next)
                    ELSE IF Guestly("r") THEN Len(got) ELSE Moved],
       closed <- Closed

\* The ends are only told exact counts, and nothing moves through a stream or
\* future one end of which is closed: the code implements Channel.
ImplementsChannel == C!Spec

\* A call whose other end is dropped, or that is cancelled, ends: the event
\* that reports it is neither lost nor left waiting for ever.
CallsEnd ==
  \A e \in Ends :
    /\ (local[e] = "Busy" /\ local[Other(e)] = "gone") ~> (local[e] # "Busy")
    /\ (e \in cancelled) ~> (e \notin cancelled)
=============================================================================
