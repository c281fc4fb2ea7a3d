------------------------------- MODULE Channel --------------------------------
(***************************************************************************)
(* What a stream or future promises to the programs at its two ends.       *)
(* Items move from one end to the other; each end is told later, and       *)
(* perhaps after more items have moved, but whenever it is told anything   *)
(* new its knowledge is complete.  Once an end is closed nothing moves.    *)
(***************************************************************************)
EXTENDS Naturals

VARIABLES
  moved,    \* the number of items that have left the writer for the reader
  told,     \* the number of items each end has been told of
  closed    \* one of the ends is closed

Ends == {"w", "r"}

Init == moved = 0 /\ told = [e \in Ends |-> 0] /\ closed = FALSE

Next ==
  /\ closed' \in BOOLEAN
  /\ moved' \in Nat /\ moved' >= moved
  /\ closed => closed' /\ moved' = moved
  /\ told' \in [Ends -> Nat]
  /\ \A e \in Ends : told'[e] \in {told[e], moved'}

Spec == Init /\ [][Next]_<<moved, told, closed>>
=============================================================================
