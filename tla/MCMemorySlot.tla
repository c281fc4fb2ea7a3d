----------------------------- MODULE MCMemorySlot -----------------------------
(* MemorySlot with a few pages and three overlapping images. *)
EXTENDS MemorySlot

ThreeExtents  == [a |-> {0}, b |-> {1, 2}, c |-> {0, 1}]
ThreeMinSizes == [a |-> 1, b |-> 3, c |-> 3]
=============================================================================
