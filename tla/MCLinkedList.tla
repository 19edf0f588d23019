---------------------------- MODULE MCLinkedList ----------------------------
(***************************************************************************)
(* Removal from either end, of some, of all and of more than there are;    *)
(* indices from either end, in and out of range.                           *)
(***************************************************************************)
EXTENDS LinkedList

MCCounts == {-5, -2, -1, 0, 1, 2}
MCIndices == {-5, -2, 0, 1, 4}
=============================================================================
