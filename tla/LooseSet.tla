------------------------------ MODULE LooseSet ------------------------------
(***************************************************************************)
(* What a set of set.c promises: a bag. A member may be held several       *)
(* times, because an addition that meets a tombstone does not look for the *)
(* copy behind it; a removal takes one copy. A rehash merges copies and    *)
(* sweeps the tombstones away. A string of Shaky may also be refused, or   *)
(* lost in a rehash. The count knows of additions and removals only.       *)
(***************************************************************************)
EXTENDS Integers

CONSTANTS Keys, NULL,
          Shaky  \* the strings that may be refused or lost

VARIABLES copies, \* key -> how many copies are held
          used,   \* additions less removals
          stones, \* whether there are tombstones
          reply   \* the answer of the last operation

vars == <<copies, used, stones, reply>>

Answer(op, k, ok) == reply' = [op |-> op, key |-> k, ok |-> ok]

Init == /\ copies = [k \in Keys |-> 0] /\ used = 0 /\ stones = FALSE
        /\ reply = [op |-> "none", key |-> NULL, ok |-> FALSE]

\* A string is refused or lost only in favour of another one.
InTheWay(k) == k \in Shaky /\ \E d \in Keys \ {k} : copies[d] > 0

Add(k) ==
  \/ /\ copies[k] > 0 => stones
     /\ copies' = [copies EXCEPT ![k] = @ + 1] /\ used' = used + 1
     /\ stones' \in {stones, FALSE}
     /\ Answer("add", k, TRUE)
  \/ /\ copies[k] > 0 \/ InTheWay(k)
     /\ UNCHANGED <<copies, used, stones>>
     /\ Answer("add", k, FALSE)

Rem(k) ==
  \/ /\ copies[k] > 0
     /\ copies' = [copies EXCEPT ![k] = @ - 1] /\ used' = used - 1 /\ stones' = TRUE
     /\ Answer("rem", k, TRUE)
  \/ /\ copies[k] = 0
     /\ UNCHANGED <<copies, used, stones>>
     /\ Answer("rem", k, FALSE)

IsMember(k) == Answer("ismember", k, copies[k] > 0) /\ UNCHANGED <<copies, used, stones>>

\* A rehash meets a copy of what it has moved, or has no room for it.
Merge(k) ==
  /\ copies[k] > 0
  /\ copies' = [copies EXCEPT ![k] = @ - 1]
  /\ copies[k] > 1 \/ InTheWay(k)
  /\ UNCHANGED <<used, stones, reply>>

\* It is over when it has met all copies.
Sweep == /\ \A k \in Keys : copies[k] <= 1
         /\ stones' = FALSE /\ UNCHANGED <<copies, used, reply>>

Next == Sweep \/ \E k \in Keys : Add(k) \/ Rem(k) \/ IsMember(k) \/ Merge(k)

Spec == Init /\ [][Next]_vars
=============================================================================
