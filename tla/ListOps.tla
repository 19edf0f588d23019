------------------------------- MODULE ListOps -------------------------------
(***************************************************************************)
(* Positions in, and removal from, a list of values: what list.c means by  *)
(* an index and by a count. Indices count from 0, and from the end when    *)
(* negative.                                                               *)
(***************************************************************************)
EXTENDS Integers, Sequences, SequencesExt, FiniteSetsExt

\* The place in s that an index names; outside DOMAIN s it names none.
Place(s, id) == IF id < 0 THEN Len(s) + id + 1 ELSE id + 1

\* The index of the first v in s, or -1.
IndexOf(s, v) ==
  LET Hits == {i \in DOMAIN s : s[i] = v}
  IN  IF Hits = {} THEN -1 ELSE Min(Hits) - 1

\* The occurrences of v that a removal takes: the first "count" of them, the
\* last "-count", or all of them when count is 0.
Doomed(s, count, v) ==
  LET all == {i \in DOMAIN s : s[i] = v} IN
  CASE count = 0 -> all
    [] count > 0 -> {i \in all : Cardinality({j \in all : j <= i}) <= count}
    [] count < 0 -> {i \in all : Cardinality({j \in all : j >= i}) <= -count}

\* The i-th of a set of places.
Nth(S, i) == CHOOSE j \in S : Cardinality(S \cap (1 .. j)) = i

Without(s, count, v) ==
  LET kept == DOMAIN s \ Doomed(s, count, v)
  IN  [i \in 1 .. Cardinality(kept) |-> s[Nth(kept, i)]]
=============================================================================
