----------------------------- MODULE MCOpenSet -----------------------------
(***************************************************************************)
(* Instances of OpenSet with the real hashes of one-character strings. In  *)
(* tables of 2, 5, 11 and 23 slots the probe steps of "a", "e" and "k" are *)
(* not 0, and "a" and "k" probe 5 slots in the same order. "i" has step 0  *)
(* there, and only ever looks at slot 3.                                   *)
(***************************************************************************)
EXTENDS OpenSet

CoveringKeys == {"a", "e", "k"}
AnyKeys == {"a", "i", "k"}

RealDjb2 == [a |-> 177670, e |-> 177674, i |-> 177678, k |-> 177680]
RealSdbm == [a |-> 97, e |-> 101, i |-> 105, k |-> 107]

\* Which strings may be refused or lost, and that for the others each probe
\* sequence visits every slot.
ASSUME ProbesCover ==
  /\ Keys = CoveringKeys => Shaky = {}
  /\ Keys = AnyKeys => Shaky = {"i"}
  /\ \A k \in Keys : (\A s \in Sizes : Covers(k, s)) <=> k \notin Shaky
=============================================================================
