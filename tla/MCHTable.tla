------------------------------ MODULE MCHTable ------------------------------
(***************************************************************************)
(* Instances of HTable whose keys are one-character strings, hashed by the *)
(* real functions.                                                         *)
(***************************************************************************)
EXTENDS HTable, TLC, StringHash

\* Odd codes, no multiple of 5 or 11: in tables of 2, 5 and 11 slots the probe
\* step of each is not 0. "a" and "w" probe 11 slots in the same order, "a"
\* and "k" probe 5 slots in the same order.
CoveringKeys == {"a", "e", "k", "w"}

\* "a" and "k" probe 5 slots in the same order; "i" and "s" have probe step 0
\* there, and only ever look at slot 3.
AnyKeys == {"a", "i", "k", "s"}

\* What djb2 and sdbm return for a key, tabulated: sdbm of a one-character
\* string is its character code.
RealDjb2 == [a |-> 177670, b |-> 177671, e |-> 177674, i |-> 177678,
             k |-> 177680, s |-> 177688, w |-> 177692]
RealSdbm == [a |-> 97, b |-> 98, e |-> 101, i |-> 105, k |-> 107, s |-> 115, w |-> 119]

ASSUME TabulationIsRight ==
  \A k \in DOMAIN RealDjb2 : RealDjb2[k] = djb2(<<RealSdbm[k]>>)
                             /\ RealSdbm[k] = sdbm(<<RealSdbm[k]>>)

\* The covering keys are those that are never refused or lost, and the others
\* are not all the keys that are.
ASSUME ProbesCover ==
  /\ Keys = CoveringKeys => Shaky = {}
  /\ Keys = AnyKeys => Shaky = {"i", "s"}
  /\ \A k \in Keys : (\A s \in Sizes : Covers(k, s)) <=> k \notin Shaky

\* hash_func in ints of 8 bits, which fit tables of up to 11 slots.
Int8 == INSTANCE HashWidth WITH IntMax <- 127

ASSUME WidthSuffices ==
  \A k \in Keys, s \in {2, 5, 11} : \A i \in Slots(s) : Int8!hash_func_int(k, s, i) = hash_func(k, s, i)

Symmetric == Permutations(Handles)
=============================================================================
