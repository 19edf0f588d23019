------------------------------ MODULE Hashing ------------------------------
(***************************************************************************)
(* The arithmetic that decides where a key lives in an open-addressing     *)
(* table of hyperkv: hash_func and next_prime of src/helper.c.             *)
(*                                                                         *)
(* The two string hashes are constants, so that everything stated over     *)
(* this module holds for every pair of hash functions; StringHash computes *)
(* their real values for the keys of the model-checking instances.         *)
(* Integers are unbounded here; HashWidth says for which sizes that agrees *)
(* with the C int arithmetic of hash_func.                                 *)
(***************************************************************************)
EXTENDS Integers

CONSTANTS Keys,       \* the keys (NUL-terminated strings) clients use
          Djb2, Sdbm, \* their two unsigned hashes, before "% size"
          MaxRequest  \* bound: no table of more slots is ever asked for

ASSUME HashAssumption ==
  /\ \A k \in Keys : Djb2[k] \in Nat /\ Sdbm[k] \in Nat
  /\ MaxRequest \in Nat \ {0, 1}

HT_BASE_SIZE == 2

\* Trial division by the odd numbers up to floor(sqrt(x)).
is_prime(x) ==
  /\ x >= 2
  /\ x = 2 \/ /\ x % 2 # 0
              /\ \A d \in 3 .. x : (d % 2 = 1 /\ d * d <= x) => x % d # 0

FirstPrimeFrom(x, y) == is_prime(y) /\ \A z \in x .. (y - 1) : ~is_prime(z)

\* Bertrand's postulate on the sizes in use: the search of next_prime ends.
ASSUME PrimesAssumption ==
  \A x \in 2 .. MaxRequest : \E y \in x .. 2 * x : FirstPrimeFrom(x, y)

next_prime(x) == IF x < 2 THEN 2 ELSE CHOOSE y \in x .. 2 * x : FirstPrimeFrom(x, y)

\* The slot that attempt i of the double-hashing probe of key visits.
hash_func(key, size, i) ==
  ((Djb2[key] % size) + i * (Sdbm[key] % size)) % size
=============================================================================
