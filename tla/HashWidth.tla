----------------------------- MODULE HashWidth ------------------------------
(***************************************************************************)
(* hash_func of src/helper.c in C int arithmetic. Hashing, which the table *)
(* and the set are specified over, computes the same slot in unbounded     *)
(* integers; Probing_proofs says how large a table may grow before the two *)
(* differ.                                                                 *)
(***************************************************************************)
EXTENDS Hashing, CInt

\* The % of C takes the sign of the dividend.
Remainder(a, b) == IF a >= 0 THEN a % b ELSE -((-a) % b)

\* The sum and the product of hash_func are ints.
hash_func_int(k, s, j) ==
  Remainder(AsInt((Djb2[k] % s) + AsInt(j * (Sdbm[k] % s))), s)
=============================================================================
