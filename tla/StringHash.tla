----------------------------- MODULE StringHash -----------------------------
(***************************************************************************)
(* The two string hashes of src/helper.c, over keys given as sequences of  *)
(* character codes. In C the accumulator is an unsigned long; for the one- *)
(* and two-character keys of the instances it never reaches 2^31.          *)
(***************************************************************************)
EXTENDS Integers, Sequences, SequencesExt

djb2(str) == FoldLeft(LAMBDA hash, c : 33 * hash + c, 5381, str)

\* c + (hash << 6) + (hash << 16) - hash
sdbm(str) == FoldLeft(LAMBDA hash, c : c + 65599 * hash, 0, str)
=============================================================================
