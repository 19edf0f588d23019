-------------------------------- MODULE CInt --------------------------------
(***************************************************************************)
(* The int of C as the build compiles it (gcc without optimisation, the    *)
(* Makefile's flags): arithmetic wraps. The width is a parameter; it is 32 *)
(* bits in the program and a few bits in the model-checking instances.     *)
(***************************************************************************)
EXTENDS Integers

CONSTANT IntMax \* the largest int

ASSUME WidthAssumption == IntMax \in Nat \ {0}

IntRange == -IntMax - 1 .. IntMax

AsInt(n) == IF n \in IntRange THEN n
            ELSE ((n + IntMax + 1) % (2 * (IntMax + 1))) - IntMax - 1
=============================================================================
