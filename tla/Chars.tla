------------------------------- MODULE Chars --------------------------------
(***************************************************************************)
(* Characters, and texts as sequences of them. A NUL is not part of a text.*)
(***************************************************************************)
EXTENDS Integers, Sequences

CONSTANTS Blanks, \* the characters isspace accepts
          Quotes, \* the two quotes
          NULL    \* the character that ends a text; also: no text

ASSUME CharAssumption == NULL \notin Blanks \cup Quotes /\ Blanks \cap Quotes = {}
=============================================================================
