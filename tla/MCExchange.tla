----------------------------- MODULE MCExchange ------------------------------
(***************************************************************************)
(* An instance of Exchange, and the two conversions over all its ints.     *)
(***************************************************************************)
EXTENDS Exchange

MCCommands == {<<"x">>, <<"x", "dq">>}
MCInts == {-IntMax - 1, -10, -1, 0, 9, 10, IntMax}

\* parse_int reads what reply_integer prints.
ASSUME IntegersReturn ==
  \A x \in IntRange : parse_int(reply_integer(x).text) = x /\ strtoi(intostr(x).text) = x
=============================================================================
