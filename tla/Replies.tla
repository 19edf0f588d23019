------------------------------ MODULE Replies -------------------------------
(***************************************************************************)
(* The text of a reply: what the reply_* functions of src/interpreter.c    *)
(* print into which buffer, and what the parse_* functions of src/client.c *)
(* read from it. A text is a sequence of characters, its NUL left out; the *)
(* words of an error message are one character.                            *)
(***************************************************************************)
EXTENDS Chars, CInt, SequencesExt

DigitChar == <<"0", "1", "2", "3", "4", "5", "6", "7", "8", "9">>
CRLF == <<"cr", "nl">>

Decimal[n \in Nat] ==
  IF n < 10 THEN <<DigitChar[n + 1]>> ELSE Decimal[n \div 10] \o <<DigitChar[(n % 10) + 1]>>

FirstOf(char, text) == SelectInSeq(text, LAMBDA c : c = char)

\* What %d prints.
Printed(x) == IF x < 0 THEN <<"-">> \o Decimal[-x] ELSE Decimal[x]
-----------------------------------------------------------------------------
\* helper.c

\* Mutant of ndigits: the least int is given its digits.
ndigits_of_all(x) == IF x = 0 THEN 0 ELSE Len(Decimal[IF x < 0 THEN -x ELSE x])

\* The loop does not run for 0, nor for the least int, which is its own negative.
ndigits(x) == LET n == IF x < 0 THEN AsInt(-x) ELSE x
              IN  IF n > 0 THEN Len(Decimal[n]) ELSE 0

Unsigned(str) == IF str # <<>> /\ Head(str) = "-" THEN Tail(str) ELSE str

is_number(str) == \A i \in DOMAIN Unsigned(str) : Contains(DigitChar, Unsigned(str)[i])

\* The loop of strtoi, and of parse_int.
Value(digits) ==
  LET value[i \in 0 .. Len(digits)] ==
        IF i = 0 THEN 0 ELSE AsInt(value[i - 1] * 10 + FirstOf(digits[i], DigitChar) - 1)
  IN  value[Len(digits)]

strtoi(str) ==
  LET n == Value(Unsigned(str))
  IN  IF Unsigned(str) = str THEN n ELSE AsInt(-n)
-----------------------------------------------------------------------------
\* interpreter.c

\* A buffer of so many bytes with a text printed in it; spare is what is left
\* of it after the NUL, negative when it was too small.
Buffer(size, text) == [text |-> text, spare |-> size - Len(text) - 1]

\* The text of a string constant, by strdup.
Copy(text) == Buffer(Len(text) + 1, text)

intostr(x) == Buffer(ndigits(x) + 2, Printed(x))

reply_string(str) ==
  IF str = NULL THEN Copy(<<"$", "-", "1">> \o CRLF)
  ELSE LET n == Len(str) IN
       Buffer(n + ndigits(n) + 7, <<"$">> \o Printed(n) \o CRLF \o str \o CRLF)

\* Mutant of reply_integer: no room for the sign.
reply_unsigned(x) == Buffer(ndigits(x) + 4, <<":">> \o Printed(x) \o CRLF)

reply_integer(x) == Buffer(ndigits(x) + 5, <<":">> \o Printed(x) \o CRLF)

element(str) == IF str # NULL /\ is_number(str) THEN reply_integer(strtoi(str))
                                                 ELSE reply_string(str)

\* The reply grows with the elements, to what it then needs.
reply_array_n(arr) ==
  LET header == Buffer(ndigits(Len(arr)) + 5, <<"*">> \o Printed(Len(arr)) \o CRLF)
      elements == [i \in DOMAIN arr |-> element(arr[i])]
  IN  [text |-> header.text \o FlattenSeq([i \in DOMAIN arr |-> elements[i].text]),
       spare |-> Min({header.spare} \cup {elements[i].spare : i \in DOMAIN arr})]

\* Of the 54 in the code two are for a digit ndigits does not count and the NUL.
reply_err_argc(given, expected) ==
  LET fixed == Len(<<"-", "ERR">> \o CRLF)
  IN  Buffer(ndigits(given) + Len(expected) + fixed + 2,
             <<"-", "ERR">> \o Printed(given) \o expected \o CRLF)

reply_err == Copy(<<"-", "ERR">> \o CRLF)
-----------------------------------------------------------------------------
\* client.c

parse_int(resp) == strtoi(SubSeq(resp, 2, FirstOf("cr", resp) - 1))

\* Mutant of Body: the newline of the header is taken along.
BodyWithNewline(resp) == SubSeq(resp, FirstOf("nl", resp), Len(resp))

\* What follows the header.
Body(resp) == SubSeq(resp, FirstOf("nl", resp) + 1, Len(resp))

parse_str(resp) ==
  IF parse_int(resp) < 0 THEN NULL ELSE SubSeq(Body(resp), 1, parse_int(resp))

parse_err(resp) == SubSeq(resp, 2, Len(resp) - 2)
=============================================================================
