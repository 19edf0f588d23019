------------------------------ MODULE Exchange -------------------------------
(***************************************************************************)
(* One prompt and the server, one line after the other: what is typed, how *)
(* fgets, writeline and readline carry it, the words the parser finds, the *)
(* reply and what the prompt shows. Server has the sessions; here are the  *)
(* bytes. interpret answers anything of the kinds that its commands do.    *)
(*                                                                         *)
(* A line is built word by word, so that words is what it means: blanks    *)
(* part words; a word that begins with a quote lasts to the next one of    *)
(* either kind or to the end of the message, and may hold blanks; any      *)
(* other lasts to a blank, and may hold quotes.                            *)
(***************************************************************************)
EXTENDS Parser, Replies

CONSTANTS Letters,   \* the characters that are neither blank nor quote
          Commands,  \* the words that name a command
          Ints,      \* the integers that commands answer
          BufSize,   \* the 1024 bytes of repl and readline
          Leads,     \* bound: the blanks a line may begin with
          MaxChars,  \* bound: characters after those
          Garbage    \* what the prompt shows of memory nobody wrote

ASSUME ExchangeAssumption ==
  /\ BufSize \in Nat /\ Leads \subseteq Nat /\ MaxChars \in Nat /\ Ints \subseteq IntRange
  /\ {"sp", "nl"} \subseteq Blanks /\ Letters \cap (Blanks \cup Quotes \cup {NULL}) = {}

\* The characters of a line.
Typable == Letters \cup Quotes \cup Blanks

ASSUME TextAssumption == NULL \notin Seq(Typable)

\* A buffer counts its bytes in an int, and holds each reply whose text varies
\* in an int alone: the longest is the error on the number of arguments.
ASSUME BufferAssumption ==
  BufSize <= IntMax /\ \A x \in IntRange : Len(Printed(x)) + 7 <= BufSize

VARIABLES
  stage,       \* "typing", "parsing", "replying", "shown"; "overrun" once a
               \* read has filled its buffer and there is no NUL to be found
  line, words, \* what is typed, and the words it means
  last,        \* "gap", "word", "string", or "open": a string with no end
  room,        \* characters that may still be typed
  answer,      \* what interpret answers: [kind, texts, number]
  reply,       \* its text in a buffer
  shown        \* what the prompt shows: [as, text, number]

typing == <<line, words, last, room>>
vars == <<parserVars, typing, stage, answer, reply, shown>>

Nothing == [as |-> "nothing", text |-> <<>>, number |-> 0]
NoAnswer == [kind |-> "none", texts |-> <<>>, number |-> 0]

Fresh(lead) ==
  /\ stage' = "typing" /\ last' = "gap" /\ room' = MaxChars
  /\ line' = [i \in 1 .. lead |-> "sp"] /\ words' = <<>>

Init ==
  /\ ParserInit
  /\ \E lead \in Leads : line = [i \in 1 .. lead |-> "sp"]
  /\ stage = "typing" /\ words = <<>> /\ last = "gap" /\ room = MaxChars
  /\ answer = NoAnswer /\ reply = Copy(<<>>) /\ shown = Nothing
-----------------------------------------------------------------------------
\* The user.

Type(text, what) ==
  /\ stage = "typing" /\ last # "open" /\ Len(text) <= room
  /\ line' = line \o text /\ room' = room - Len(text) /\ last' = what
  /\ UNCHANGED <<parserVars, stage, answer, reply, shown>>

TypeBlank == Type(<<"sp">>, "gap") /\ UNCHANGED words

\* The rest of a word, or what is between the quotes of a string.
Rest == SeqOf(Letters \cup Quotes, room - 1)
Quoted(n) == SeqOf(Letters \cup {"sp"}, n)

TypeWord == \E c \in Letters, w \in Rest :
  last # "word" /\ Type(<<c>> \o w, "word") /\ words' = Append(words, <<c>> \o w)

TypeString == \E q, r \in Quotes, w \in Quoted(room - 2) :
  last # "word" /\ Type(<<q>> \o w \o <<r>>, "string") /\ words' = Append(words, w)

\* The newline at the end of the message is part of such a string.
TypeOpenString == \E q \in Quotes, w \in Quoted(room - 1) :
  last # "word" /\ Type(<<q>> \o w, "open") /\ words' = Append(words, w \o <<"nl">>)
-----------------------------------------------------------------------------
\* The bytes on the wire.

\* fgets keeps the newline and one byte for the NUL.
fgets(typed) == IF Len(typed) + 1 < BufSize THEN Append(typed, "nl")
                ELSE SubSeq(typed, 1, BufSize - 1)

\* Mutant of writeline: no newline of its own.
write_bare(msg) == Append(msg, NULL)

writeline(msg) == msg \o <<"nl", NULL>>

\* readline: a NUL is among the bytes of one read.
Terminated(bytes) == Len(bytes) <= BufSize

\* The text before the NUL loses its last character.
readline(bytes) == SubSeq(bytes, 1, Len(bytes) - 2)

\* fgets and writeline of repl, readline and the first step of parse.
Enter ==
  /\ stage = "typing"
  /\ LET bytes == writeline(fgets(line)) IN
     \/ /\ Terminated(bytes)
        /\ parser_init(readline(bytes)) /\ stage' = "parsing"
     \/ /\ ~Terminated(bytes)
        /\ stage' = "overrun" /\ UNCHANGED parserVars
  /\ shown' = Nothing
  /\ UNCHANGED <<typing, answer, reply>>

Parse == stage = "parsing" /\ parse /\ UNCHANGED <<typing, stage, answer, reply, shown>>
-----------------------------------------------------------------------------
Reply(kind, texts, number, buffer) ==
  /\ stage = "parsing" /\ scan = "done"
  /\ answer' = [kind |-> kind, texts |-> texts, number |-> number] /\ reply' = buffer
  /\ stage' = "replying"
  /\ UNCHANGED <<parserVars, typing, shown>>

exec_noop == argc < 0 /\ Reply("none", <<>>, 0, Copy(<<>>))

exec_unknown == argc >= 0 /\ name \notin Commands /\ Reply("error", <<>>, 0, reply_err)

\* The strings a command may answer: here, those it was given.
Strings == {NULL} \cup {args[i] : i \in DOMAIN args}

\* What the commands on data answer. incr and its kin answer an integer that
\* intostr also prints, smismember an array of integers that it printed.
interpret ==
  /\ argc >= 0 /\ name \in Commands
  /\ \/ \E s \in Strings : Reply("string", <<s>>, 0, reply_string(s))
     \/ \E x \in Ints : Reply("integer", <<>>, x, reply_integer(x))
     \/ \E x \in Ints : LET one == <<intostr(x).text>> IN Reply("array", one, 0, reply_array_n(one))
     \/ Reply("array", args, 0, reply_array_n(args))
     \/ Reply("error", <<>>, 0, reply_err)
     \/ Reply("error", <<>>, 0, reply_err_argc(argc, <<"expected">>))
-----------------------------------------------------------------------------
Show(as, text, number) ==
  shown' = [as |-> as, text |-> text, number |-> number] /\ stage' = "shown"

\* puts stops at a NUL, which parse_err may or may not leave at the end.
parse_resp(resp) ==
  LET is(c) == resp # <<>> /\ Head(resp) = c IN
  \/ is("$") /\ parse_str(resp) = NULL /\ Show("nil", <<>>, 0)
  \/ is("$") /\ parse_str(resp) # NULL /\ Show("string", parse_str(resp), 0)
  \/ is(":") /\ Show("integer", <<>>, parse_int(resp))
  \/ is("-") /\ \E tail \in {<<>>, <<Garbage>>} : Show("line", parse_err(resp) \o tail, 0)
  \/ ~(is("$") \/ is(":") \/ is("-")) /\ shown' = Nothing /\ stage' = "shown"

\* writeline of the server, readline and parse_resp of repl.
repl ==
  /\ stage = "replying"
  /\ LET bytes == writeline(reply.text) IN
     \/ Terminated(bytes) /\ parse_resp(readline(bytes))
     \/ ~Terminated(bytes) /\ stage' = "overrun" /\ UNCHANGED shown
  /\ UNCHANGED <<parserVars, typing, answer, reply>>

\* The next prompt. What the last line left behind is not looked at again.
prompt ==
  /\ stage = "shown" /\ \E lead \in Leads : Fresh(lead)
  /\ string' = <<>> /\ parser' = 0 /\ dup' = 0 /\ token' = <<>>
  /\ argc' = -1 /\ name' = NULL /\ args' = <<>> /\ UNCHANGED <<scan, mode>>
  /\ answer' = NoAnswer /\ reply' = Copy(<<>>) /\ shown' = Nothing
-----------------------------------------------------------------------------
Computer == Parse \/ exec_noop \/ exec_unknown \/ interpret \/ repl

Next == TypeBlank \/ TypeWord \/ TypeString \/ TypeOpenString \/ Enter \/ Computer \/ prompt

\* A user may stay at the prompt; client and server go on when they can.
Spec == Init /\ [][Next]_vars /\ WF_vars(Computer)
-----------------------------------------------------------------------------
TypeOK ==
  /\ ParserTypeOK
  /\ stage \in {"typing", "parsing", "replying", "shown", "overrun"}
  /\ last \in {"gap", "word", "string", "open"} /\ room \in 0 .. MaxChars
  /\ answer.kind \in {"none", "string", "integer", "array", "error"}
  /\ shown.as \in {"nothing", "nil", "string", "integer", "line"}

\* Quotes, blanks and the newlines that repl and writeline add: the command and
\* its arguments are the words that were typed, all and in order. parse relies
\* on two scans of the message to find the same tokens.
TokensAreTheWords ==
  stage = "parsing" /\ scan = "done" =>
    \/ words = <<>> /\ argc = -1
    \/ words # <<>> /\ <<name>> \o args = words /\ argc = Len(args)

\* parse copies argc arguments and never looks whether get_next_token returned
\* one; get_argc counted them all.
NoNullArgument == scan # "crashed"

\* The reply to a string: its header, the string and two line ends.
StringReply(n) == Len(Printed(n)) + n + 5

\* The read buffers hold a line with three bytes to spare (the newline of fgets,
\* that of writeline, the NUL) and a reply with two. Nothing else overruns, and
\* a string that came in a line need not go back.
OnlyLongTextsOverrun ==
  /\ stage \in {"parsing", "replying", "shown"} => Len(line) + 3 <= BufSize
  /\ stage = "shown" /\ shown.as = "string" => StringReply(Len(shown.text)) + 2 <= BufSize
  /\ stage = "overrun" =>
       \/ Len(line) + 3 > BufSize
       \/ /\ answer.kind = "string" /\ answer.texts[1] # NULL
          /\ StringReply(Len(answer.texts[1])) + 2 > BufSize
       \/ answer.kind = "array"

\* The prompt shows what the command answered: the string with all its
\* characters, quotes and newlines too, and every int with its sign; an error at
\* least as far as its text goes. Arrays are not shown (parse_resp).
AnswerShown ==
  stage = "shown" =>
    CASE answer.kind = "string" /\ answer.texts[1] = NULL -> shown = [Nothing EXCEPT !.as = "nil"]
      [] answer.kind = "string" /\ answer.texts[1] # NULL ->
           shown = [Nothing EXCEPT !.as = "string", !.text = answer.texts[1]]
      [] answer.kind = "integer" ->
           shown = [Nothing EXCEPT !.as = "integer", !.number = answer.number]
      [] answer.kind = "error" ->
           shown.as = "line" /\ IsPrefix(SubSeq(reply.text, 2, Len(reply.text) - 2), shown.text)
      [] OTHER -> shown = Nothing

\* The sizes that ndigits gives suffice for all but the least int, of which it
\* counts no digits: the additions make up for the 0 that has none, the sign,
\* the line ends and the NUL. An element need not be printed as the least int
\* is: strtoi drops leading zeros and wraps.
BuffersSuffice ==
  LET least == -IntMax - 1
      reads(str) == str # NULL /\ is_number(str) /\ strtoi(str) = least
  IN  stage = "replying" =>
        (reply.spare < 0 <=> \/ answer.kind = "integer" /\ answer.number = least
                             \/ answer.kind = "array" /\ \E i \in DOMAIN answer.texts :
                                                          reads(answer.texts[i]))

\* The loops of the parser end: a line that was entered is answered, unless it
\* or the answer overruns a buffer.
Returns == stage = "parsing" ~> stage \in {"shown", "overrun"}
=============================================================================
