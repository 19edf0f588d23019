------------------------------- MODULE Parser -------------------------------
(***************************************************************************)
(* The parser of src/parser.c: parse reads the name of the command with    *)
(* get_next_token, get_argc counts the tokens of the whole message with a  *)
(* second Parser, and the first one goes on to read that many arguments.   *)
(* One action is one step of the loop that get_next_token is in.           *)
(***************************************************************************)
EXTENDS Chars

VARIABLES
  string,      \* Parser.string
  parser, dup, \* Parser.pos of the parser of parse, and of that of get_argc
  scan,        \* what get_next_token is called for: "name", "count", "args";
               \* "done", or "crashed" on a token that is not there
  mode,        \* where in get_next_token: "blanks", "id" or "string"
  token,       \* the token read so far
  argc, name, args

parserVars == <<string, parser, dup, scan, mode, token, argc, name, args>>

\* Parser.pos and Parser.current_char of the parser at work.
pos == IF scan = "count" THEN dup ELSE parser
current_char == IF pos < Len(string) THEN string[pos + 1] ELSE NULL

Scanning(where) == scan \in {"name", "count", "args"} /\ mode = where
-----------------------------------------------------------------------------
ParserInit ==
  /\ string = <<>> /\ parser = 0 /\ dup = 0
  /\ scan = "done" /\ mode = "blanks" /\ token = <<>>
  /\ argc = -1 /\ name = NULL /\ args = <<>>

\* parser_init, and the call of get_next_token for the name.
parser_init(msg) ==
  /\ string' = msg /\ parser' = 0 /\ dup' = 0
  /\ scan' = "name" /\ mode' = "blanks" /\ token' = <<>>
  /\ argc' = 0 /\ name' = NULL /\ args' = <<>>

MoveTo(p) == IF scan = "count" THEN dup' = p /\ UNCHANGED parser
                               ELSE parser' = p /\ UNCHANGED dup

\* Mutants of Advanced: the loop over the blanks stays where it is; the end of
\* the message is no limit.
StuckInBlanks == IF mode = "blanks" THEN pos
                 ELSE IF pos < Len(string) THEN pos + 1 ELSE pos
Unlimited == pos + 1

\* Where parser_advance goes from here.
Advanced == IF pos < Len(string) THEN pos + 1 ELSE pos

\* A step of a loop: on to the next character, which is kept or not.
Step(where, kept) ==
  /\ MoveTo(Advanced) /\ mode' = where /\ token' = token \o kept
  /\ UNCHANGED <<string, scan, argc, name, args>>

\* Mutant of get_argc: the name is counted as an argument.
get_argc_with_name(tokens) == tokens

\* "- 1 for command"
get_argc(tokens) == tokens - 1

\* get_next_token returns t, having moved to p, to whoever called it.
Return(t, p) ==
  /\ MoveTo(p) /\ mode' = "blanks" /\ token' = <<>> /\ UNCHANGED string
  /\ \/ /\ scan = "name" /\ scan' = "count"
        /\ name' = t /\ UNCHANGED <<argc, args>>
     \/ /\ scan = "count" /\ t # NULL
        /\ argc' = argc + 1 /\ UNCHANGED <<scan, name, args>>
     \/ /\ scan = "count" /\ t = NULL
        /\ argc' = get_argc(argc)
        /\ scan' = IF argc' > 0 THEN "args" ELSE "done"
        /\ UNCHANGED <<name, args>>
     \/ /\ scan = "args" /\ t # NULL
        /\ args' = Append(args, t)
        /\ scan' = IF Len(args') < argc THEN "args" ELSE "done"
        /\ UNCHANGED <<argc, name>>
     \/ /\ scan = "args" /\ t = NULL
        /\ scan' = "crashed" /\ UNCHANGED <<argc, name, args>>
-----------------------------------------------------------------------------
SkipBlank == Scanning("blanks") /\ current_char \in Blanks /\ Step("blanks", <<>>)

NoToken == Scanning("blanks") /\ current_char = NULL /\ Return(NULL, pos)

\* The first quote of parse_string.
OpenString == Scanning("blanks") /\ current_char \in Quotes /\ Step("string", <<>>)

OpenId == /\ Scanning("blanks") /\ current_char \notin Blanks \cup Quotes \cup {NULL}
          /\ Step("id", <<current_char>>)

\* Mutant of EndsId: a quote ends an identifier too.
EndsAtQuote == current_char \in Blanks \cup Quotes \cup {NULL}

\* Either quote ends a string, and so does the end of the message.
EndsString == current_char \in Quotes \cup {NULL}

\* A quote does not end an identifier.
EndsId == current_char \in Blanks \cup {NULL}

parse_string ==
  /\ Scanning("string")
  /\ \/ ~EndsString /\ Step("string", <<current_char>>)
     \/ EndsString /\ Return(token, Advanced)

parse_id ==
  /\ Scanning("id")
  /\ \/ ~EndsId /\ Step("id", <<current_char>>)
     \/ EndsId /\ Return(token, pos)

parse == SkipBlank \/ NoToken \/ OpenString \/ OpenId \/ parse_string \/ parse_id
-----------------------------------------------------------------------------
ParserTypeOK ==
  /\ parser \in 0 .. Len(string) /\ dup \in 0 .. Len(string)
  /\ scan \in {"name", "count", "args", "done", "crashed"}
  /\ mode \in {"blanks", "id", "string"}
  /\ argc \in -1 .. Len(string) /\ Len(args) <= Len(string)
=============================================================================
