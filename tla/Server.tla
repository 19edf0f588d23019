------------------------------- MODULE Server -------------------------------
(***************************************************************************)
(* The server of src/hyperkv.c and src/server.c, the prompts of            *)
(* src/client.c and the TCP connections between them. One process serves   *)
(* one connection until it quits; the others wait in the backlog, and may  *)
(* already send.                                                           *)
(*                                                                         *)
(* A connection is two streams of cells, one of command lines and one of   *)
(* replies. A read takes up to ReadCap cells, the 1024 bytes of readline,  *)
(* and goes by what begins at the first, up to its NUL. A command line is  *)
(* no longer than a read, but several may have come in; a reply may be     *)
(* longer. Every cell carries the number of its command. A process that    *)
(* ends closes its sockets. What is sent to a closed socket, or was left   *)
(* unread in it, resets the connection; the end that is still open learns  *)
(* of a "pending" reset from its next read or write, and a write on a      *)
(* "broken" connection raises SIGPIPE, which nothing handles.              *)
(***************************************************************************)
EXTENDS Integers, Sequences, FiniteSetsExt, SequencesExt

CONSTANTS Clients,
          Sizes,     \* c -> the lengths of the replies to its commands, in cells
          Lines,     \* the lengths of the lines with data commands, in cells
          ReadCap,   \* cells that one read takes
          Backlog,   \* connections that wait to be accepted
          MayAbort,  \* the clients whose users may end them with a signal
          MayEnd,    \* the clients whose input may end, as of a file or a pipe
          MaxSent,   \* bound: data commands a client sends
          NULL

ASSUME ServerAssumption ==
  /\ Sizes \in [Clients -> SUBSET (Nat \ {0})] /\ ReadCap \in Nat \ {0}
  /\ Lines \subseteq 1 .. ReadCap
  /\ Backlog \in Nat \ {0} /\ MaxSent \in Nat
  /\ MayAbort \subseteq Clients /\ MayEnd \subseteq Clients /\ NULL \notin Clients

VARIABLES pc,      \* the server: "start", "accept", "read", "write"; or how it ended:
                   \* "stopped", "killed" by a signal, or "failed"
          cfd,     \* the client it serves, or NULL
          answer,  \* what it is about to write: [n, size]
          waiting, \* the connections not yet accepted, in order
          client,  \* c -> "out", "prompt", "reading" or "gone"
          ended,   \* c -> its input has ended
          open,    \* c -> the server's end of its connection is open
          reset,   \* c -> "no", "pending" or "broken"
          up,      \* c -> cells not yet read by the server: [n, cmd]
          down,    \* c -> cells not yet read by the client
          sent,    \* c -> lines it has written
          shown,   \* c -> the command whose reply its last read began with
          done     \* c -> the commands of c that ran, in order

server == <<pc, cfd, answer, waiting>>
vars == <<server, client, ended, open, reset, up, down, sent, shown, done>>

\* No command: what a read without data, or a line without input, makes of the
\* buffer it was given.
JUNK == 0

\* What a line says; the cells of a line after its first are the "rest" of it.
Cmds == {"data", "quit", "shutdown", "junk"}

Running == pc \notin {"stopped", "killed", "failed"}

Init == /\ pc = "start" /\ cfd = NULL /\ answer = [n |-> JUNK, size |-> 1]
        /\ waiting = <<>>
        /\ client = [c \in Clients |-> "out"]
        /\ ended = [c \in Clients |-> FALSE]
        /\ open = [c \in Clients |-> FALSE]
        /\ reset = [c \in Clients |-> "no"]
        /\ up = [c \in Clients |-> <<>>] /\ down = [c \in Clients |-> <<>>]
        /\ sent = [c \in Clients |-> 0] /\ shown = [c \in Clients |-> 0]
        /\ done = [c \in Clients |-> <<>>]
-----------------------------------------------------------------------------
\* The reads of both ends.

\* Mutant of Taken: a read takes one cell.
TakenOne(cells) == 1

\* How many cells one read takes.
Taken(cells) == Min({ReadCap, Len(cells)})

\* Mutant of LeftUnread: what was read stays.
LeavesAll(cells) == cells

\* What a read leaves in the stream. It loses what it took behind the first
\* NUL, and may leave the rest of a line or a reply whose beginning it took.
LeftUnread(cells) == SubSeq(cells, Taken(cells) + 1, Len(cells))
-----------------------------------------------------------------------------
\* The client.

\* With the backlog full, connect waits; where nobody listens yet, it fails.
connect_server(c) ==
  /\ client[c] = "out" /\ Running /\ pc # "start" /\ Len(waiting) < Backlog
  /\ waiting' = Append(waiting, c)
  /\ client' = [client EXCEPT ![c] = "prompt"]
  /\ open' = [open EXCEPT ![c] = TRUE]
  /\ UNCHANGED <<pc, cfd, answer, ended, reset, up, down, sent, shown, done>>

connect_fails(c) ==
  /\ client[c] = "out" /\ (~Running \/ pc = "start")
  /\ client' = [client EXCEPT ![c] = "gone"]
  /\ UNCHANGED <<server, ended, open, reset, up, down, sent, shown, done>>

\* fgets at the end of the input: repl does not look at what it returns, and
\* sends the buffer as malloc gave it, now and for ever after.
end_of_input(c) ==
  /\ c \in MayEnd /\ client[c] = "prompt" /\ ~ended[c]
  /\ ended' = [ended EXCEPT ![c] = TRUE]
  /\ UNCHANGED <<server, client, open, reset, up, down, sent, shown, done>>

\* The cells of a line. Any but a data command is short.
Line(n, cmd, size) == [i \in 1 .. size |-> [n |-> n, cmd |-> IF i = 1 THEN cmd ELSE "rest"]]

\* A line at the prompt. A quit takes a number like any command of the user.
repl_write(c, cmd) ==
  /\ client[c] = "prompt" /\ (ended[c] <=> cmd = "junk")
  /\ cmd = "data" => sent[c] < MaxSent
  /\ IF reset[c] = "broken"
     THEN client' = [client EXCEPT ![c] = "gone"] /\ UNCHANGED sent
     ELSE /\ client' = [client EXCEPT ![c] = "reading"]
          /\ sent' = [sent EXCEPT ![c] = IF cmd = "junk" THEN @ ELSE @ + 1]
  /\ IF open[c]
     THEN /\ \E size \in IF cmd = "data" THEN Lines ELSE {1} :
               up' = [up EXCEPT ![c] = @ \o Line(IF cmd = "junk" THEN JUNK ELSE sent'[c], cmd, size)]
          /\ UNCHANGED reset
     ELSE reset' = [reset EXCEPT ![c] = "broken"] /\ UNCHANGED up
  /\ UNCHANGED <<server, ended, open, down, shown, done>>

repl_read(c) ==
  /\ client[c] = "reading" /\ down[c] # <<>>
  /\ shown' = [shown EXCEPT ![c] = Head(down[c])]
  /\ down' = [down EXCEPT ![c] = LeftUnread(@)]
  /\ client' = [client EXCEPT ![c] = "prompt"]
  /\ UNCHANGED <<server, ended, open, reset, up, sent, done>>

Reported(c) == [reset EXCEPT ![c] = IF @ = "no" THEN "no" ELSE "broken"]

\* readline returns its uninitialised buffer and never NULL, so that repl does
\* not end with the connection.
repl_read_eof(c) ==
  /\ client[c] = "reading" /\ down[c] = <<>> /\ ~open[c]
  /\ shown' = [shown EXCEPT ![c] = JUNK]
  /\ client' = [client EXCEPT ![c] = "prompt"]
  /\ reset' = Reported(c)
  /\ UNCHANGED <<server, ended, open, up, down, sent, done>>

\* The user ends the client without a quit. A socket closed with unread data
\* resets the connection at once.
abort(c) ==
  /\ c \in MayAbort /\ client[c] \in {"prompt", "reading"}
  /\ client' = [client EXCEPT ![c] = "gone"]
  /\ reset' = [reset EXCEPT ![c] = IF down[c] = <<>> THEN @ ELSE "pending"]
  /\ UNCHANGED <<server, ended, open, up, down, sent, shown, done>>
-----------------------------------------------------------------------------
\* The server.

\* socket, bind and listen, or an exit when one of them fails.
init_server ==
  /\ pc = "start" /\ pc' \in {"accept", "failed"}
  /\ UNCHANGED <<cfd, answer, waiting, client, ended, open, reset, up, down, sent, shown, done>>

\* A client that is gone by now is accepted all the same.
accept_connection ==
  /\ pc = "accept" /\ waiting # <<>>
  /\ cfd' = Head(waiting) /\ waiting' = Tail(waiting)
  /\ pc' = "read"
  /\ UNCHANGED <<answer, client, ended, open, reset, up, down, sent, shown, done>>

\* The end of the process, with all its sockets.
Exit(how) ==
  /\ pc' = how /\ cfd' = NULL /\ waiting' = <<>>
  /\ open' = [c \in Clients |-> FALSE]
  /\ reset' = [c \in Clients |->
                IF open[c] /\ (up'[c] # <<>> \/ Contains(waiting, c)) THEN "pending" ELSE reset[c]]

accept_fails ==
  /\ pc = "accept" /\ waiting # <<>>
  /\ UNCHANGED <<answer, client, ended, up, down, sent, shown, done>>
  /\ Exit("failed")

\* Mutant of close_connection: after a quit the loop of rediskw goes on.
keep_reading == /\ pc' = "read" /\ UNCHANGED <<cfd, open, reset>>

\* Mutant of close_connection: the next accept happens with the old client.
keep_client == /\ pc' = "accept" /\ UNCHANGED <<cfd, reset>>
               /\ open' = [open EXCEPT ![cfd] = FALSE]

close_connection ==
  /\ pc' = "accept" /\ cfd' = NULL
  /\ open' = [open EXCEPT ![cfd] = FALSE]
  /\ reset' = [reset EXCEPT ![cfd] = IF up'[cfd] = <<>> THEN @ ELSE "pending"]

\* What parse may make of the line that begins at a cell. The rest of a line
\* can be any text.
Parsed(cell) == IF cell.cmd = "rest" THEN Cmds ELSE {cell.cmd}

\* readline, parse and interpret. The rest of a line runs under its number.
rediskw_command ==
  /\ pc = "read" /\ up[cfd] # <<>>
  /\ up' = [up EXCEPT ![cfd] = LeftUnread(@)]
  /\ LET n == Head(up[cfd]).n IN
     \E cmd \in Parsed(Head(up[cfd])) :
       \/ /\ cmd = "data"
          /\ done' = [done EXCEPT ![cfd] = Append(@, n)]
          /\ \E s \in Sizes[cfd] : answer' = [n |-> n, size |-> s]
          /\ pc' = "write" /\ UNCHANGED <<cfd, waiting, open, reset>>
       \/ /\ cmd = "junk"
          /\ answer' = [n |-> JUNK, size |-> 1]
          /\ pc' = "write" /\ UNCHANGED <<done, cfd, waiting, open, reset>>
       \/ /\ cmd = "quit" /\ close_connection
          /\ UNCHANGED <<done, answer, waiting>>
       \/ /\ cmd = "shutdown" /\ Exit("stopped")
          /\ UNCHANGED <<done, answer>>
  /\ UNCHANGED <<client, ended, down, sent, shown>>

\* readline at the end of the stream: the buffer is parsed as it is, which
\* gives a NOOP or an unknown command and a reply of one cell.
rediskw_eof ==
  /\ pc = "read" /\ up[cfd] = <<>> /\ client[cfd] = "gone"
  /\ answer' = [n |-> JUNK, size |-> 1] /\ pc' = "write"
  /\ reset' = Reported(cfd)
  /\ UNCHANGED <<cfd, waiting, client, ended, open, up, down, sent, shown, done>>

\* Mutant of Cells: the empty answer to an empty line is not written.
CellsOfText(a) == IF a.n = JUNK THEN <<>> ELSE [i \in 1 .. a.size |-> a.n]

\* Every answer has a cell: the line end and the NUL of an empty one.
Cells(a) == [i \in 1 .. a.size |-> a.n]

writeline ==
  /\ pc = "write"
  /\ UNCHANGED <<answer, client, ended, up, sent, shown, done>>
  /\ \/ /\ client[cfd] # "gone"
        /\ down' = [down EXCEPT ![cfd] = @ \o Cells(answer)]
        /\ pc' = "read" /\ UNCHANGED <<cfd, waiting, open, reset>>
     \/ /\ client[cfd] = "gone" /\ reset[cfd] # "broken"
        /\ reset' = [reset EXCEPT ![cfd] = "broken"]
        /\ pc' = "read" /\ UNCHANGED <<cfd, waiting, open, down>>
     \/ /\ client[cfd] = "gone" /\ reset[cfd] = "broken"
        /\ Exit("killed") /\ UNCHANGED down
-----------------------------------------------------------------------------
ServerStep == init_server \/ accept_connection \/ accept_fails \/ rediskw_command \/ rediskw_eof \/ writeline

Next == \/ ServerStep
        \/ \E c \in Clients :
             \/ connect_server(c) \/ connect_fails(c)
             \/ \E cmd \in Cmds : repl_write(c, cmd)
             \/ end_of_input(c) \/ repl_read(c) \/ repl_read_eof(c) \/ abort(c)

Spec == Init /\ [][Next]_vars

\* The processes are scheduled, and no user stays at the prompt for ever: each
\* quits some time, unless the input ended before. The server gives no client a
\* time limit of its own.
Fairness == /\ WF_vars(ServerStep)
            /\ \A c \in Clients : /\ WF_vars(repl_read(c) \/ repl_read_eof(c))
                                  /\ WF_vars(repl_write(c, "junk"))
                                  /\ SF_vars(repl_write(c, "quit"))

FairSpec == Spec /\ Fairness
-----------------------------------------------------------------------------
TypeOK ==
  /\ pc \in {"start", "accept", "read", "write", "stopped", "killed", "failed"}
  /\ cfd \in Clients \cup {NULL} /\ (cfd # NULL <=> pc \in {"read", "write"})
  /\ waiting \in Seq(Clients) /\ Len(waiting) <= Backlog
  /\ client \in [Clients -> {"out", "prompt", "reading", "gone"}]
  /\ ended \in [Clients -> BOOLEAN] /\ open \in [Clients -> BOOLEAN]
  /\ reset \in [Clients -> {"no", "pending", "broken"}]
  /\ sent \in [Clients -> Nat] /\ shown \in [Clients -> Nat]

\* The replies to this client fit a read.
Fits(c) == \A s \in Sizes[c] : s <= ReadCap

\* A client at the prompt of an open connection was shown the reply to its last
\* command, and its commands have run, all of them and once each. Nothing but
\* the reads and writes of repl and rediskw taking turns keeps them in step, so
\* it is where the replies to the client fit a read.
Lockstep ==
  \A c \in Clients : open[c] /\ client[c] = "prompt" /\ ~ended[c] /\ Fits(c) =>
    shown[c] = sent[c] /\ done[c] = [i \in 1 .. sent[c] |-> i]

\* With replies longer than a read a client falls behind, and the server may
\* read two commands as one, or the second from its middle; but what runs, runs
\* once and in order.
InOrder == \A c \in Clients : \A i, j \in DOMAIN done[c] : i < j => done[c][i] < done[c][j]

\* Server and client do not wait for each other: when the client it serves waits
\* for an answer and the server for a command, one of them is on its way, also
\* after a reply was read in parts or two commands were read as one.
NoStandoff ==
  \A c \in Clients : cfd = c /\ pc = "read" /\ client[c] = "reading" =>
    up[c] # <<>> \/ down[c] # <<>>

\* Every client that got a connection is served, unless the server ends, or it
\* serves a prompt whose input has ended and that nothing stops.
Served == \A c \in Clients :
  Contains(waiting, c) ~> (cfd = c \/ ~Running \/ \E d \in MayEnd : cfd = d /\ ended[d])

\* Only a shutdown command ends the server.
OutlivesClients == pc # "killed"
=============================================================================
