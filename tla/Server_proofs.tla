---------------------------- MODULE Server_proofs ----------------------------
(***************************************************************************)
(* Theorems about Server for any number of clients, any backlog, replies   *)
(* of any length and reads of any size, and clients that die or whose      *)
(* input ends.                                                             *)
(*                                                                         *)
(* Ordered says of each client that whatever it sent and was not read yet  *)
(* comes after everything that ran. Queued says that a connection is held  *)
(* by one place at most, the backlog or the loop of rediskw, and is open   *)
(* there; Awaited, which needs it, that a client that reads has its        *)
(* command or its answer under way, or a closed connection. InStep says    *)
(* more of a client whose replies fit a read: exactly one of the two is    *)
(* under way, and it is about the last command.                            *)
(***************************************************************************)
EXTENDS Server, SequenceTheorems, TLAPS

\* A cell of a line.
Msg == [n : Nat, cmd : Cmds \cup {"rest"}]

\* The types, with those of the streams.
Typed ==
  /\ TypeOK
  /\ answer \in [n : Nat, size : Nat \ {0}]
  /\ up \in [Clients -> Seq(Msg)]
  /\ down \in [Clients -> Seq(Nat)]
  /\ done \in [Clients -> Seq(Nat)]

-----------------------------------------------------------------------------
(* Reads and lines *)

\* A read that takes everything leaves nothing; another takes ReadCap cells.
LEMMA ReadLeaves ==
  ASSUME NEW S, NEW cells \in Seq(S), cells # <<>>
  PROVE  /\ LeftUnread(cells) \in Seq(S)
         /\ Len(cells) <= ReadCap => LeftUnread(cells) = <<>>
         /\ \A k \in DOMAIN LeftUnread(cells) :
              /\ ReadCap + k \in DOMAIN cells
              /\ LeftUnread(cells)[k] = cells[ReadCap + k]
<1>1. Len(cells) \in Nat \ {0} /\ ReadCap \in Nat \ {0}
  BY ServerAssumption, EmptySeq
<1>2. Taken(cells) = IF ReadCap <= Len(cells) THEN ReadCap ELSE Len(cells)
  <2>1. \A a, b \in Nat : a <= b => Min({a, b}) = a /\ Min({b, a}) = a
    BY DEF Min
  <2> QED BY <1>1, <2>1 DEF Taken
<1> DEFINE t == Taken(cells)
<1>3. t \in 1 .. Len(cells)
  BY <1>1, <1>2
<1> HIDE DEF t
<1>4. /\ SubSeq(cells, t + 1, Len(cells)) \in Seq(S)
      /\ Len(SubSeq(cells, t + 1, Len(cells))) = Len(cells) - t
      /\ \A k \in 1 .. Len(cells) - t : SubSeq(cells, t + 1, Len(cells))[k] = cells[t + k]
  BY <1>1, <1>3
<1>5. CASE Len(cells) <= ReadCap
  <2>1. t = Len(cells)
    BY <1>1, <1>2, <1>5 DEF t
  <2>2. Len(SubSeq(cells, t + 1, Len(cells))) = 0
    BY <1>1, <1>4, <2>1
  <2>3. SubSeq(cells, t + 1, Len(cells)) = <<>>
    BY <1>4, <2>2, EmptySeq
  <2>4. LeftUnread(cells) = <<>>
    BY <2>3 DEF LeftUnread, t
  <2> QED BY <2>4
<1>6. CASE ~(Len(cells) <= ReadCap)
  <2>1. t = ReadCap
    BY <1>1, <1>2, <1>6 DEF t
  <2> QED BY <1>1, <1>4, <1>6, <2>1 DEF LeftUnread, t
<1> QED BY <1>5, <1>6

\* A line has a cell and fits a read, and all its cells have its number.
LEMMA LineShape ==
  ASSUME NEW n \in Nat, NEW cmd \in Cmds, NEW size \in 1 .. ReadCap
  PROVE  /\ Line(n, cmd, size) \in Seq(Msg) /\ Len(Line(n, cmd, size)) = size
         /\ \A k \in 1 .. size : Line(n, cmd, size)[k].n = n
         /\ Line(n, cmd, size)[1].cmd = cmd
<1>1. size \in Nat /\ 1 \in 1 .. size
  BY ServerAssumption
<1>2. \A i \in 1 .. size : [n |-> n, cmd |-> IF i = 1 THEN cmd ELSE "rest"] \in Msg
  BY DEF Msg
<1> QED BY <1>1, <1>2 DEF Line

-----------------------------------------------------------------------------
(* Types *)

\* Nothing runs yet.
LEMMA InitTyped == Init => Typed
BY ServerAssumption DEF Init, Typed, TypeOK, JUNK

\* The end of the server keeps the types.
LEMMA ExitTyped ==
  ASSUME Typed, NEW how \in {"stopped", "killed", "failed"}, Exit(how),
         UNCHANGED <<client, ended, down, sent, shown, done>>,
         answer' \in [n : Nat, size : Nat \ {0}], up' \in [Clients -> Seq(Msg)]
  PROVE  Typed'
<1>1. reset' \in [Clients -> {"no", "pending", "broken"}]
  BY DEF Exit, Typed, TypeOK
<1>2. open' \in [Clients -> BOOLEAN] /\ cfd' = NULL /\ waiting' = <<>> /\ pc' = how
  BY DEF Exit
<1> QED BY <1>1, <1>2, ServerAssumption DEF Typed, TypeOK

\* Every step of a client keeps the types.
LEMMA ClientTyped ==
  ASSUME Typed, NEW c \in Clients,
         \/ connect_server(c) \/ connect_fails(c) \/ end_of_input(c)
         \/ \E cmd \in Cmds : repl_write(c, cmd)
         \/ repl_read(c) \/ repl_read_eof(c) \/ abort(c)
  PROVE  Typed'
<1> USE DEF Typed, TypeOK
<1>1. CASE connect_server(c)
  <2>1. waiting' \in Seq(Clients) /\ Len(waiting') <= Backlog
    BY <1>1, ServerAssumption DEF connect_server
  <2> QED BY <1>1, <2>1 DEF connect_server
<1>2. CASE connect_fails(c)
  BY <1>2 DEF connect_fails, server
<1>3. CASE end_of_input(c)
  BY <1>3 DEF end_of_input, server
<1>4. ASSUME NEW cmd \in Cmds, repl_write(c, cmd)
      PROVE  Typed'
  <2>1. /\ sent' \in [Clients -> Nat]
        /\ client' \in [Clients -> {"out", "prompt", "reading", "gone"}]
    <3>1. CASE reset[c] = "broken"
      BY <1>4, <3>1 DEF repl_write
    <3>2. CASE reset[c] # "broken"
      <4>1. sent' = [sent EXCEPT ![c] = IF cmd = "junk" THEN @ ELSE @ + 1]
        BY <1>4, <3>2 DEF repl_write
      <4>2. (IF cmd = "junk" THEN sent[c] ELSE sent[c] + 1) \in Nat
        OBVIOUS
      <4> QED BY <1>4, <3>2, <4>1, <4>2 DEF repl_write
    <3> QED BY <3>1, <3>2
  <2> DEFINE n == IF cmd = "junk" THEN JUNK ELSE sent'[c]
  <2>2. n \in Nat
    BY <2>1 DEF JUNK
  <2>3. /\ up' \in [Clients -> Seq(Msg)]
        /\ reset' \in [Clients -> {"no", "pending", "broken"}]
    <3>1. CASE open[c]
      <4>1. PICK size \in IF cmd = "data" THEN Lines ELSE {1} :
              up' = [up EXCEPT ![c] = @ \o Line(n, cmd, size)] /\ UNCHANGED reset
        BY <1>4, <3>1 DEF repl_write
      <4>2. size \in 1 .. ReadCap
        BY ServerAssumption
      <4> HIDE DEF n
      <4>3. Line(n, cmd, size) \in Seq(Msg) /\ up[c] \in Seq(Msg)
        BY <2>2, <4>2, LineShape
      <4>4. up[c] \o Line(n, cmd, size) \in Seq(Msg)
        BY <4>3, ConcatProperties
      <4> QED BY <4>1, <4>4
    <3>2. CASE ~open[c]
      BY <1>4, <3>2 DEF repl_write
    <3> QED BY <3>1, <3>2
  <2> QED BY <1>4, <2>1, <2>3 DEF repl_write, server
<1>5. CASE repl_read(c)
  <2>1. down[c] \in Seq(Nat) /\ down[c] # <<>>
    BY <1>5 DEF repl_read
  <2>2. Head(down[c]) \in Nat
    BY <2>1
  <2>3. LeftUnread(down[c]) \in Seq(Nat)
    BY <2>1, ReadLeaves
  <2> QED BY <1>5, <2>2, <2>3 DEF repl_read, server
<1>6. CASE repl_read_eof(c)
  BY <1>6 DEF repl_read_eof, Reported, JUNK, server
<1>7. CASE abort(c)
  BY <1>7 DEF abort, server
<1> QED BY <1>1, <1>2, <1>3, <1>4, <1>5, <1>6, <1>7

\* Every step of the server keeps the types.
LEMMA ServerTyped ==
  ASSUME Typed, ServerStep
  PROVE  Typed'
<1>1. CASE init_server
  BY <1>1 DEF init_server, Typed, TypeOK
<1>2. CASE accept_connection
  <2>1. /\ Head(waiting) \in Clients /\ Tail(waiting) \in Seq(Clients)
        /\ Len(Tail(waiting)) <= Backlog
    BY <1>2, ServerAssumption DEF accept_connection, Typed, TypeOK
  <2> QED BY <1>2, <2>1, ServerAssumption DEF accept_connection, Typed, TypeOK
<1>3. CASE accept_fails
  BY <1>3, ExitTyped DEF accept_fails, Typed
<1>4. CASE rediskw_command
  <2>0. pc = "read" /\ cfd \in Clients /\ up[cfd] # <<>>
    BY <1>4, ServerAssumption DEF rediskw_command, Typed, TypeOK
  <2>1. /\ Head(up[cfd]) \in Msg
        /\ up' \in [Clients -> Seq(Msg)]
        /\ UNCHANGED <<client, ended, down, sent, shown>>
    <3>1. up[cfd] \in Seq(Msg) /\ up' = [up EXCEPT ![cfd] = LeftUnread(@)]
      BY <1>4, <2>0 DEF rediskw_command, Typed
    <3>2. Head(up[cfd]) \in Msg /\ LeftUnread(up[cfd]) \in Seq(Msg)
      BY <2>0, <3>1, ReadLeaves
    <3> QED BY <1>4, <3>1, <3>2 DEF rediskw_command, Typed
  <2> DEFINE m == Head(up[cfd])
  <2>2. ASSUME done' = [done EXCEPT ![cfd] = Append(@, m.n)],
               NEW s \in Sizes[cfd], answer' = [n |-> m.n, size |-> s],
               pc' = "write", UNCHANGED <<cfd, waiting, open, reset>>
        PROVE  Typed'
    <3>1. m.n \in Nat /\ s \in Nat \ {0}
      BY <2>0, <2>1, ServerAssumption DEF Msg
    <3>2. done' \in [Clients -> Seq(Nat)]
      BY <2>0, <2>2, <3>1 DEF Typed
    <3> QED BY <2>0, <2>1, <2>2, <3>1, <3>2, ServerAssumption DEF Typed, TypeOK
  <2>3. ASSUME answer' = [n |-> JUNK, size |-> 1],
               pc' = "write", UNCHANGED <<done, cfd, waiting, open, reset>>
        PROVE  Typed'
    BY <2>0, <2>1, <2>3, ServerAssumption DEF Typed, TypeOK, JUNK
  <2>4. ASSUME close_connection, UNCHANGED <<done, answer, waiting>>
        PROVE  Typed'
    BY <2>0, <2>1, <2>4, ServerAssumption DEF Typed, TypeOK, close_connection
  <2>5. ASSUME Exit("stopped"), UNCHANGED <<done, answer>>
        PROVE  Typed'
    BY <2>1, <2>5, ExitTyped DEF Typed
  <2> QED BY <1>4, <2>2, <2>3, <2>4, <2>5 DEF rediskw_command
<1>5. CASE rediskw_eof
  BY <1>5, ServerAssumption DEF rediskw_eof, Reported, JUNK, Typed, TypeOK
<1>6. CASE writeline
  <2>1. CASE Exit("killed") /\ UNCHANGED down
    BY <1>6, <2>1, ExitTyped DEF writeline, Typed
  <2>2. cfd \in Clients
    BY <1>6 DEF writeline, Typed, TypeOK
  <2>3. Cells(answer) \in Seq(Nat)
    BY DEF Cells, Typed
  <2>4. CASE /\ down' = [down EXCEPT ![cfd] = @ \o Cells(answer)]
             /\ pc' = "read" /\ UNCHANGED <<cfd, waiting, open, reset>>
    <3>1. down' \in [Clients -> Seq(Nat)]
      BY <2>2, <2>3, <2>4, ConcatProperties DEF Typed
    <3> QED BY <1>6, <2>2, <2>4, <3>1, ServerAssumption DEF writeline, Typed, TypeOK
  <2>5. CASE /\ reset' = [reset EXCEPT ![cfd] = "broken"]
             /\ pc' = "read" /\ UNCHANGED <<cfd, waiting, open, down>>
    BY <1>6, <2>2, <2>5, ServerAssumption DEF writeline, Typed, TypeOK
  <2> QED BY <1>6, <2>1, <2>4, <2>5 DEF writeline
<1> QED BY <1>1, <1>2, <1>3, <1>4, <1>5, <1>6 DEF ServerStep

\* Every step keeps the types.
LEMMA StepTyped == Typed /\ [Next]_vars => Typed'
<1> SUFFICES ASSUME Typed, [Next]_vars PROVE Typed'
  OBVIOUS
<1>1. CASE UNCHANGED vars
  BY <1>1 DEF vars, server, Typed, TypeOK
<1> QED BY <1>1, ClientTyped, ServerTyped DEF Next

\* Every variable of the server and its clients keeps its type, and the server
\* has a client exactly while it reads and writes.
THEOREM TypeCorrect == Spec => []TypeOK
<1>1. Typed => TypeOK
  BY DEF Typed
<1> QED BY <1>1, InitTyped, StepTyped, PTL DEF Spec

-----------------------------------------------------------------------------
(* Connections *)

\* A connection is in one place at most, and open there; that of a client that
\* still lives is reset only after the server closed it.
Queued ==
  /\ \A i \in DOMAIN waiting : open[waiting[i]] /\ waiting[i] # cfd
  /\ \A i, j \in DOMAIN waiting : waiting[i] = waiting[j] => i = j
  /\ cfd # NULL => open[cfd]
  /\ \A c \in Clients :
       /\ client[c] = "out" => ~open[c] /\ reset[c] = "no"
       /\ open[c] /\ client[c] # "gone" => reset[c] = "no"

\* What a line at the prompt does to the streams of its client.
LEMMA WriteEffect ==
  ASSUME Typed, Queued, NEW c \in Clients, NEW cmd \in Cmds,
         repl_write(c, cmd)
  PROVE  /\ client[c] = "prompt" /\ client'[c] \in {"reading", "gone"}
         /\ \A d \in Clients \ {c} : client'[d] = client[d] /\ sent'[d] = sent[d]
                                     /\ up'[d] = up[d] /\ reset'[d] = reset[d]
         /\ sent'[c] >= sent[c] /\ sent'[c] \in Nat /\ sent[c] \in Nat
         /\ open[c] =>
              \E n \in Nat, size \in 1 .. ReadCap :
                /\ up'[c] = up[c] \o Line(n, cmd, size)
                /\ cmd # "junk" => n = sent'[c] /\ n = sent[c] + 1
                /\ cmd = "junk" => size = 1
                /\ UNCHANGED reset
         /\ ~open[c] => up'[c] = up[c]
         /\ UNCHANGED <<server, ended, open, down, shown, done>>
<1>0. client[c] = "prompt" /\ sent[c] \in Nat /\ (open[c] => reset[c] # "broken")
  BY DEF repl_write, Typed, TypeOK, Queued
<1>1. CASE reset[c] = "broken"
  <2>1. client' = [client EXCEPT ![c] = "gone"] /\ UNCHANGED sent /\ ~open[c]
    BY <1>0, <1>1 DEF repl_write
  <2>2. reset' = [reset EXCEPT ![c] = "broken"] /\ UNCHANGED up
    BY <2>1 DEF repl_write
  <2> QED BY <1>0, <2>1, <2>2 DEF repl_write, Typed, TypeOK
<1>2. CASE reset[c] # "broken"
  <2>1. /\ client' = [client EXCEPT ![c] = "reading"]
        /\ sent' = [sent EXCEPT ![c] = IF cmd = "junk" THEN @ ELSE @ + 1]
    BY <1>2 DEF repl_write
  <2> DEFINE n == IF cmd = "junk" THEN JUNK ELSE sent'[c]
  <2>2. /\ sent'[c] = IF cmd = "junk" THEN sent[c] ELSE sent[c] + 1
        /\ \A d \in Clients \ {c} : client'[d] = client[d] /\ sent'[d] = sent[d]
        /\ client'[c] = "reading"
    BY <2>1 DEF Typed, TypeOK
  <2>3. sent'[c] >= sent[c] /\ sent'[c] \in Nat /\ n \in Nat
        /\ (cmd # "junk" => n = sent'[c] /\ n = sent[c] + 1)
    BY <1>0, <2>2 DEF JUNK
  <2>4. CASE open[c]
    <3>1. PICK size \in IF cmd = "data" THEN Lines ELSE {1} :
            up' = [up EXCEPT ![c] = @ \o Line(n, cmd, size)] /\ UNCHANGED reset
      BY <2>4 DEF repl_write
    <3>2. /\ up'[c] = up[c] \o Line(n, cmd, size)
          /\ \A d \in Clients \ {c} : up'[d] = up[d]
      BY <3>1 DEF Typed
    <3>3. size \in 1 .. ReadCap /\ (cmd = "junk" => size = 1)
      BY ServerAssumption
    <3> HIDE DEF n
    <3> QED BY <1>0, <2>2, <2>3, <2>4, <3>1, <3>2, <3>3 DEF repl_write
  <2>5. CASE ~open[c]
    <3>1. reset' = [reset EXCEPT ![c] = "broken"] /\ UNCHANGED up
      BY <2>5 DEF repl_write
    <3> QED BY <1>0, <2>2, <2>3, <2>5, <3>1 DEF repl_write, Typed, TypeOK
  <2> QED BY <2>4, <2>5
<1> QED BY <1>1, <1>2

\* Nobody is connected yet.
LEMMA InitQueued == Init => Queued
BY DEF Init, Queued

\* The end of the server closes every connection.
LEMMA ExitQueued ==
  ASSUME Typed, Queued, NEW how, Exit(how), UNCHANGED client
  PROVE  Queued'
BY DEF Exit, Queued, Typed, TypeOK

\* Every step of a client keeps the connections in place.
LEMMA ClientQueued ==
  ASSUME Typed, Queued, NEW c \in Clients,
         \/ connect_server(c) \/ connect_fails(c) \/ end_of_input(c)
         \/ \E cmd \in Cmds : repl_write(c, cmd)
         \/ repl_read(c) \/ repl_read_eof(c) \/ abort(c)
  PROVE  Queued'
<1>1. CASE connect_server(c)
  <2>1. /\ client[c] = "out" /\ waiting' = Append(waiting, c) /\ waiting \in Seq(Clients)
        /\ client' = [client EXCEPT ![c] = "prompt"] /\ open' = [open EXCEPT ![c] = TRUE]
        /\ UNCHANGED <<cfd, reset>> /\ ~open[c] /\ reset[c] = "no"
    BY <1>1 DEF connect_server, Queued, Typed, TypeOK
  <2>2. /\ DOMAIN waiting' = DOMAIN waiting \cup {Len(waiting) + 1}
        /\ waiting'[Len(waiting) + 1] = c
        /\ \A i \in DOMAIN waiting : waiting'[i] = waiting[i] /\ waiting[i] \in Clients
    BY <2>1
  <2>3. cfd # c /\ \A i \in DOMAIN waiting : waiting[i] # c
    BY <2>1, ServerAssumption DEF Queued
  <2>4. /\ open'[c] /\ client'[c] = "prompt"
        /\ \A d \in Clients \ {c} : open'[d] = open[d] /\ client'[d] = client[d]
    BY <2>1 DEF Typed, TypeOK
  <2>5. \A i \in DOMAIN waiting' : open'[waiting'[i]] /\ waiting'[i] # cfd'
    BY <2>1, <2>2, <2>3, <2>4 DEF Queued
  <2>6. \A i, j \in DOMAIN waiting' : waiting'[i] = waiting'[j] => i = j
    BY <2>2, <2>3 DEF Queued
  <2>7. cfd' # NULL => open'[cfd']
    BY <2>1, <2>3, <2>4 DEF Queued, Typed, TypeOK
  <2>8. ASSUME NEW d \in Clients
        PROVE  /\ (client[d] = "out" => ~open[d] /\ reset[d] = "no")'
               /\ (open[d] /\ client[d] # "gone" => reset[d] = "no")'
    BY <2>1, <2>4 DEF Queued
  <2> QED BY <2>5, <2>6, <2>7, <2>8 DEF Queued
<1>2. CASE connect_fails(c) \/ end_of_input(c)
  BY <1>2 DEF connect_fails, end_of_input, server, Queued, Typed, TypeOK
<1>3. ASSUME NEW cmd \in Cmds, repl_write(c, cmd)
      PROVE  Queued'
  <2>1. /\ UNCHANGED <<cfd, waiting, open>>
        /\ client[c] = "prompt" /\ client'[c] \in {"reading", "gone"}
        /\ \A d \in Clients \ {c} : client'[d] = client[d] /\ reset'[d] = reset[d]
        /\ open[c] => reset'[c] = reset[c]
    BY <1>3, WriteEffect DEF server
  <2> QED BY <2>1 DEF Queued
<1>4. CASE repl_read(c)
  BY <1>4 DEF repl_read, server, Queued, Typed, TypeOK
<1>5. CASE repl_read_eof(c)
  BY <1>5 DEF repl_read_eof, Reported, server, Queued, Typed, TypeOK
<1>6. CASE abort(c)
  BY <1>6 DEF abort, server, Queued, Typed, TypeOK
<1> QED BY <1>1, <1>2, <1>3, <1>4, <1>5, <1>6

\* Every step of the server keeps the connections in place.
LEMMA ServerQueued ==
  ASSUME Typed, Queued, ServerStep
  PROVE  Queued'
<1>1. CASE init_server
  BY <1>1 DEF init_server, Queued
<1>2. CASE accept_connection
  <2>1. /\ waiting \in Seq(Clients) /\ waiting # <<>> /\ cfd' = waiting[1]
        /\ waiting' = Tail(waiting) /\ UNCHANGED <<open, client, reset>>
    BY <1>2 DEF accept_connection, Typed, TypeOK
  <2>2. \A i \in DOMAIN waiting' :
          /\ i + 1 \in DOMAIN waiting /\ waiting'[i] = waiting[i + 1] /\ i + 1 # 1
          /\ i \in Nat
    BY <2>1
  <2>3. 1 \in DOMAIN waiting
    BY <2>1
  <2>4. \A i, j \in DOMAIN waiting' : waiting'[i] = waiting'[j] => i = j
    BY <2>2 DEF Queued
  <2> QED BY <2>1, <2>2, <2>3, <2>4 DEF Queued
<1>3. CASE accept_fails
  BY <1>3, ExitQueued DEF accept_fails
<1>4. CASE rediskw_command
  <2>1. UNCHANGED client /\ cfd \in Clients /\ pc = "read"
    BY <1>4, ServerAssumption DEF rediskw_command, Typed, TypeOK
  <2>2. CASE UNCHANGED <<cfd, waiting, open, reset>>
    BY <2>1, <2>2 DEF Queued
  <2>3. CASE close_connection /\ UNCHANGED waiting
    <3>1. /\ cfd' = NULL /\ open' = [open EXCEPT ![cfd] = FALSE]
          /\ waiting \in Seq(Clients)
          /\ \A d \in Clients \ {cfd} : reset'[d] = reset[d]
          /\ client[cfd] # "out"
      BY <2>1, <2>3, ServerAssumption DEF close_connection, Typed, TypeOK, Queued
    <3>2. \A i \in DOMAIN waiting : waiting[i] \in Clients /\ waiting[i] # NULL
      BY <3>1, ServerAssumption
    <3> QED BY <2>1, <2>3, <3>1, <3>2 DEF Queued, Typed, TypeOK
  <2>4. CASE Exit("stopped")
    BY <2>1, <2>4, ExitQueued
  <2> QED BY <1>4, <2>2, <2>3, <2>4 DEF rediskw_command
<1>5. CASE rediskw_eof
  BY <1>5 DEF rediskw_eof, Reported, Queued, Typed, TypeOK
<1>6. CASE writeline
  <2>1. CASE Exit("killed")
    BY <1>6, <2>1, ExitQueued DEF writeline
  <2>2. CASE UNCHANGED <<cfd, waiting, open, reset>>
    BY <1>6, <2>2 DEF writeline, Queued
  <2>3. CASE /\ client[cfd] = "gone" /\ reset' = [reset EXCEPT ![cfd] = "broken"]
             /\ UNCHANGED <<cfd, waiting, open>>
    BY <1>6, <2>3 DEF writeline, Queued, Typed, TypeOK
  <2> QED BY <1>6, <2>1, <2>2, <2>3 DEF writeline
<1> QED BY <1>1, <1>2, <1>3, <1>4, <1>5, <1>6 DEF ServerStep

\* Every step keeps the connections in place.
LEMMA StepQueued ==
  ASSUME Typed, Queued, [Next]_vars
  PROVE  Queued'
<1>1. CASE UNCHANGED vars
  BY <1>1 DEF vars, server, Queued
<1> QED BY <1>1, ClientQueued, ServerQueued DEF Next
-----------------------------------------------------------------------------
(* Waiting *)

\* A client that reads from an open connection has its command or its answer
\* under way.
Awaited == \A c \in Clients : client[c] = "reading" /\ open[c] =>
             up[c] # <<>> \/ down[c] # <<>> \/ (cfd = c /\ pc = "write")

\* Nobody reads yet.
LEMMA InitAwaited == Init => Awaited
BY DEF Init, Awaited

\* After the end of the server no connection is open.
LEMMA ExitAwaited == ASSUME NEW how, Exit(how) PROVE Awaited'
BY DEF Exit, Awaited

\* Every step of a client keeps what it waits for.
LEMMA ClientAwaited ==
  ASSUME Typed, Queued, Awaited, NEW c \in Clients,
         \/ connect_server(c) \/ connect_fails(c) \/ end_of_input(c)
         \/ \E cmd \in Cmds : repl_write(c, cmd)
         \/ repl_read(c) \/ repl_read_eof(c) \/ abort(c)
  PROVE  Awaited'
<1>1. CASE connect_server(c)
  BY <1>1 DEF connect_server, Awaited, Typed, TypeOK
<1>2. CASE connect_fails(c) \/ end_of_input(c)
  BY <1>2 DEF connect_fails, end_of_input, server, Awaited, Typed, TypeOK
<1>3. ASSUME NEW cmd \in Cmds, repl_write(c, cmd)
      PROVE  Awaited'
  <2>1. /\ UNCHANGED <<pc, cfd, open, down>>
        /\ \A d \in Clients \ {c} : client'[d] = client[d] /\ up'[d] = up[d]
    BY <1>3, WriteEffect DEF server
  <2>2. open[c] => up'[c] # <<>>
    <3>1. ASSUME NEW n \in Nat, NEW size \in 1 .. ReadCap, up'[c] = up[c] \o Line(n, cmd, size)
          PROVE  up'[c] # <<>>
      <4>1. up[c] \in Seq(Msg) /\ Line(n, cmd, size) \in Seq(Msg) /\ Line(n, cmd, size) # <<>>
        BY LineShape, ServerAssumption DEF Typed
      <4> QED BY <3>1, <4>1, ConcatProperties, EmptySeq
    <3> QED BY <1>3, <3>1, WriteEffect
  <2> QED BY <2>1, <2>2 DEF Awaited
<1>4. CASE repl_read(c) \/ repl_read_eof(c)
  <2>1. /\ UNCHANGED <<pc, cfd, open, up>> /\ client' = [client EXCEPT ![c] = "prompt"]
        /\ \A d \in Clients \ {c} : down'[d] = down[d]
    BY <1>4 DEF repl_read, repl_read_eof, server, Typed
  <2> QED BY <2>1 DEF Awaited, Typed, TypeOK
<1>5. CASE abort(c)
  BY <1>5 DEF abort, server, Awaited, Typed, TypeOK
<1> QED BY <1>1, <1>2, <1>3, <1>4, <1>5

\* Every step of the server keeps what the clients wait for.
LEMMA ServerAwaited ==
  ASSUME Typed, Awaited, ServerStep
  PROVE  Awaited'
<1>1. CASE init_server \/ accept_connection
  <2>1. UNCHANGED <<client, open, up, down>> /\ cfd = NULL
    BY <1>1 DEF init_server, accept_connection, Typed, TypeOK
  <2> QED BY <2>1, ServerAssumption DEF Awaited
<1>2. CASE accept_fails
  BY <1>2, ExitAwaited DEF accept_fails
<1>3. CASE rediskw_command
  <2>1. /\ UNCHANGED <<client, down>> /\ cfd \in Clients
        /\ \A d \in Clients \ {cfd} : up'[d] = up[d]
    BY <1>3, ServerAssumption DEF rediskw_command, Typed, TypeOK
  <2>2. CASE pc' = "write" /\ UNCHANGED <<cfd, open>>
    BY <2>1, <2>2 DEF Awaited
  <2>3. CASE close_connection
    <3>1. ~open'[cfd] /\ \A d \in Clients \ {cfd} : open'[d] = open[d]
      BY <2>1, <2>3 DEF close_connection, Typed, TypeOK
    <3> QED BY <2>1, <3>1 DEF Awaited
  <2> QED BY <1>3, <2>2, <2>3, ExitAwaited DEF rediskw_command
<1>4. CASE rediskw_eof
  BY <1>4 DEF rediskw_eof, Awaited
<1>5. CASE writeline
  <2>1. pc = "write" /\ cfd \in Clients /\ UNCHANGED <<client, up>>
    BY <1>5 DEF writeline, Typed, TypeOK
  <2>2. CASE down' = [down EXCEPT ![cfd] = @ \o Cells(answer)] /\ UNCHANGED <<cfd, open>>
    <3>1. Cells(answer) \in Seq(Nat) /\ Cells(answer) # <<>>
      BY DEF Cells, Typed
    <3>2. down[cfd] \o Cells(answer) # <<>>
      BY <2>1, <3>1 DEF Typed
    <3>3. down'[cfd] # <<>> /\ \A d \in Clients \ {cfd} : down'[d] = down[d]
      BY <2>1, <2>2, <3>2 DEF Typed
    <3> QED BY <2>1, <2>2, <3>3 DEF Awaited
  <2>3. CASE client[cfd] = "gone" /\ UNCHANGED <<cfd, open, down>>
    BY <2>1, <2>3 DEF Awaited
  <2> QED BY <1>5, <2>2, <2>3, ExitAwaited DEF writeline
<1> QED BY <1>1, <1>2, <1>3, <1>4, <1>5 DEF ServerStep

\* Every step keeps what the clients wait for.
LEMMA StepAwaited ==
  ASSUME Typed, Queued, Awaited, [Next]_vars
  PROVE  Awaited'
<1>1. CASE UNCHANGED vars
  BY <1>1 DEF vars, server, Awaited
<1> QED BY <1>1, ClientAwaited, ServerAwaited DEF Next

\* The server waits for no command of a client that waits for an answer, unless
\* one of them is on its way, however long replies are and whoever dies.
THEOREM NeverBothWait == Spec => []NoStandoff
<1> DEFINE Inv == Typed /\ Queued /\ Awaited
<1>1. Init => Inv
  BY InitTyped, InitQueued, InitAwaited
<1>2. Inv /\ [Next]_vars => Inv'
  BY StepTyped, StepQueued, StepAwaited
<1>3. Inv => NoStandoff
  BY ServerAssumption DEF Queued, Awaited, NoStandoff
<1> QED BY <1>1, <1>2, <1>3, PTL DEF Spec

-----------------------------------------------------------------------------
(* Order *)

\* The numbers in a stream do not fall, and a line fits a read: what has the
\* number of another cell is less than a read away from it.
Spaced(cells) ==
  \A j, k \in DOMAIN cells :
    j < k /\ cells[j].cmd # "junk" /\ cells[k].cmd # "junk" =>
      cells[j].n <= cells[k].n /\ (k - j < ReadCap \/ cells[j].n < cells[k].n)

\* The commands of c that ran, in order and among those it sent; what is still
\* in the stream comes after them.
OrderedFor(c) ==
  /\ \A i, j \in DOMAIN done[c] : i < j => done[c][i] < done[c][j]
  /\ \A i \in DOMAIN done[c] : done[c][i] <= sent[c]
  /\ \A k \in DOMAIN up[c] : up[c][k].cmd # "junk" =>
       /\ up[c][k].n <= sent[c]
       /\ \A i \in DOMAIN done[c] : done[c][i] < up[c][k].n
  /\ Spaced(up[c])

Ordered == \A c \in Clients : OrderedFor(c)

\* Every cell has a number.
LEMMA CellNumber == \A m \in Msg : m.n \in Nat
BY DEF Msg

\* A line after everything else keeps the numbers spaced.
LEMMA LineSpaced ==
  ASSUME NEW cells \in Seq(Msg), Spaced(cells), NEW n \in Nat, NEW cmd \in Cmds,
         NEW size \in 1 .. ReadCap,
         \A k \in DOMAIN cells : cells[k].cmd # "junk" /\ cmd # "junk" => cells[k].n < n,
         cmd = "junk" => size = 1
  PROVE  Spaced(cells \o Line(n, cmd, size))
<1> DEFINE line == Line(n, cmd, size)
           all == cells \o line
<1>1. /\ line \in Seq(Msg) /\ Len(line) = size /\ line[1].cmd = cmd
      /\ \A k \in 1 .. size : line[k].n = n
  BY LineShape
<1>2. size \in Nat /\ ReadCap \in Nat /\ size <= ReadCap /\ Len(cells) \in Nat
  BY ServerAssumption
<1> HIDE DEF line
<1>3. /\ Len(all) = Len(cells) + size /\ all \in Seq(Msg)
      /\ \A k \in 1 .. Len(cells) : all[k] = cells[k]
      /\ \A k \in Len(cells) + 1 .. Len(cells) + size :
           all[k] = line[k - Len(cells)] /\ k - Len(cells) \in 1 .. size
  <2>1. /\ all \in Seq(Msg) /\ Len(all) = Len(cells) + size
        /\ \A k \in 1 .. Len(cells) + size :
             all[k] = IF k <= Len(cells) THEN cells[k] ELSE line[k - Len(cells)]
    BY <1>1, ConcatProperties
  <2> HIDE DEF all
  <2>2. ASSUME NEW k \in 1 .. Len(cells)  PROVE all[k] = cells[k]
    BY <1>2, <2>1
  <2>3. ASSUME NEW k \in Len(cells) + 1 .. Len(cells) + size
        PROVE  all[k] = line[k - Len(cells)] /\ k - Len(cells) \in 1 .. size
    BY <1>2, <2>1
  <2> QED BY <2>1, <2>2, <2>3
<1> HIDE DEF all
<1>4. ASSUME NEW j \in DOMAIN all, NEW k \in DOMAIN all, j < k,
             all[j].cmd # "junk", all[k].cmd # "junk"
      PROVE  all[j].n <= all[k].n /\ (k - j < ReadCap \/ all[j].n < all[k].n)
  <2>1. j \in 1 .. Len(cells) + size /\ k \in 1 .. Len(cells) + size
    BY <1>3
  <2>2. CASE k <= Len(cells)
    <3>1. j \in 1 .. Len(cells) /\ k \in 1 .. Len(cells)
      BY <1>2, <1>4, <2>1, <2>2
    <3>2. all[j] = cells[j] /\ all[k] = cells[k]
      BY <1>3, <3>1
    <3> QED BY <1>4, <3>1, <3>2 DEF Spaced
  <2>3. CASE j <= Len(cells) /\ k > Len(cells)
    <3>1. /\ j \in 1 .. Len(cells) /\ k \in Len(cells) + 1 .. Len(cells) + size
      BY <1>2, <2>1, <2>3
    <3>2. all[j] = cells[j] /\ all[k] = line[k - Len(cells)] /\ k - Len(cells) \in 1 .. size
      BY <1>3, <3>1
    <3>3. cmd # "junk"
      <4>1. CASE cmd = "junk"
        <5>1. k - Len(cells) = 1
          BY <3>2, <4>1
        <5> QED BY <1>1, <1>4, <3>2, <4>1, <5>1
      <4> QED BY <4>1
    <3>4. cells[j].n < n /\ cells[j].n \in Nat
      <4>1. cells[j] \in Msg
        BY <3>1
      <4> QED BY <1>4, <3>1, <3>2, <3>3, <4>1, CellNumber
    <3>5. all[k].n = n
      BY <1>1, <3>2
    <3> QED BY <3>2, <3>4, <3>5
  <2>4. CASE j > Len(cells)
    <3>1. j \in Len(cells) + 1 .. Len(cells) + size /\ k \in Len(cells) + 1 .. Len(cells) + size
      BY <1>2, <1>4, <2>1, <2>4
    <3>2. all[j].n = n /\ all[k].n = n
      BY <1>1, <1>3, <3>1
    <3>3. k - j < ReadCap
      BY <1>2, <3>1
    <3> QED BY <3>2, <3>3
  <2> QED BY <1>2, <2>1, <2>2, <2>3, <2>4
<1>5. Spaced(all)
  BY <1>4 DEF Spaced
<1> QED BY <1>5 DEF all, line

\* A read leaves the numbers spaced, and nothing of the line it began with.
LEMMA ReadSpaced ==
  ASSUME NEW cells \in Seq(Msg), cells # <<>>, Spaced(cells)
  PROVE  /\ Spaced(LeftUnread(cells))
         /\ \A k \in DOMAIN LeftUnread(cells) :
              LeftUnread(cells)[k].cmd # "junk" /\ Head(cells).cmd # "junk" =>
                Head(cells).n < LeftUnread(cells)[k].n
<1> DEFINE rest == LeftUnread(cells)
<1>1. /\ rest \in Seq(Msg)
      /\ \A k \in DOMAIN rest : /\ ReadCap + k \in DOMAIN cells
                                /\ rest[k] = cells[ReadCap + k]
  BY ReadLeaves
<1>2. ReadCap \in Nat \ {0} /\ 1 \in DOMAIN cells /\ Head(cells) = cells[1]
  BY ServerAssumption, EmptySeq
<1> HIDE DEF rest
<1>3. ASSUME NEW j \in DOMAIN rest, NEW k \in DOMAIN rest, j < k,
             rest[j].cmd # "junk", rest[k].cmd # "junk"
      PROVE  rest[j].n <= rest[k].n /\ (k - j < ReadCap \/ rest[j].n < rest[k].n)
  <2>1. ReadCap + j < ReadCap + k /\ (ReadCap + k) - (ReadCap + j) = k - j
    BY <1>1, <1>2, <1>3
  <2>2. /\ ReadCap + j \in DOMAIN cells /\ rest[j] = cells[ReadCap + j]
        /\ ReadCap + k \in DOMAIN cells /\ rest[k] = cells[ReadCap + k]
    BY <1>1, <1>3
  <2> QED BY <1>3, <2>1, <2>2 DEF Spaced
<1>4. ASSUME NEW k \in DOMAIN rest, rest[k].cmd # "junk", Head(cells).cmd # "junk"
      PROVE  Head(cells).n < rest[k].n
  <2>1. 1 < ReadCap + k /\ ~((ReadCap + k) - 1 < ReadCap)
    BY <1>1, <1>2, <1>4
  <2>2. ReadCap + k \in DOMAIN cells /\ rest[k] = cells[ReadCap + k]
    BY <1>1, <1>4
  <2> QED BY <1>2, <1>4, <2>1, <2>2 DEF Spaced
<1>5. Spaced(rest)
  BY <1>3 DEF Spaced
<1> QED BY <1>4, <1>5 DEF rest

\* Nothing was sent.
LEMMA InitOrdered == Init => Ordered
BY DEF Init, Ordered, OrderedFor, Spaced

\* It is about what a client sent, its stream and its commands that ran.
LEMMA SameOrder ==
  ASSUME NEW c \in Clients, OrderedFor(c),
         sent'[c] = sent[c], up'[c] = up[c], done'[c] = done[c]
  PROVE  OrderedFor(c)'
BY DEF OrderedFor, Spaced

\* A line at the prompt comes after everything before it.
LEMMA WriteOrdered ==
  ASSUME Typed, Queued, Ordered, NEW c \in Clients, NEW cmd \in Cmds, repl_write(c, cmd)
  PROVE  Ordered'
<1>1. ASSUME NEW d \in Clients, d # c
      PROVE  OrderedFor(d)'
  BY <1>1, WriteEffect, SameOrder DEF Ordered
<1>2. /\ sent'[c] >= sent[c] /\ sent'[c] \in Nat /\ sent[c] \in Nat
      /\ done' = done /\ OrderedFor(c)
      /\ up[c] \in Seq(Msg) /\ done[c] \in Seq(Nat)
  BY WriteEffect DEF Ordered, Typed
<1>3. /\ \A i \in DOMAIN done[c] : done[c][i] <= sent'[c]
      /\ \A k \in DOMAIN up[c] : up[c][k].cmd # "junk" => up[c][k].n <= sent'[c]
  <2>1. ASSUME NEW i \in DOMAIN done[c]  PROVE done[c][i] <= sent'[c]
    BY <1>2 DEF OrderedFor
  <2>2. ASSUME NEW k \in DOMAIN up[c], up[c][k].cmd # "junk"  PROVE up[c][k].n <= sent'[c]
    <3>1. up[c][k] \in Msg /\ up[c][k].n <= sent[c]
      BY <1>2, <2>2 DEF OrderedFor
    <3>2. up[c][k].n \in Nat
      BY <3>1 DEF Msg
    <3> QED BY <1>2, <3>1, <3>2
  <2> QED BY <2>1, <2>2
<1>4. OrderedFor(c)'
  <2>1. CASE up'[c] = up[c]
    BY <1>2, <1>3, <2>1 DEF OrderedFor, Spaced
  <2>2. ASSUME NEW n \in Nat, NEW size \in 1 .. ReadCap, up'[c] = up[c] \o Line(n, cmd, size),
               cmd # "junk" => n = sent'[c] /\ n = sent[c] + 1, cmd = "junk" => size = 1
        PROVE  OrderedFor(c)'
    <3> DEFINE line == Line(n, cmd, size)
    <3>1. /\ line \in Seq(Msg) /\ Len(line) = size /\ line[1].cmd = cmd
          /\ \A k \in 1 .. size : line[k].n = n
      BY LineShape
    <3>2. ASSUME NEW k \in DOMAIN up[c], up[c][k].cmd # "junk", cmd # "junk"
          PROVE  up[c][k].n < n
      <4>1. up[c][k] \in Msg /\ up[c][k].n <= sent[c]
        BY <1>2, <3>2 DEF OrderedFor
      <4>2. up[c][k].n \in Nat
        BY <4>1 DEF Msg
      <4> QED BY <1>2, <2>2, <3>2, <4>1, <4>2
    <3>3. Spaced(up'[c])
      BY <1>2, <2>2, <3>2, LineSpaced DEF OrderedFor
    <3> HIDE DEF line
    <3>4. ASSUME NEW k \in DOMAIN up'[c], up'[c][k].cmd # "junk"
          PROVE  /\ up'[c][k].n <= sent'[c]
                 /\ \A i \in DOMAIN done[c] : done[c][i] < up'[c][k].n
      <4>1. /\ k \in Nat /\ Len(up[c]) \in Nat /\ size \in Nat
            /\ k \in 1 .. Len(up[c]) + size
            /\ k <= Len(up[c]) => up'[c][k] = up[c][k] /\ k \in DOMAIN up[c]
            /\ k > Len(up[c]) => up'[c][k] = line[k - Len(up[c])]
        BY <1>2, <2>2, <3>1, <3>4, ConcatProperties DEF line
      <4>2. CASE k <= Len(up[c])
        BY <1>2, <1>3, <3>4, <4>1, <4>2 DEF OrderedFor
      <4>3. CASE k > Len(up[c])
        <5>1. k - Len(up[c]) \in 1 .. size /\ up'[c][k] = line[k - Len(up[c])]
          BY <4>1, <4>3
        <5>2. up'[c][k].n = n
          BY <3>1, <5>1
        <5>3. cmd # "junk"
          <6>1. CASE cmd = "junk"
            <7>1. k - Len(up[c]) = 1
              BY <2>2, <5>1, <6>1
            <7> QED BY <3>1, <3>4, <5>1, <6>1, <7>1
          <6> QED BY <6>1
        <5>4. n = sent'[c] /\ n = sent[c] + 1
          BY <2>2, <5>3
        <5>5. ASSUME NEW i \in DOMAIN done[c]  PROVE done[c][i] < n
          <6>1. done[c][i] <= sent[c] /\ done[c][i] \in Nat
            BY <1>2 DEF OrderedFor
          <6> QED BY <1>2, <5>4, <6>1
        <5> QED BY <1>2, <5>2, <5>4, <5>5
      <4> QED BY <4>1, <4>2, <4>3
    <3> QED BY <1>2, <1>3, <3>3, <3>4 DEF OrderedFor
  <2> QED BY <2>1, <2>2, WriteEffect
<1> QED BY <1>1, <1>4 DEF Ordered

\* What the server reads comes after everything that ran, and before what it
\* leaves.
LEMMA CommandOrdered ==
  ASSUME Typed, Ordered, rediskw_command
  PROVE  Ordered'
<1>1. PICK c \in Clients : c = cfd
  BY ServerAssumption DEF rediskw_command, Typed, TypeOK
<1> DEFINE m == Head(up[c])
           rest == LeftUnread(up[c])
<1>2. /\ up[c] \in Seq(Msg) /\ up[c] # <<>> /\ UNCHANGED sent
      /\ up'[c] = rest /\ \A d \in Clients \ {c} : up'[d] = up[d]
      /\ OrderedFor(c) /\ done[c] \in Seq(Nat)
  BY <1>1 DEF rediskw_command, Typed, Ordered
<1>3. /\ 1 \in DOMAIN up[c] /\ m = up[c][1] /\ m \in Msg /\ m.n \in Nat
  <2>1. 1 \in DOMAIN up[c] /\ m = up[c][1] /\ m \in Msg
    BY <1>2, EmptySeq
  <2> QED BY <2>1, CellNumber
<1>4. /\ \A k \in DOMAIN rest : /\ ReadCap + k \in DOMAIN up[c]
                                /\ rest[k] = up[c][ReadCap + k]
      /\ Spaced(rest)
      /\ \A k \in DOMAIN rest : rest[k].cmd # "junk" /\ m.cmd # "junk" => m.n < rest[k].n
  BY <1>2, ReadLeaves, ReadSpaced DEF OrderedFor
<1>5. \A k \in DOMAIN rest : rest[k].cmd # "junk" =>
        rest[k].n <= sent[c] /\ \A i \in DOMAIN done[c] : done[c][i] < rest[k].n
  BY <1>2, <1>4 DEF OrderedFor
<1> HIDE DEF rest
<1>6. CASE UNCHANGED done
  <2>1. OrderedFor(c)'
    BY <1>2, <1>4, <1>5, <1>6 DEF OrderedFor, Spaced
  <2>2. ASSUME NEW d \in Clients, d # c
        PROVE  OrderedFor(d)'
    BY <1>2, <1>6, <2>2, SameOrder DEF Ordered
  <2> QED BY <2>1, <2>2 DEF Ordered
<1>7. CASE m.cmd # "junk" /\ done' = [done EXCEPT ![c] = Append(@, m.n)]
  <2>1. m.n <= sent[c] /\ \A i \in DOMAIN done[c] : done[c][i] < m.n
    BY <1>2, <1>3, <1>7 DEF OrderedFor
  <2>2. /\ done'[c] = Append(done[c], m.n)
        /\ \A d \in Clients \ {c} : done'[d] = done[d]
    BY <1>7 DEF Typed
  <2>3. OrderedFor(c)'
    <3>0. \A k \in DOMAIN rest : rest[k].cmd # "junk" => m.n < rest[k].n
      BY <1>4, <1>7
    <3> HIDE DEF m
    <3>1. /\ DOMAIN done'[c] = DOMAIN done[c] \cup {Len(done[c]) + 1}
          /\ done'[c][Len(done[c]) + 1] = m.n
          /\ \A i \in DOMAIN done[c] : done'[c][i] = done[c][i] /\ i < Len(done[c]) + 1
                                       /\ i \in Nat
      BY <1>2, <1>3, <2>2
    <3>2. /\ \A i, j \in DOMAIN done'[c] : i < j => done'[c][i] < done'[c][j]
          /\ \A i \in DOMAIN done'[c] : done'[c][i] <= sent[c]
      BY <1>2, <2>1, <3>1 DEF OrderedFor
    <3>3. \A k \in DOMAIN rest : rest[k].cmd # "junk" =>
            rest[k].n <= sent[c] /\ \A i \in DOMAIN done'[c] : done'[c][i] < rest[k].n
      BY <1>5, <3>0, <3>1
    <3> QED BY <1>2, <1>4, <3>2, <3>3 DEF OrderedFor, Spaced
  <2>4. ASSUME NEW d \in Clients, d # c
        PROVE  OrderedFor(d)'
    BY <1>2, <2>2, <2>4, SameOrder DEF Ordered
  <2> QED BY <2>3, <2>4 DEF Ordered
<1>8. m.cmd = "junk" => \A cmd \in Parsed(m) : cmd # "data"
  BY DEF Parsed
<1> QED BY <1>1, <1>6, <1>7, <1>8 DEF rediskw_command

\* Every step keeps the commands in order.
LEMMA StepOrdered ==
  ASSUME Typed, Queued, Ordered, [Next]_vars
  PROVE  Ordered'
<1>1. CASE UNCHANGED <<sent, up, done>>
  BY <1>1, SameOrder DEF Ordered
<1>2. CASE ServerStep
  BY <1>1, <1>2, CommandOrdered
     DEF ServerStep, init_server, accept_connection, accept_fails, rediskw_eof, writeline
<1>3. ASSUME NEW c \in Clients,
             \/ connect_server(c) \/ connect_fails(c) \/ end_of_input(c)
             \/ \E cmd \in Cmds : repl_write(c, cmd)
             \/ repl_read(c) \/ repl_read_eof(c) \/ abort(c)
      PROVE  Ordered'
  BY <1>1, <1>3, WriteOrdered
     DEF connect_server, connect_fails, end_of_input, repl_read, repl_read_eof, abort
<1> QED BY <1>1, <1>2, <1>3 DEF Next, vars

\* The commands of a client run once each and in the order it sent them, even
\* when the server reads several as one.
THEOREM RunsInOrder == Spec => []InOrder
<1> DEFINE Inv == Typed /\ Queued /\ Ordered
<1>1. Init => Inv
  BY InitTyped, InitQueued, InitOrdered
<1>2. Inv /\ [Next]_vars => Inv'
  BY StepTyped, StepQueued, StepOrdered
<1>3. Inv => InOrder
  BY DEF Ordered, OrderedFor, InOrder
<1> QED BY <1>1, <1>2, <1>3, PTL DEF Spec

-----------------------------------------------------------------------------
(* Keeping in step *)

\* The server is about to write to c.
Writing(c) == cfd = c /\ pc = "write"

\* The first n commands of c ran, once each and no other.
Ran(c, n) == done[c] = [i \in 1 .. n |-> i]

\* Before it connects, a client has sent nothing.
Untouched(c) ==
  /\ up[c] = <<>> /\ down[c] = <<>> /\ done[c] = <<>>
  /\ sent[c] = 0 /\ shown[c] = 0

\* At the prompt there is nothing on its way;
Idle(c) ==
  /\ up[c] = <<>> /\ down[c] = <<>> /\ ~Writing(c)
  /\ shown[c] = sent[c] /\ Ran(c, sent[c])

\* then a client that reads has its command in the stream,
Asked(c) ==
  /\ down[c] = <<>> /\ ~Writing(c) /\ sent[c] > 0 /\ Ran(c, sent[c] - 1)
  /\ up[c] # <<>> /\ Len(up[c]) <= ReadCap
  /\ up[c][1].n = sent[c] /\ up[c][1].cmd \notin {"junk", "rest"}

\* or the server is about to answer it,
Answering(c) ==
  /\ up[c] = <<>> /\ down[c] = <<>> /\ Writing(c) /\ Ran(c, sent[c])
  /\ answer.n = sent[c] /\ answer.size <= ReadCap

\* or the whole answer is there, and one read takes it.
Answered(c) ==
  /\ up[c] = <<>> /\ ~Writing(c) /\ Ran(c, sent[c])
  /\ down[c] # <<>> /\ Len(down[c]) <= ReadCap /\ down[c][1] = sent[c]

\* The turns of a client whose replies fit a read.
InStep(c) ==
  /\ client[c] = "out" => Untouched(c)
  /\ open[c] /\ ~ended[c] /\ Fits(c) =>
       /\ client[c] = "prompt" => Idle(c)
       /\ client[c] = "reading" => Asked(c) \/ Answering(c) \/ Answered(c)

AllInStep == \A c \in Clients : InStep(c)

\* Nobody has connected, and no connection is open.
LEMMA InitInStep == Init => AllInStep
BY DEF Init, AllInStep, InStep, Untouched

\* It is about a client, its connection and whether the server writes to it.
LEMMA SameTurn ==
  ASSUME NEW c \in Clients, InStep(c),
         client'[c] = client[c], open'[c] = open[c], ended'[c] = ended[c],
         up'[c] = up[c], down'[c] = down[c], sent'[c] = sent[c],
         shown'[c] = shown[c], done'[c] = done[c],
         Writing(c)' <=> Writing(c), Writing(c) => answer' = answer
  PROVE  InStep(c)'
<1>1. /\ Untouched(c)' <=> Untouched(c)
      /\ Idle(c)' <=> Idle(c)
      /\ Asked(c)' <=> Asked(c)
      /\ Answering(c)' <=> Answering(c)
      /\ Answered(c)' <=> Answered(c)
  BY DEF Untouched, Idle, Asked, Answering, Answered, Ran
<1> QED BY <1>1 DEF InStep, Fits

\* With its connection closed, or its client gone, there are no turns.
LEMMA NoTurn ==
  ASSUME NEW c \in Clients, ~open'[c] \/ client'[c] = "gone" \/ ended'[c],
         client'[c] # "out"
  PROVE  InStep(c)'
BY DEF InStep

\* The end of the server closes every connection, and leaves who has none yet
\* untouched.
LEMMA ExitInStep ==
  ASSUME Typed, AllInStep, NEW how, Exit(how), UNCHANGED <<client, down, sent, shown>>,
         \A c \in Clients : client[c] = "out" => up'[c] = up[c] /\ done'[c] = done[c]
  PROVE  AllInStep'
<1>1. \A c \in Clients : ~open'[c]
  BY DEF Exit
<1> QED BY <1>1 DEF AllInStep, InStep, Untouched

\* A line at the prompt is the only one in the stream, and one read takes it.
LEMMA WriteInStep ==
  ASSUME Typed, Queued, AllInStep, NEW c \in Clients,
         NEW cmd \in Cmds, repl_write(c, cmd)
  PROVE  AllInStep'
<1>1. /\ client[c] = "prompt" /\ client'[c] \in {"reading", "gone"}
      /\ \A d \in Clients \ {c} : client'[d] = client[d] /\ sent'[d] = sent[d] /\ up'[d] = up[d]
      /\ UNCHANGED <<server, ended, open, down, shown, done>>
  BY WriteEffect
<1>2. ASSUME NEW d \in Clients, d # c
      PROVE  InStep(d)'
  BY <1>1, <1>2, SameTurn DEF AllInStep, Writing, server
<1>3. InStep(c)'
  <2>1. CASE ~open[c] \/ ended[c] \/ client'[c] = "gone"
    BY <1>1, <2>1, NoTurn
  <2>2. CASE ~Fits(c)
    BY <1>1, <2>2 DEF InStep, Fits
  <2>3. CASE open[c] /\ ~ended[c] /\ client'[c] = "reading" /\ Fits(c)
    <3>1. Idle(c) /\ cmd # "junk" /\ reset[c] # "broken"
      BY <1>1, <2>3 DEF AllInStep, InStep, repl_write, Queued
    <3>2. sent' = [sent EXCEPT ![c] = @ + 1] /\ sent[c] \in Nat
      BY <3>1 DEF repl_write, Typed, TypeOK
    <3>3. sent'[c] = sent[c] + 1 /\ sent'[c] > 0 /\ sent'[c] - 1 = sent[c]
      <4>1. sent \in [Clients -> Nat]
        BY DEF Typed, TypeOK
      <4>2. sent'[c] = sent[c] + 1
        BY <3>2, <4>1
      <4> QED BY <3>2, <4>2
    <3>4. \E n \in Nat, size \in 1 .. ReadCap : up'[c] = Line(n, cmd, size) /\ n = sent'[c]
      <4>1. ASSUME NEW n \in Nat, NEW size \in 1 .. ReadCap, up'[c] = up[c] \o Line(n, cmd, size)
            PROVE  up'[c] = Line(n, cmd, size)
        <5>1. up[c] = <<>> /\ Line(n, cmd, size) \in Seq(Msg)
          BY <3>1, LineShape DEF Idle
        <5> QED BY <4>1, <5>1, ConcatEmptySeq
      <4> QED BY <2>3, <3>1, <4>1, WriteEffect
    <3>5. /\ up'[c] # <<>> /\ Len(up'[c]) <= ReadCap
          /\ up'[c][1].n = sent'[c] /\ up'[c][1].cmd = cmd
      <4>1. PICK n \in Nat, size \in Nat :
              size \in 1 .. ReadCap /\ up'[c] = Line(n, cmd, size) /\ n = sent'[c]
        BY <3>4
      <4>2. /\ up'[c] \in Seq(Msg) /\ Len(up'[c]) = size /\ 1 \in 1 .. size
            /\ up'[c][1].n = n /\ up'[c][1].cmd = cmd
        BY <4>1, LineShape, ServerAssumption
      <4> QED BY <4>1, <4>2, EmptySeq, ServerAssumption
    <3>6. Asked(c)'
      BY <1>1, <3>1, <3>3, <3>5 DEF Asked, Idle, Ran, Writing, server, Cmds
    <3> QED BY <1>1, <2>3, <3>6 DEF InStep
  <2> QED BY <1>1, <2>1, <2>2, <2>3
<1> QED BY <1>2, <1>3 DEF AllInStep

\* One read takes the whole answer, and shows what was asked.
LEMMA ReadInStep ==
  ASSUME Typed, AllInStep, NEW c \in Clients, repl_read(c)
  PROVE  AllInStep'
<1>1. /\ client[c] = "reading" /\ down[c] # <<>>
      /\ shown' = [shown EXCEPT ![c] = Head(down[c])]
      /\ down' = [down EXCEPT ![c] = LeftUnread(@)]
      /\ client' = [client EXCEPT ![c] = "prompt"]
      /\ UNCHANGED <<server, ended, open, up, sent, done>>
  BY DEF repl_read
<1>2. ASSUME NEW d \in Clients, d # c
      PROVE  InStep(d)'
  <2>1. shown'[d] = shown[d] /\ down'[d] = down[d] /\ client'[d] = client[d]
    BY <1>1, <1>2 DEF Typed, TypeOK
  <2> QED BY <1>1, <2>1, SameTurn DEF AllInStep, Writing, server
<1>3. InStep(c)'
  <2>0. client'[c] = "prompt"
    BY <1>1 DEF Typed, TypeOK
  <2>1. CASE ~(open[c] /\ ~ended[c] /\ Fits(c))
    BY <1>1, <2>0, <2>1 DEF InStep, Fits
  <2>2. CASE open[c] /\ ~ended[c] /\ Fits(c)
    <3>1. Answered(c)
      BY <1>1, <2>2 DEF AllInStep, InStep, Asked, Answering
    <3>2. down[c] \in Seq(Nat) /\ Len(down[c]) \in Nat /\ Len(down[c]) <= ReadCap
      BY <3>1 DEF Answered, Typed
    <3>3. LeftUnread(down[c]) = <<>>
      BY <1>1, <3>2, ReadLeaves
    <3>4. Head(down[c]) = down[c][1]
      BY <1>1, <3>2
    <3>5. down'[c] = <<>> /\ shown'[c] = sent[c]
      BY <1>1, <3>1, <3>3, <3>4 DEF Answered, Typed, TypeOK
    <3>6. Idle(c)'
      BY <1>1, <3>1, <3>5 DEF Idle, Answered, Ran, Writing, server
    <3> QED BY <2>0, <3>6 DEF InStep
  <2> QED BY <2>1, <2>2
<1> QED BY <1>2, <1>3 DEF AllInStep

\* Every step of a client keeps the turns.
LEMMA ClientInStep ==
  ASSUME Typed, Queued, AllInStep, NEW c \in Clients,
         \/ connect_server(c) \/ connect_fails(c) \/ end_of_input(c)
         \/ \E cmd \in Cmds : repl_write(c, cmd)
         \/ repl_read(c) \/ repl_read_eof(c) \/ abort(c)
  PROVE  AllInStep'
<1>1. CASE connect_server(c)
  <2>1. /\ client[c] = "out" /\ client' = [client EXCEPT ![c] = "prompt"]
        /\ open' = [open EXCEPT ![c] = TRUE]
        /\ UNCHANGED <<pc, cfd, answer, ended, up, down, sent, shown, done>>
    BY <1>1 DEF connect_server
  <2>2. ASSUME NEW d \in Clients, d # c
        PROVE  InStep(d)'
    <3>1. client'[d] = client[d] /\ open'[d] = open[d]
      BY <2>1, <2>2 DEF Typed, TypeOK
    <3> QED BY <2>1, <3>1, SameTurn DEF AllInStep, Writing
  <2>3. Idle(c)'
    <3>1. Untouched(c) /\ cfd # c
      BY <2>1, ServerAssumption DEF AllInStep, InStep, Queued
    <3>2. <<>> = [i \in 1 .. 0 |-> i]
      OBVIOUS
    <3> QED BY <2>1, <3>1, <3>2 DEF Untouched, Idle, Ran, Writing
  <2>4. client'[c] = "prompt"
    BY <2>1 DEF Typed, TypeOK
  <2> QED BY <2>2, <2>3, <2>4 DEF AllInStep, InStep
<1>2. CASE connect_fails(c) \/ abort(c)
  <2>1. /\ client' = [client EXCEPT ![c] = "gone"]
        /\ UNCHANGED <<server, ended, open, up, down, sent, shown, done>>
    BY <1>2 DEF connect_fails, abort
  <2>2. ASSUME NEW d \in Clients, d # c
        PROVE  InStep(d)'
    <3>1. client'[d] = client[d]
      BY <2>1, <2>2 DEF Typed, TypeOK
    <3> QED BY <2>1, <3>1, SameTurn DEF AllInStep, Writing, server
  <2>3. client'[c] = "gone"
    BY <2>1 DEF Typed, TypeOK
  <2> QED BY <2>2, <2>3, NoTurn DEF AllInStep
<1>3. CASE end_of_input(c)
  <2>1. /\ client[c] = "prompt" /\ ended' = [ended EXCEPT ![c] = TRUE]
        /\ UNCHANGED <<server, client, open, up, down, sent, shown, done>>
    BY <1>3 DEF end_of_input
  <2>2. ASSUME NEW d \in Clients, d # c
        PROVE  InStep(d)'
    <3>1. ended'[d] = ended[d]
      BY <2>1, <2>2 DEF Typed, TypeOK
    <3> QED BY <2>1, <3>1, SameTurn DEF AllInStep, Writing, server
  <2>3. ended'[c]
    BY <2>1 DEF Typed, TypeOK
  <2> QED BY <2>1, <2>2, <2>3, NoTurn DEF AllInStep
<1>4. CASE repl_read_eof(c)
  <2>1. /\ client[c] = "reading" /\ ~open[c]
        /\ shown' = [shown EXCEPT ![c] = JUNK] /\ client' = [client EXCEPT ![c] = "prompt"]
        /\ UNCHANGED <<server, ended, open, up, down, sent, done>>
    BY <1>4 DEF repl_read_eof
  <2>2. ASSUME NEW d \in Clients, d # c
        PROVE  InStep(d)'
    <3>1. client'[d] = client[d] /\ shown'[d] = shown[d]
      BY <2>1, <2>2 DEF Typed, TypeOK
    <3> QED BY <2>1, <3>1, SameTurn DEF AllInStep, Writing, server
  <2>3. client'[c] = "prompt"
    BY <2>1 DEF Typed, TypeOK
  <2> QED BY <2>1, <2>2, <2>3, NoTurn DEF AllInStep
<1> QED BY <1>1, <1>2, <1>3, <1>4, WriteInStep, ReadInStep

\* The server runs the one command it reads, and answers with a reply that fits.
LEMMA CommandInStep ==
  ASSUME Typed, Queued, AllInStep, rediskw_command
  PROVE  AllInStep'
<1>1. PICK c \in Clients : c = cfd
  BY ServerAssumption DEF rediskw_command, Typed, TypeOK
<1>2. /\ pc = "read" /\ up[c] # <<>> /\ up[c] \in Seq(Msg) /\ open[c]
      /\ up'[c] = LeftUnread(up[c]) /\ \A d \in Clients \ {c} : up'[d] = up[d]
      /\ UNCHANGED <<client, ended, down, sent, shown>>
      /\ client[c] # "out"
  BY <1>1, ServerAssumption DEF rediskw_command, Typed, Queued
<1> DEFINE m == Head(up[c])
<1>0. m = up[c][1]
  BY <1>2
<1>3. ASSUME NEW d \in Clients, d # c,
             open'[d] = open[d], done'[d] = done[d], ~Writing(d)'
      PROVE  InStep(d)'
  <2>1. ~Writing(d)
    BY <1>2 DEF Writing
  <2> QED BY <1>2, <1>3, <2>1, SameTurn DEF AllInStep
<1>4. CASE "data" \in Parsed(m) /\ done' = [done EXCEPT ![c] = Append(@, m.n)]
           /\ (\E s \in Sizes[c] : answer' = [n |-> m.n, size |-> s])
           /\ pc' = "write" /\ UNCHANGED <<cfd, open>>
  <2>1. done'[c] = Append(done[c], m.n) /\ \A d \in Clients \ {c} : done'[d] = done[d]
    BY <1>4 DEF Typed
  <2>2. InStep(c)'
    <3>1. CASE ~(~ended[c] /\ Fits(c) /\ client[c] \in {"prompt", "reading"})
      BY <1>2, <3>1 DEF InStep, Fits
    <3>2. CASE ~ended[c] /\ Fits(c) /\ client[c] \in {"prompt", "reading"}
      <4>1. Asked(c) /\ client[c] = "reading" /\ sent[c] \in Nat
        BY <1>2, <3>2 DEF AllInStep, InStep, Idle, Answering, Answered, Typed, TypeOK
      <4>2. m.n = sent[c] /\ up'[c] = <<>>
        BY <1>0, <1>2, <4>1, ReadLeaves DEF Asked
      <4>3. Append([i \in 1 .. sent[c] - 1 |-> i], sent[c]) = [i \in 1 .. sent[c] |-> i]
        <5> DEFINE n == sent[c]
                   s == [i \in 1 .. n - 1 |-> i]
                   t == [i \in 1 .. n |-> i]
        <5>1. n \in Nat \ {0}
          BY <4>1 DEF Asked
        <5> HIDE DEF n
        <5>2. s \in Seq(Nat) /\ Len(s) = n - 1 /\ t \in Seq(Nat) /\ Len(t) = n
          BY <5>1
        <5>3. Append(s, n) \in Seq(Nat) /\ Len(Append(s, n)) = n
          BY <5>1, <5>2
        <5>4. \A i \in 1 .. n : Append(s, n)[i] = t[i]
          BY <5>1, <5>2
        <5>5. Append(s, n) = t
          BY <5>2, <5>3, <5>4, SeqEqual
        <5> QED BY <5>5 DEF n
      <4>4. Ran(c, sent[c])'
        BY <1>2, <2>1, <4>1, <4>2, <4>3 DEF Asked, Ran
      <4>5. answer'.n = sent'[c] /\ answer'.size <= ReadCap
        BY <1>2, <1>4, <3>2, <4>2 DEF Fits
      <4>6. Answering(c)'
        BY <1>1, <1>2, <1>4, <4>1, <4>2, <4>4, <4>5 DEF Asked, Answering, Writing
      <4> QED BY <1>2, <4>1, <4>6 DEF InStep
    <3> QED BY <3>1, <3>2
  <2> QED BY <1>1, <1>3, <1>4, <2>1, <2>2 DEF AllInStep, Writing
<1>5. CASE "junk" \in Parsed(m) /\ pc' = "write" /\ UNCHANGED <<done, cfd, open>>
  <2>1. ended[c] \/ ~Fits(c) \/ client[c] = "gone"
    <3>1. up[c][1].cmd \in {"junk", "rest"}
      BY <1>0, <1>5 DEF Parsed
    <3>2. client[c] \in {"prompt", "reading", "gone"}
      BY <1>2 DEF Typed, TypeOK
    <3> QED BY <1>2, <3>1, <3>2 DEF AllInStep, InStep, Asked, Idle, Answering, Answered
  <2>2. InStep(c)'
    BY <1>2, <2>1 DEF InStep, Fits
  <2> QED BY <1>1, <1>3, <1>5, <2>2 DEF AllInStep, Writing
<1>6. CASE close_connection /\ UNCHANGED done
  <2>1. /\ ~open'[c] /\ \A d \in Clients \ {c} : open'[d] = open[d]
        /\ pc' = "accept"
    BY <1>1, <1>6 DEF close_connection, Typed, TypeOK
  <2>2. InStep(c)'
    BY <1>2, <2>1, NoTurn
  <2> QED BY <1>1, <1>3, <1>6, <2>1, <2>2 DEF AllInStep, Writing
<1>7. CASE Exit("stopped") /\ UNCHANGED done
  BY <1>2, <1>7, ExitInStep
<1> QED BY <1>1, <1>4, <1>5, <1>6, <1>7 DEF rediskw_command

\* An answer that fits a read is there as a whole.
LEMMA AnswerInStep ==
  ASSUME Typed, Queued, AllInStep, writeline
  PROVE  AllInStep'
<1>1. PICK c \in Clients : c = cfd
  BY DEF writeline, Typed, TypeOK
<1>2. /\ pc = "write" /\ open[c] /\ Writing(c) /\ client[c] # "out"
      /\ UNCHANGED <<answer, client, ended, up, sent, shown, done>>
  BY <1>1, ServerAssumption DEF writeline, Writing, Queued
<1>3. CASE client[c] # "gone" /\ down' = [down EXCEPT ![c] = @ \o Cells(answer)]
           /\ pc' = "read" /\ UNCHANGED <<cfd, open>>
  <2>1. down'[c] = down[c] \o Cells(answer) /\ \A d \in Clients \ {c} : down'[d] = down[d]
    BY <1>3 DEF Typed
  <2>2. ASSUME NEW d \in Clients, d # c
        PROVE  InStep(d)'
    <3>1. ~Writing(d) /\ ~Writing(d)'
      BY <1>1, <1>3, <2>2 DEF Writing
    <3> QED BY <1>2, <1>3, <2>1, <2>2, <3>1, SameTurn DEF AllInStep
  <2>3. InStep(c)'
    <3>1. CASE ended[c] \/ ~Fits(c)
      BY <1>2, <3>1 DEF InStep, Fits
    <3>2. CASE ~ended[c] /\ Fits(c)
      <4>1. Answering(c) /\ client[c] = "reading"
        BY <1>2, <1>3, <3>2 DEF AllInStep, InStep, Idle, Asked, Answered, Typed, TypeOK
      <4>2. /\ Cells(answer) \in Seq(Nat) /\ Len(Cells(answer)) = answer.size
            /\ answer.size \in Nat \ {0}
        BY DEF Cells, Typed
      <4>3. Cells(answer)[1] = sent[c]
        BY <4>1, <4>2 DEF Cells, Answering
      <4>4. down'[c] = Cells(answer)
        BY <2>1, <4>1, <4>2 DEF Answering
      <4>5. down'[c] # <<>> /\ Len(down'[c]) <= ReadCap /\ down'[c][1] = sent'[c]
        BY <1>2, <4>1, <4>2, <4>3, <4>4 DEF Answering
      <4>6. Answered(c)'
        BY <1>1, <1>2, <1>3, <4>1, <4>5 DEF Answering, Answered, Ran, Writing
      <4> QED BY <1>2, <4>1, <4>6 DEF InStep
    <3> QED BY <3>1, <3>2
  <2> QED BY <2>2, <2>3 DEF AllInStep
<1>4. CASE client[c] = "gone" /\ pc' = "read" /\ UNCHANGED <<cfd, open, down>>
  <2>1. ASSUME NEW d \in Clients, d # c
        PROVE  InStep(d)'
    <3>1. ~Writing(d) /\ ~Writing(d)'
      BY <1>1, <1>4, <2>1 DEF Writing
    <3> QED BY <1>2, <1>4, <3>1, SameTurn DEF AllInStep
  <2> QED BY <1>2, <1>4, <2>1, NoTurn DEF AllInStep
<1>5. CASE Exit("killed") /\ UNCHANGED down
  BY <1>2, <1>5, ExitInStep
<1> QED BY <1>1, <1>3, <1>4, <1>5 DEF writeline

\* Every step of the server keeps the turns.
LEMMA ServerInStep ==
  ASSUME Typed, Queued, AllInStep, ServerStep
  PROVE  AllInStep'
<1>1. CASE init_server \/ accept_connection
  <2>1. /\ UNCHANGED <<client, ended, open, up, down, sent, shown, done>>
        /\ pc # "write" /\ pc' # "write"
    BY <1>1 DEF init_server, accept_connection
  <2> QED BY <2>1, SameTurn DEF AllInStep, Writing
<1>2. CASE accept_fails
  BY <1>2, ExitInStep DEF accept_fails
<1>3. CASE rediskw_eof
  <2>1. PICK c \in Clients : c = cfd
    BY <1>3, ServerAssumption DEF rediskw_eof, Typed, TypeOK
  <2>2. /\ client[c] = "gone" /\ pc = "read"
        /\ UNCHANGED <<cfd, client, ended, open, up, down, sent, shown, done>>
    BY <1>3, <2>1 DEF rediskw_eof
  <2>3. ASSUME NEW d \in Clients, d # c
        PROVE  InStep(d)'
    BY <2>1, <2>2, <2>3, SameTurn DEF AllInStep, Writing
  <2> QED BY <2>2, <2>3, NoTurn DEF AllInStep
<1> QED BY <1>1, <1>2, <1>3, CommandInStep, AnswerInStep DEF ServerStep

\* Every step keeps the turns.
LEMMA StepInStep ==
  ASSUME Typed, Queued, AllInStep, [Next]_vars
  PROVE  AllInStep'
<1>1. CASE UNCHANGED vars
  BY <1>1, SameTurn DEF vars, server, AllInStep, Writing
<1> QED BY <1>1, ClientInStep, ServerInStep DEF Next

\* A client whose replies fit a read is never behind: at the prompt it has been
\* shown the reply to its last command, and all its commands have run.
THEOREM KeepInStep == Spec => []Lockstep
<1> DEFINE Inv == Typed /\ Queued /\ AllInStep
<1>1. Init => Inv
  BY InitTyped, InitQueued, InitInStep
<1>2. Inv /\ [Next]_vars => Inv'
  BY StepTyped, StepQueued, StepInStep
<1>3. Inv => Lockstep
  BY DEF AllInStep, InStep, Idle, Ran, Lockstep
<1> QED BY <1>1, <1>2, <1>3, PTL DEF Spec
=============================================================================
