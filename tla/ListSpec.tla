------------------------------ MODULE ListSpec ------------------------------
(***************************************************************************)
(* What a list promises: a finite sequence, changed at both ends, by index *)
(* and by value, with the answers its commands give.                       *)
(***************************************************************************)
EXTENDS ListOps

CONSTANTS Values, Counts, Indices, MaxLen

VARIABLES seq,  \* the values, first to last
          reply \* the last command, the values it answered with, and its integer

vars == <<seq, reply>>

Answer(cmd, vals, n) == reply' = [cmd |-> cmd, vals |-> vals, n |-> n]
OutOfRange(cmd) == Answer(cmd, <<>>, -2)

NoAnswer == [cmd |-> <<"none">>, vals |-> <<>>, n |-> 0]

Init == seq = <<>> /\ reply = NoAnswer

LPush(v) == /\ Len(seq) < MaxLen /\ seq' = <<v>> \o seq
            /\ Answer(<<"lpush", v>>, <<>>, Len(seq) + 1)
RPush(v) == /\ Len(seq) < MaxLen /\ seq' = Append(seq, v)
            /\ Answer(<<"rpush", v>>, <<>>, Len(seq) + 1)

LPop == \/ seq = <<>> /\ Answer(<<"lpop">>, <<>>, 0) /\ UNCHANGED seq
        \/ seq # <<>> /\ Answer(<<"lpop">>, <<Head(seq)>>, 0) /\ seq' = Tail(seq)
RPop == \/ seq = <<>> /\ Answer(<<"rpop">>, <<>>, 0) /\ UNCHANGED seq
        \/ seq # <<>> /\ Answer(<<"rpop">>, <<Last(seq)>>, 0) /\ seq' = Front(seq)

Index(id) ==
  /\ IF Place(seq, id) \in DOMAIN seq
     THEN Answer(<<"lindex", id>>, <<seq[Place(seq, id)]>>, 0) ELSE OutOfRange(<<"lindex", id>>)
  /\ UNCHANGED seq

Set(id, v) ==
  IF Place(seq, id) \in DOMAIN seq
  THEN seq' = [seq EXCEPT ![Place(seq, id)] = v] /\ Answer(<<"lset", id, v>>, <<>>, 0)
  ELSE UNCHANGED seq /\ OutOfRange(<<"lset", id, v>>)

Slice(b, e) ==
  /\ IF Place(seq, b) \in DOMAIN seq /\ Place(seq, e) \in DOMAIN seq /\ Place(seq, b) <= Place(seq, e)
     THEN Answer(<<"lrange", b, e>>, SubSeq(seq, Place(seq, b), Place(seq, e)), 0)
     ELSE OutOfRange(<<"lrange", b, e>>)
  /\ UNCHANGED seq

Pos(v) == Answer(<<"lpos", v>>, <<>>, IndexOf(seq, v)) /\ UNCHANGED seq

Rem(count, v) == /\ seq' = Without(seq, count, v)
                 /\ Answer(<<"lrem", count, v>>, <<>>, Cardinality(Doomed(seq, count, v)))

\* Between two commands: the client has read the last answer.
Taken == reply' = NoAnswer /\ UNCHANGED seq

Next ==
  \/ \E v \in Values : LPush(v) \/ RPush(v) \/ Pos(v)
  \/ LPop \/ RPop \/ Taken
  \/ \E id \in Indices : Index(id) \/ \E v \in Values : Set(id, v)
  \/ \E b, e \in Indices : Slice(b, e)
  \/ \E count \in Counts, v \in Values : Rem(count, v)

Spec == Init /\ [][Next]_vars
=============================================================================
