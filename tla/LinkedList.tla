----------------------------- MODULE LinkedList -----------------------------
(***************************************************************************)
(* The doubly linked list of src/list.c, with its pointers, as the list    *)
(* commands of htable.c use it: an index is resolved and checked first     *)
(* (htable_check_id, htable_check_ids).                                    *)
(*                                                                         *)
(* list_rem, which unlinks and frees the nodes it walks over, is one       *)
(* action per iteration of its loop. A popped node belongs to the caller,  *)
(* who keeps the string and never links the node again, so that its name   *)
(* is used for the next node to be allocated.                              *)
(***************************************************************************)
EXTENDS Integers, FiniteSets

CONSTANTS Nodes,   \* the heap blocks a node can be
          Values,  \* the strings stored
          Counts,  \* the counts clients give to lrem
          Indices, \* the indices clients give to lindex, lset and lrange
          NULL

ASSUME ListAssumption ==
  /\ IsFiniteSet(Nodes) /\ NULL \notin Nodes \cup Values
  /\ Counts \subseteq Int /\ Indices \subseteq Int

VARIABLES
  len, head, tail,    \* the fields of List
  value, next, prev,  \* node -> the fields of ListNode
  allocated,          \* the nodes that node_init made and nobody freed
  rem,                \* the locals of a list_rem under way, or NULL
  before,             \* auxiliary: the values the list had when it began
  reply               \* the last command, the strings it returned, and its integer

list == <<len, head, tail, value, next, prev, allocated>>
vars == <<list, rem, before, reply>>

Ptr == Nodes \cup {NULL}

\* The node that i steps along "next" reach, as in the loop of list_index.
Hop == LET h[i \in Nat] == IF i = 0 THEN head
                           ELSE IF h[i - 1] = NULL THEN NULL ELSE next[h[i - 1]]
       IN  h

Contents == [i \in 1 .. len |-> value[Hop[i - 1]]]

idle == rem = NULL

Answer(cmd, vals, n) == reply' = [cmd |-> cmd, vals |-> vals, n |-> n]
OutOfRange(cmd) == Answer(cmd, <<>>, -2)
-----------------------------------------------------------------------------
NoAnswer == [cmd |-> <<"none">>, vals |-> <<>>, n |-> 0]

Init ==
  /\ len = 0 /\ head = NULL /\ tail = NULL
  /\ value = [n \in Nodes |-> NULL]
  /\ next = [n \in Nodes |-> NULL] /\ prev = [n \in Nodes |-> NULL]
  /\ allocated = {} /\ rem = NULL /\ before = <<>>
  /\ reply = NoAnswer

node_init(n, v) == /\ n \notin allocated /\ allocated' = allocated \cup {n}
                   /\ value' = [value EXCEPT ![n] = v]

list_lpush(v) ==
  /\ idle
  /\ \E n \in Nodes :
       /\ node_init(n, v)
       /\ next' = [next EXCEPT ![n] = IF len > 0 THEN head ELSE NULL]
       /\ IF len > 0
          THEN prev' = [prev EXCEPT ![n] = NULL, ![head] = n] /\ UNCHANGED tail
          ELSE prev' = [prev EXCEPT ![n] = NULL] /\ tail' = n
       /\ head' = n /\ len' = len + 1
  /\ Answer(<<"lpush", v>>, <<>>, len + 1) /\ UNCHANGED <<rem, before>>

list_rpush(v) ==
  /\ idle
  /\ \E n \in Nodes :
       /\ node_init(n, v)
       /\ prev' = [prev EXCEPT ![n] = IF len > 0 THEN tail ELSE NULL]
       /\ IF len > 0
          THEN next' = [next EXCEPT ![n] = NULL, ![tail] = n] /\ UNCHANGED head
          ELSE next' = [next EXCEPT ![n] = NULL] /\ head' = n
       /\ tail' = n /\ len' = len + 1
  /\ Answer(<<"rpush", v>>, <<>>, len + 1) /\ UNCHANGED <<rem, before>>

\* Mutants of Release: "len" drops twice; the node is not freed.
ReleaseTwice(n, nxt, prv) ==
  /\ next' = [nxt EXCEPT ![n] = NULL] /\ prev' = [prv EXCEPT ![n] = NULL]
  /\ value' = [value EXCEPT ![n] = NULL]
  /\ allocated' = allocated \ {n} /\ len' = len - 2
ReleaseNothing(n, nxt, prv) ==
  /\ next' = nxt /\ prev' = prv /\ len' = len - 1 /\ UNCHANGED <<value, allocated>>

\* A node leaves the list: list_rem frees it, a pop hands it to the caller.
\* Its fields are blanked, as nobody reads them from the list any more.
Release(n, nxt, prv) ==
  /\ next' = [nxt EXCEPT ![n] = NULL] /\ prev' = [prv EXCEPT ![n] = NULL]
  /\ value' = [value EXCEPT ![n] = NULL]
  /\ allocated' = allocated \ {n} /\ len' = len - 1

PopEmpty(cmd) == len = 0 /\ Answer(cmd, <<>>, 0) /\ UNCHANGED list

list_lpop ==
  /\ idle
  /\ \/ PopEmpty(<<"lpop">>)
     \/ /\ len > 1 /\ head' = next[head] /\ UNCHANGED tail
        /\ Release(head, next, [prev EXCEPT ![next[head]] = NULL])
        /\ Answer(<<"lpop">>, <<value[head]>>, 0)
     \/ /\ len = 1 /\ head' = NULL /\ tail' = NULL
        /\ Release(head, next, prev) /\ Answer(<<"lpop">>, <<value[head]>>, 0)
  /\ UNCHANGED <<rem, before>>

list_rpop ==
  /\ idle
  /\ \/ PopEmpty(<<"rpop">>)
     \/ /\ len > 1 /\ tail' = prev[tail] /\ UNCHANGED head
        /\ Release(tail, [next EXCEPT ![prev[tail]] = NULL], prev)
        /\ Answer(<<"rpop">>, <<value[tail]>>, 0)
     \/ /\ len = 1 /\ head' = NULL /\ tail' = NULL
        /\ Release(tail, next, prev) /\ Answer(<<"rpop">>, <<value[tail]>>, 0)
  /\ UNCHANGED <<rem, before>>
-----------------------------------------------------------------------------
\* htable_check_id and htable_check_ids: an index from the end, and its check.
Resolved(id) == IF id < 0 THEN len + id ELSE id
InRange(id) == Resolved(id) >= 0 /\ Resolved(id) < len

NoChange == UNCHANGED <<list, rem, before>>

list_index(id) ==
  /\ idle /\ NoChange
  /\ IF InRange(id)
     THEN Answer(<<"lindex", id>>, <<value[Hop[Resolved(id)]]>>, 0) ELSE OutOfRange(<<"lindex", id>>)

list_range(b, e) ==
  /\ idle /\ NoChange
  /\ IF InRange(b) /\ InRange(e) /\ Resolved(b) <= Resolved(e)
     THEN Answer(<<"lrange", b, e>>,
                 [i \in 1 .. Resolved(e) - Resolved(b) + 1 |-> value[Hop[Resolved(b) + i - 1]]], 0)
     ELSE OutOfRange(<<"lrange", b, e>>)

\* The walk of list_pos ends at NULL, not at len.
list_pos(v) ==
  LET Hits == {i \in 0 .. Cardinality(Nodes) : Hop[i] # NULL /\ value[Hop[i]] = v}
  IN  /\ idle /\ NoChange
      /\ Answer(<<"lpos", v>>, <<>>,
                IF Hits = {} THEN -1 ELSE CHOOSE i \in Hits : \A j \in Hits : i <= j)

list_set(id, v) ==
  /\ idle
  /\ \/ /\ InRange(id)
        /\ value' = [value EXCEPT ![Hop[Resolved(id)]] = v]
        /\ Answer(<<"lset", id, v>>, <<>>, 0)
        /\ UNCHANGED <<len, head, tail, next, prev, allocated, rem, before>>
     \/ ~InRange(id) /\ OutOfRange(<<"lset", id, v>>) /\ NoChange
-----------------------------------------------------------------------------
list_rem(count, v) ==
  /\ idle
  /\ rem' = [value |-> v, i |-> 0, pos |-> count, count |-> count,
             cur |-> IF count >= 0 THEN head ELSE tail]
  /\ before' = Contents /\ reply' = NoAnswer
  /\ UNCHANGED list

\* Mutant of Bypass: the backward pointer stays.
BypassForward(nd) ==
  [head |-> head, tail |-> tail, next |-> [next EXCEPT ![prev[nd]] = next[nd]], prev |-> prev]

\* node_del in the middle of the list.
Bypass(nd) ==
  [head |-> head, tail |-> tail,
   next |-> [next EXCEPT ![prev[nd]] = next[nd]],
   prev |-> [prev EXCEPT ![next[nd]] = prev[nd]]]

\* What node_del makes of the pointers; it leaves those of nd alone.
node_del(nd) ==
  CASE len = 1 -> [head |-> NULL, tail |-> NULL, next |-> next, prev |-> prev]
    [] len # 1 /\ nd = head ->
         [head |-> next[nd], tail |-> tail, next |-> next,
          prev |-> [prev EXCEPT ![next[nd]] = NULL]]
    [] len # 1 /\ nd # head /\ nd = tail ->
         [head |-> head, tail |-> prev[nd],
          next |-> [next EXCEPT ![prev[nd]] = NULL], prev |-> prev]
    [] OTHER -> Bypass(nd)

\* Mutant of RemEnds: a count of 0 is not special.
RemEndsAtZero == rem.cur = NULL \/ rem.count = 0

\* The loop ends at the end of the list, or with the last removal asked for.
RemEnds == rem.cur = NULL \/ (rem.pos # 0 /\ rem.count = 0)

\* Mutant of Onwards: the walk does not move on.
StayPut(nxt, prv) == rem.cur

\* cur = pos >= 0 ? cur->next : cur->prev
Onwards(nxt, prv) == IF rem.pos >= 0 THEN nxt[rem.cur] ELSE prv[rem.cur]

RemSkip ==
  /\ ~idle /\ ~RemEnds /\ value[rem.cur] # rem.value
  /\ rem' = [rem EXCEPT !.cur = Onwards(next, prev)]
  /\ UNCHANGED <<list, before, reply>>

\* The next node is read from the node after node_del and before node_free.
RemDelete ==
  /\ ~idle /\ ~RemEnds /\ value[rem.cur] = rem.value
  /\ LET left == node_del(rem.cur) IN
       /\ head' = left.head /\ tail' = left.tail
       /\ rem' = [rem EXCEPT !.i = @ + 1, !.cur = Onwards(left.next, left.prev),
                             !.count = IF rem.pos >= 0 THEN @ - 1 ELSE @ + 1]
       /\ Release(rem.cur, left.next, left.prev)
  /\ UNCHANGED <<before, reply>>

RemReturn ==
  /\ ~idle /\ RemEnds
  /\ Answer(<<"lrem", rem.pos, rem.value>>, <<>>, rem.i) /\ rem' = NULL /\ before' = <<>>
  /\ UNCHANGED list

Next ==
  \/ \E v \in Values : list_lpush(v) \/ list_rpush(v) \/ list_pos(v)
  \/ list_lpop \/ list_rpop
  \/ \E id \in Indices : list_index(id) \/ \E v \in Values : list_set(id, v)
  \/ \E b, e \in Indices : list_range(b, e)
  \/ \E count \in Counts, v \in Values : list_rem(count, v)
  \/ RemSkip \/ RemDelete \/ RemReturn

\* The loop of list_rem runs in the server's only thread.
Fairness == WF_vars(RemSkip \/ RemDelete \/ RemReturn)

Spec == Init /\ [][Next]_vars
FairSpec == Spec /\ Fairness
-----------------------------------------------------------------------------
\* The locals of a list_rem under way.
Removal == [value : Values, i : Nat, pos : Counts, count : Int, cur : Ptr]

\* No removal is taken for the absence of one.
ASSUME NullAssumption == NULL \notin Removal

TypeOK ==
  /\ len \in 0 .. Cardinality(Nodes) /\ head \in Ptr /\ tail \in Ptr
  /\ value \in [Nodes -> Values \cup {NULL}]
  /\ next \in [Nodes -> Ptr] /\ prev \in [Nodes -> Ptr]
  /\ allocated \subseteq Nodes
  /\ rem \in Removal \cup {NULL}

\* "next" from head and "prev" from tail visit the same "len" nodes in opposite
\* orders, every one of them allocated, also between two iterations of list_rem.
WellLinked ==
  /\ Hop[len] = NULL /\ \A i \in 0 .. len - 1 : Hop[i] \in allocated
  /\ tail = IF len = 0 THEN NULL ELSE Hop[len - 1]
  /\ \A i \in 0 .. len - 1 : prev[Hop[i]] = IF i = 0 THEN NULL ELSE Hop[i - 1]

\* No node is lost: what is allocated is in the list.
NoLeak == allocated \subseteq {Hop[i] : i \in 0 .. len - 1}

\* list_rem frees nodes while it walks, and never stands on a freed one.
NoUseAfterFree == rem # NULL => rem.cur \in allocated \cup {NULL}

\* The reference list: the removal takes place when list_rem returns.
Abstract == INSTANCE ListSpec WITH
              seq <- IF idle THEN Contents ELSE before,
              MaxLen <- Cardinality(Nodes)

\* The pointers implement a sequence, with the answers a sequence gives.
IsSequence == Abstract!Spec

\* list_rem returns.
RemReturns == (rem # NULL) ~> (rem = NULL)
=============================================================================
