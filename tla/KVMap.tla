------------------------------- MODULE KVMap -------------------------------
(***************************************************************************)
(* What a hash table promises: a finite map from keys to typed values,     *)
(* with the answers its operations give and the number of items it counts. *)
(* Spec is the map a caller expects; LossySpec also lets the map lose the  *)
(* keys of Shaky, without counting that, and is what htable.c keeps.       *)
(***************************************************************************)
EXTENDS Integers

CONSTANTS Keys, Handles, Types, NULL,
          Shaky  \* the keys that may be refused or lost

VARIABLES store, \* key -> [type, val], or NULL when the key is absent
          used,  \* insertions less deletions
          reply  \* the answer of the last operation

vars == <<store, used, reply>>

Answer(op, k, ok, v) == reply' = [op |-> op, key |-> k, ok |-> ok, val |-> v]

Init == /\ store = [k \in Keys |-> NULL] /\ used = 0
        /\ reply = [op |-> "none", key |-> NULL, ok |-> FALSE, val |-> NULL]

Get(k) == /\ Answer("get", k, store[k] # NULL,
                    IF store[k] = NULL THEN NULL ELSE store[k].val)
          /\ UNCHANGED <<store, used>>

Insert(k, type, h) == /\ store[k] = NULL
                      /\ store' = [store EXCEPT ![k] = [type |-> type, val |-> h]]
                      /\ used' = used + 1

\* A string overwrites a string, and nothing else.
Set(k, h) ==
  \/ Insert(k, "STR_T", h) /\ Answer("set", k, TRUE, h)
  \/ /\ store[k] # NULL /\ store[k].type = "STR_T"
     /\ store' = [store EXCEPT ![k] = [type |-> "STR_T", val |-> h]]
     /\ UNCHANGED used
     /\ Answer("set", k, TRUE, h)
  \/ /\ store[k] # NULL /\ store[k].type # "STR_T"
     /\ UNCHANGED <<store, used>>
     /\ Answer("set", k, FALSE, NULL)

Create(k, type, h) == Insert(k, type, h) /\ Answer("create", k, TRUE, h)

Del(k) ==
  \/ /\ store[k] # NULL
     /\ store' = [store EXCEPT ![k] = NULL] /\ used' = used - 1
     /\ Answer("del", k, TRUE, NULL)
  \/ /\ store[k] = NULL
     /\ UNCHANGED <<store, used>>
     /\ Answer("del", k, FALSE, NULL)

Next == \E k \in Keys :
          \/ Get(k) \/ Del(k)
          \/ \E h \in Handles : Set(k, h)
          \/ \E h \in Handles, type \in Types \ {"STR_T"} : Create(k, type, h)

Spec == Init /\ [][Next]_vars

\* A key is refused or lost only in favour of another one.
InTheWay(k) == k \in Shaky /\ \E d \in Keys \ {k} : store[d] # NULL

\* An insertion that is acknowledged and not performed.
Ignore(k) == /\ store[k] = NULL /\ InTheWay(k)
             /\ \E op \in {"set", "create"}, h \in Handles : Answer(op, k, TRUE, h)
             /\ UNCHANGED <<store, used>>

\* A key that disappears although nobody deleted it.
Forget(k) == /\ store[k] # NULL /\ InTheWay(k)
             /\ store' = [store EXCEPT ![k] = NULL]
             /\ UNCHANGED <<used, reply>>

LossyNext == Next \/ \E k \in Keys : Ignore(k) \/ Forget(k)

LossySpec == Init /\ [][LossyNext]_vars
=============================================================================
