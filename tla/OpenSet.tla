------------------------------ MODULE OpenSet ------------------------------
(***************************************************************************)
(* The set of src/set.c, which every set value is: the probing of HTable   *)
(* over bare strings, with one loop that both looks for the member and     *)
(* finds a slot for it. As in HTable, the loop of set_resize is one action *)
(* per slot. Each slot owns its own copy of the string, and set_resize     *)
(* copies again, so that no heap is modelled.                              *)
(***************************************************************************)
EXTENDS Probing

VARIABLES
  size, used,              \* Set.size and Set.used
  members,                 \* slot -> the string there, NULL or DELETED
  nsize, nused, nmembers,  \* new_st of set_resize, empty when idle
  cursor,                  \* the loop index i of set_resize
  pc,                      \* "idle", "rehash", or "nested"
  reply                    \* what the last operation returned

set == <<size, used, members>>
new_st == <<nsize, nused, nmembers>>
vars == <<set, new_st, cursor, pc, reply>>

Answer(op, k, ok) == reply' = [op |-> op, key |-> k, ok |-> ok]
-----------------------------------------------------------------------------
\* Mutant of AddsAt: the loop does not compare.
AddsAnyway(t, s, k, p) == AvailableAt(t, s, k, p)

\* set_add stores k at slot p: no attempt before met k or a reusable slot.
AddsAt(t, s, k, p) ==
  \E j \in Slots(s) :
    /\ p = hash_func(k, s, j) /\ t[p] \notin Keys
    /\ \A m \in Slots(j) : t[hash_func(k, s, m)] \in Keys \ {k}

\* set_add returns false: it met k first, or nothing but other members.
Refuses(t, s, k) == \A p \in Slots(s) : ~AddsAt(t, s, k, p)
-----------------------------------------------------------------------------
Init ==
  /\ size = next_prime(HT_BASE_SIZE) /\ used = 0 /\ members = EmptySlots(size)
  /\ nsize = 0 /\ nused = 0 /\ nmembers = EmptySlots(0)
  /\ cursor = 0 /\ pc = "idle"
  /\ reply = [op |-> "none", key |-> NULL, ok |-> FALSE]

\* set_resize up to its loop; MaxRequest bounds the growth of the model.
StartResize(n) ==
  /\ n <= MaxRequest
  /\ pc' = "rehash" /\ cursor' = 0
  /\ nsize' = next_prime(n) /\ nused' = 0 /\ nmembers' = EmptySlots(nsize')

NoResize == UNCHANGED <<new_st, cursor, pc>>

set_resize(n) == IF n < HT_BASE_SIZE THEN NoResize ELSE StartResize(n)

\* Mutant of set_resize_up: no doubling.
resize_up_in_place == IF load(used', size) > 70 THEN set_resize(size) ELSE NoResize

set_resize_up == IF load(used', size) > 70 THEN set_resize(size * 2) ELSE NoResize
set_resize_down == IF load(used', size) < 10 THEN set_resize(size \div 2) ELSE NoResize

\* Mutant of StoreMember: a member in place of a tombstone is not counted.
StoreUncounted(p, k) == /\ members' = [members EXCEPT ![p] = k]
                        /\ used' = IF members[p] = DELETED THEN used ELSE used + 1
                        /\ UNCHANGED size

\* members[hash] = strdup(key); used++
StoreMember(p, k) == /\ members' = [members EXCEPT ![p] = k]
                     /\ used' = used + 1 /\ UNCHANGED size

set_add(k) ==
  /\ pc = "idle"
  /\ \/ \E p \in Slots(size) :
          /\ AddsAt(members, size, k, p)
          /\ StoreMember(p, k)
          /\ set_resize_up
          /\ Answer("add", k, TRUE)
     \/ /\ Refuses(members, size, k)
        /\ Answer("add", k, FALSE)
        /\ UNCHANGED <<set, new_st, cursor, pc>>

\* Mutants of DropMember: the slot becomes unused; "used" drops twice.
DropToNull(p) == /\ members' = [members EXCEPT ![p] = NULL]
                 /\ used' = used - 1 /\ UNCHANGED size
DropTwice(p) == /\ members' = [members EXCEPT ![p] = DELETED]
                /\ used' = used - 2 /\ UNCHANGED size

\* members[hash] = &SET_DELETED; used--
DropMember(p) == /\ members' = [members EXCEPT ![p] = DELETED]
                 /\ used' = used - 1 /\ UNCHANGED size

set_rem(k) ==
  /\ pc = "idle"
  /\ \/ \E p \in Slots(size) :
          /\ FoundAt(members, size, k, p)
          /\ DropMember(p)
          /\ set_resize_down
          /\ Answer("rem", k, TRUE)
     \/ /\ Missing(members, size, k)
        /\ Answer("rem", k, FALSE)
        /\ UNCHANGED <<set, new_st, cursor, pc>>

set_ismember(k) ==
  /\ pc = "idle"
  /\ Answer("ismember", k, ~Missing(members, size, k))
  /\ UNCHANGED <<set, new_st, cursor, pc>>

\* One iteration of the loop of set_resize: set_add of a member into new_st,
\* which skips a second copy and drops what finds no room.
MoveMember ==
  /\ pc = "rehash" /\ cursor < size
  /\ cursor' = cursor + 1
  /\ LET k == members[cursor] IN
     \/ /\ k \in Keys
        /\ \E p \in Slots(nsize) :
             /\ AddsAt(nmembers, nsize, k, p)
             /\ nmembers' = [nmembers EXCEPT ![p] = k]
             /\ nused' = nused + 1 /\ UNCHANGED nsize
             /\ pc' = IF load(nused', nsize) > 70 THEN "nested" ELSE "rehash"
     \/ /\ k \in Keys => Refuses(nmembers, nsize, k)
        /\ UNCHANGED <<new_st, pc>>
  /\ UNCHANGED <<set, reply>>

\* Mutant of LoopDone: the last slot is not moved.
LoopDoneEarly == cursor = size - 1

LoopDone == cursor = size

\* The sets swap their slots; used is not recomputed.
FinishResize ==
  /\ pc = "rehash" /\ LoopDone
  /\ size' = nsize /\ members' = nmembers
  /\ nsize' = 0 /\ nused' = 0 /\ nmembers' = EmptySlots(0)
  /\ cursor' = 0 /\ pc' = "idle"
  /\ UNCHANGED <<used, reply>>

Next ==
  \/ \E k \in Keys : set_add(k) \/ set_rem(k) \/ set_ismember(k)
  \/ MoveMember
  \/ FinishResize

Spec == Init /\ [][Next]_vars
-----------------------------------------------------------------------------
\* Each variable keeps its type; "used" in particular never goes below 0.
TypeOK ==
  /\ size \in Nat \ {0, 1} /\ used \in Nat /\ nsize \in Nat /\ nused \in Nat
  /\ cursor \in 0 .. size
  /\ members \in [Slots(size) -> Keys \cup {NULL, DELETED}]
  /\ nmembers \in [Slots(nsize) -> Keys \cup {NULL}]
  /\ pc \in {"idle", "rehash", "nested"}
  /\ reply \in [op : {"none", "add", "rem", "ismember"}, key : Keys \cup {NULL},
                ok : BOOLEAN]

\* A stored string is found by set_ismember and set_rem, in this slot or in
\* that of another copy.
Reachable ==
  /\ \A p \in Live(members) : ~Missing(members, size, members[p])
  /\ \A p \in Live(nmembers) : ~Missing(nmembers, nsize, nmembers[p])

\* The new table of a rehash holds no member twice: resizing heals duplicates.
RehashMerges ==
  \A p, q \in Live(nmembers) : nmembers[p] = nmembers[q] => p = q

\* "used" never undercounts the stored copies: htable_srem, which deletes the
\* key of a set when its "used" is 0, never deletes a set with members left.
CountBound == Cardinality(Live(members)) <= used

\* set_resize -> set_add -> set_resize never happens.
NeverNested == pc # "nested"

Pending == {p \in Live(members) : p >= cursor}

\* The copies of a key that count: those of the new table, which stand for all
\* the ones moved so far, and those the rehash has yet to reach.
Copies ==
  [k \in Keys |-> Cardinality({p \in Live(nmembers) : nmembers[p] = k})
                    + Cardinality({p \in Pending : members[p] = k})]

Bag == INSTANCE LooseSet WITH copies <- Copies,
                              stones <- \E p \in Slots(size) : members[p] = DELETED

\* The set is a bag: only a string that somewhere has the probe step 0 is ever
\* refused or lost, and only for another member; copies arise only where there
\* are tombstones, and a rehash leaves one of each; strangers never answer for
\* members; "used" tells the additions and removals that were performed.
IsBag == Bag!Spec

\* A string that was just removed is no longer a member.
RemovedIsGone ==
  (pc = "idle" /\ reply.op = "rem" /\ reply.ok) =>
    \A p \in Live(members) : members[p] # reply.key

\* A set without members counts none, so that htable_srem, which looks at "used"
\* alone, deletes the key of a set with its last member.
EmptiedIsGone == pc = "idle" /\ Live(members) = {} => used = 0
=============================================================================
