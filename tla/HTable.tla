------------------------------- MODULE HTable -------------------------------
(***************************************************************************)
(* The open-addressing hash table of src/htable.c: double hashing,         *)
(* tombstones, and a rehash into a table of another size when the load     *)
(* leaves 10..70 per cent. The keyspace of the server is such a table, and *)
(* so is every hash value.                                                 *)
(*                                                                         *)
(* An operation is one action, except that the loop of htable_resize is    *)
(* one action per slot (pc = "rehash"): two tables exist meanwhile and own *)
(* the values between them. A value is a handle on the heap block the      *)
(* item points to, so that frees and leaks are visible.                    *)
(***************************************************************************)
EXTENDS Probing

CONSTANTS Handles,    \* heap blocks for values
          Types,      \* the item types in use, a subset of ItemTypes
          FREE        \* an unallocated heap block

ItemTypes == {"STR_T", "HASH_T", "LIST_T", "SET_T"}

ASSUME HTableAssumption ==
  /\ Types \subseteq ItemTypes /\ "STR_T" \in Types
  /\ NULL \notin Handles
  /\ FREE \notin Types
  /\ NULL \notin [type : Types, val : Handles]

VARIABLES
  size, used, \* HashTable.size and HashTable.used
  items,      \* slot -> the key of the item there, NULL or DELETED
  vals,       \* slot -> item->value
  nsize, nused, nitems, nvals, \* new_ht of htable_resize, empty when idle
  cursor,     \* the loop index i of htable_resize
  heap,       \* handle -> the type of the block allocated there, or FREE
  pc,         \* "idle", "rehash", or "nested" (a resize inside a resize)
  reply       \* what the last operation returned

table == <<size, used, items, vals>>
new_ht == <<nsize, nused, nitems, nvals>>
vars == <<table, new_ht, cursor, heap, pc, reply>>

Answer(op, k, ok, v) == reply' = [op |-> op, key |-> k, ok |-> ok, val |-> v]
-----------------------------------------------------------------------------
Init ==
  /\ size = next_prime(HT_BASE_SIZE) /\ used = 0
  /\ items = EmptySlots(size) /\ vals = EmptySlots(size)
  /\ nsize = 0 /\ nused = 0 /\ nitems = EmptySlots(0) /\ nvals = EmptySlots(0)
  /\ cursor = 0 /\ pc = "idle"
  /\ heap = [h \in Handles |-> FREE]
  /\ reply = [op |-> "none", key |-> NULL, ok |-> FALSE, val |-> NULL]

\* htable_resize up to its loop; MaxRequest bounds the growth of the model.
StartResize(n) ==
  /\ n <= MaxRequest
  /\ pc' = "rehash" /\ cursor' = 0
  /\ nsize' = next_prime(n) /\ nused' = 0
  /\ nitems' = EmptySlots(nsize') /\ nvals' = EmptySlots(nsize')

NoResize == UNCHANGED <<new_ht, cursor, pc>>

htable_resize(n) == IF n < HT_BASE_SIZE THEN NoResize ELSE StartResize(n)

\* Mutants of htable_resize_up: a higher limit, and no doubling.
resize_up_at_80 == IF load(used', size) > 80 THEN htable_resize(size * 2) ELSE NoResize
resize_up_in_place == IF load(used', size) > 70 THEN htable_resize(size) ELSE NoResize

htable_resize_up == IF load(used', size) > 70 THEN htable_resize(size * 2) ELSE NoResize
htable_resize_down == IF load(used', size) < 10 THEN htable_resize(size \div 2) ELSE NoResize

\* Mutant of StoreItem: an item in place of a tombstone is not counted.
StoreUncounted(p, k, h) == /\ items' = [items EXCEPT ![p] = k]
                           /\ vals' = [vals EXCEPT ![p] = h]
                           /\ used' = IF items[p] = DELETED THEN used ELSE used + 1
                           /\ UNCHANGED size

\* items[hash] = item_init(...); used++
StoreItem(p, k, h) == /\ items' = [items EXCEPT ![p] = k]
                      /\ vals' = [vals EXCEPT ![p] = h]
                      /\ used' = used + 1 /\ UNCHANGED size

\* htable_insert of block h. When every slot probed is live the loop falls
\* through: nothing is stored, and nobody is told.
htable_insert(k, type, h) ==
  /\ heap[h] = FREE /\ heap' = [heap EXCEPT ![h] = type]
  /\ \/ \E p \in Slots(size) :
          /\ AvailableAt(items, size, k, p)
          /\ StoreItem(p, k, h)
          /\ htable_resize_up
     \/ NoRoom(items, size, k) /\ UNCHANGED <<table, new_ht, cursor, pc>>

\* item_free of the old item, item_init of the new: strdup came first.
ReplaceStr(p, h) == /\ heap[h] = FREE
                    /\ heap' = [heap EXCEPT ![vals[p]] = FREE, ![h] = "STR_T"]
                    /\ vals' = [vals EXCEPT ![p] = h]
                    /\ UNCHANGED <<size, used, items, new_ht, cursor, pc>>

\* Mutant of htable_update_str: whatever the key holds is replaced.
update_any(k, h) == \E p \in Slots(size) : FoundAt(items, size, k, p) /\ ReplaceStr(p, h)

htable_update_str(k, h) ==
  \E p \in Slots(size) :
    FoundAt(items, size, k, p) /\ heap[vals[p]] = "STR_T" /\ ReplaceStr(p, h)

htable_set(k, h) ==
  /\ pc = "idle"
  /\ \/ Missing(items, size, k) /\ htable_insert(k, "STR_T", h) /\ Answer("set", k, TRUE, h)
     \/ htable_update_str(k, h) /\ Answer("set", k, TRUE, h)
     \/ /\ \E p \in Slots(size) : FoundAt(items, size, k, p) /\ heap[vals[p]] # "STR_T"
        /\ Answer("set", k, FALSE, NULL)
        /\ UNCHANGED <<table, new_ht, cursor, heap, pc>>

\* htable_hset, htable_push and htable_sadd on an absent key.
htable_create(k, type, h) ==
  /\ pc = "idle"
  /\ Missing(items, size, k)
  /\ htable_insert(k, type, h)
  /\ Answer("create", k, TRUE, h)

\* Mutants of DropItem: the slot becomes unused; the value leaks; "used" drops
\* twice or not at all.
DropToNull(p) == /\ heap' = [heap EXCEPT ![vals[p]] = FREE]
                 /\ items' = [items EXCEPT ![p] = NULL]
                 /\ vals' = [vals EXCEPT ![p] = NULL]
                 /\ used' = used - 1 /\ UNCHANGED size
DropWithoutFree(p) == /\ items' = [items EXCEPT ![p] = DELETED]
                      /\ vals' = [vals EXCEPT ![p] = NULL]
                      /\ used' = used - 1 /\ UNCHANGED <<size, heap>>
DropTwice(p) == /\ heap' = [heap EXCEPT ![vals[p]] = FREE]
                /\ items' = [items EXCEPT ![p] = DELETED]
                /\ vals' = [vals EXCEPT ![p] = NULL]
                /\ used' = used - 2 /\ UNCHANGED size
DropUncounted(p) == /\ heap' = [heap EXCEPT ![vals[p]] = FREE]
                    /\ items' = [items EXCEPT ![p] = DELETED]
                    /\ vals' = [vals EXCEPT ![p] = NULL]
                    /\ UNCHANGED <<used, size>>

\* item_free; items[hash] = &HT_DELETED; used--
DropItem(p) == /\ heap' = [heap EXCEPT ![vals[p]] = FREE]
               /\ items' = [items EXCEPT ![p] = DELETED]
               /\ vals' = [vals EXCEPT ![p] = NULL]
               /\ used' = used - 1 /\ UNCHANGED size

htable_del(k) ==
  /\ pc = "idle"
  /\ \/ \E p \in Slots(size) :
          /\ FoundAt(items, size, k, p)
          /\ DropItem(p)
          /\ htable_resize_down
          /\ Answer("del", k, TRUE, NULL)
     \/ /\ Missing(items, size, k)
        /\ Answer("del", k, FALSE, NULL)
        /\ UNCHANGED <<table, new_ht, cursor, heap, pc>>

\* htable_get, htable_exists and htable_type read what the search returns.
htable_get(k) ==
  /\ pc = "idle"
  /\ \/ \E p \in Slots(size) : /\ FoundAt(items, size, k, p)
                               /\ Answer("get", k, TRUE, vals[p])
     \/ Missing(items, size, k) /\ Answer("get", k, FALSE, NULL)
  /\ UNCHANGED <<table, new_ht, cursor, heap, pc>>

\* Mutant of ForgetValue: the swapped item keeps its pointer to the value.
KeepValue == UNCHANGED vals

\* item->value = NULL, so that htable_free of the old table spares the value.
ForgetValue == vals' = [vals EXCEPT ![cursor] = NULL]

\* One iteration of the loop of htable_resize: item_swap moves a live item,
\* and drops it when the new table has no room on its probe path.
item_swap ==
  /\ pc = "rehash" /\ cursor < size
  /\ cursor' = cursor + 1
  /\ LET k == items[cursor] IN
     \/ /\ k \notin Keys
        /\ UNCHANGED <<new_ht, vals, pc>>
     \/ /\ k \in Keys
        /\ \E p \in Slots(nsize) :
             /\ AvailableAt(nitems, nsize, k, p)
             /\ nitems' = [nitems EXCEPT ![p] = k]
             /\ nvals' = [nvals EXCEPT ![p] = vals[cursor]]
             /\ nused' = nused + 1 /\ UNCHANGED nsize
             /\ pc' = IF load(nused', nsize) > 70 THEN "nested" ELSE "rehash"
        /\ ForgetValue
     \/ /\ k \in Keys /\ NoRoom(nitems, nsize, k)
        /\ ForgetValue
        /\ UNCHANGED <<new_ht, pc>>
  /\ UNCHANGED <<size, used, items, heap, reply>>

\* The tables swap their slots, and htable_free frees the old ones with the
\* blocks they still own. used is not recomputed.
FinishResize ==
  /\ pc = "rehash" /\ cursor = size
  /\ size' = nsize /\ items' = nitems /\ vals' = nvals
  /\ heap' = [h \in Handles |->
                IF \E p \in Live(items) : vals[p] = h THEN FREE ELSE heap[h]]
  /\ nsize' = 0 /\ nused' = 0 /\ nitems' = EmptySlots(0) /\ nvals' = EmptySlots(0)
  /\ cursor' = 0 /\ pc' = "idle"
  /\ UNCHANGED <<used, reply>>

Next ==
  \/ \E k \in Keys, h \in Handles : htable_set(k, h)
  \/ \E k \in Keys, h \in Handles, type \in Types \ {"STR_T"} : htable_create(k, type, h)
  \/ \E k \in Keys : htable_del(k)
  \/ \E k \in Keys : htable_get(k)
  \/ item_swap
  \/ FinishResize

Spec == Init /\ [][Next]_vars
-----------------------------------------------------------------------------
TablesOK ==
  /\ size \in Nat \ {0, 1} /\ used \in Nat /\ nsize \in Nat /\ nused \in Nat
  /\ cursor \in 0 .. size
  /\ items \in [Slots(size) -> Keys \cup {NULL, DELETED}]
  /\ vals \in [Slots(size) -> Handles \cup {NULL}]
  /\ nitems \in [Slots(nsize) -> Keys \cup {NULL}]
  /\ nvals \in [Slots(nsize) -> Handles \cup {NULL}]
  /\ heap \in [Handles -> Types \cup {FREE}]
  /\ pc \in {"idle", "rehash", "nested"}

ReplyOK ==
  reply \in [op : {"none", "get", "set", "create", "del"}, key : Keys \cup {NULL},
             ok : BOOLEAN, val : Handles \cup {NULL}]

\* Each variable keeps its type; "used" in particular never goes below 0,
\* although a rehash may drop items it still counts.
TypeOK == TablesOK /\ ReplyOK

\* The items of the old table the rehash has not moved yet.
Pending == {p \in Live(items) : p >= cursor}

\* Every item in a table is found by htable_search at its own slot: no NULL
\* and no second copy of its key comes earlier on its probe path. Deleting
\* leaves tombstones and a rehash drops them, and neither may hide a key.
Findable ==
  /\ \A p \in Live(items) : FoundAt(items, size, items[p], p)
  /\ \A p \in Live(nitems) : FoundAt(nitems, nsize, nitems[p], p)

\* "used" never undercounts the items of the table: htable_hgetall and
\* htable_hkeyvals allocate their result by used and fill it by item.
CountBound == Cardinality(Live(items)) <= used

\* htable_resize -> item_swap -> htable_insert -> htable_resize never happens:
\* the table a rehash fills cannot itself pass the load limit.
NeverNested == pc # "nested"

\* Each item owns a value block, allocated and shared with no other item of
\* the old or the new table: nothing is used after free or freed twice.
Ownership ==
  LET Owners == {<<vals[p], 0, p>> : p \in Live(items) \ (0 .. cursor - 1)}
                  \cup {<<nvals[p], 1, p>> : p \in Live(nitems)}
  IN  /\ \A o \in Owners : o[1] # NULL /\ heap[o[1]] # FREE
      /\ \A o1, o2 \in Owners : o1[1] = o2[1] => o1 = o2

\* Every allocated value block is still owned by an item.
NoLeak ==
  \A h \in Handles : heap[h] # FREE =>
    \/ \E p \in Live(items) : vals[p] = h
    \/ \E p \in Live(nitems) : nvals[p] = h

\* After every operation the load is back under the limit of htable_resize_up,
\* so that an insertion always has a slot to find.
Headroom == pc = "idle" => load(used, size) <= 70

\* What a reader makes of the two tables of a rehash: a key is where the swap
\* has put it, or still waits in the old table.
AbstractStore ==
  [k \in Keys |->
     IF \E p \in Live(nitems) : nitems[p] = k
     THEN LET p == CHOOSE p \in Live(nitems) : nitems[p] = k
          IN  [type |-> heap[nvals[p]], val |-> nvals[p]]
     ELSE IF \E p \in Pending : items[p] = k
     THEN LET p == CHOOSE p \in Pending : items[p] = k
          IN  [type |-> heap[vals[p]], val |-> vals[p]]
     ELSE NULL]

Map == INSTANCE KVMap WITH store <- AbstractStore

\* The table is a map: every answer is the map's, its "used" is the number of
\* insertions less deletions, and a resize is invisible.
IsMap == Map!Spec

\* The table is a map that may refuse or lose a key that somewhere has the
\* probe step 0, for another one, and does nothing worse: no key reappears,
\* moves to another value, or answers for another key, and "used" tells the
\* insertions and deletions that were performed.
IsLossyMap == Map!LossySpec

\* A key that was just set reads back the value it was set to.
AckedSetReadable ==
  (pc = "idle" /\ reply.op = "set" /\ reply.ok) => AbstractStore[reply.key] # NULL

\* htable_hkeyvals: the scan returns at the first slot where it has collected
\* "used" items, and returns NULL if it never has.
hkeyvals ==
  LET Seen(i) == {p \in Live(items) : p <= i}
      Stops == {i \in Slots(size) : Cardinality(Seen(i)) = used}
  IN  IF Stops = {} THEN NULL
      ELSE {items[p] : p \in Seen(CHOOSE i \in Stops : \A j \in Stops : i <= j)}

\* A table that holds keys lists them all.
EnumerationComplete == pc = "idle" => hkeyvals = {items[p] : p \in Live(items)}
=============================================================================
