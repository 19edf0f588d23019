--------------------------- MODULE HTable_proofs ---------------------------
(***************************************************************************)
(* Theorems about HTable that hold for every set of keys, every pair of    *)
(* hash functions and any number of heap blocks.                           *)
(*                                                                         *)
(* They rest on one inductive invariant, Core: besides the types, it says  *)
(* that htable_resize was called with a load it can take (ResizeInv), and  *)
(* that "used" is at least the number of items stored or still on the way  *)
(* from the old table to the new one (CountInv). The load limit keeps a    *)
(* rehash from starting another; the count keeps "used" above zero, and    *)
(* both are needed for the types.                                          *)
(***************************************************************************)
EXTENDS HTable, Probing_proofs

-----------------------------------------------------------------------------
(* The invariant *)

\* Between two operations there is one table, under the load limit.
IdleInv ==
  /\ cursor = 0 /\ nsize = 0 /\ nused = 0
  /\ nitems = EmptySlots(0) /\ nvals = EmptySlots(0)
  /\ load(used, size) <= 70

\* While a rehash runs, the new table could take all that "used" counts.
RehashInv == nsize >= HT_BASE_SIZE /\ load(used, nsize) <= 70

\* htable_resize is idle or in its loop, never inside itself.
ResizeInv ==
  /\ pc \in {"idle", "rehash"}
  /\ pc = "idle" => IdleInv
  /\ pc = "rehash" => RehashInv

\* Every item is counted: in the old table, in the new one, or on its way.
CountInv ==
  /\ Cardinality(Live(items)) <= used
  /\ Cardinality(Live(nitems)) = nused
  /\ nused + Cardinality(Pending) <= Cardinality(Live(items))

Core == TablesOK /\ ResizeInv /\ CountInv

-----------------------------------------------------------------------------
(* Resizing *)

\* What the first part of htable_resize leaves, when it was called or not.
ResizeStarted ==
  /\ nsize' \in Nat /\ nused' = 0 /\ cursor' = 0
  /\ nitems' = EmptySlots(nsize') /\ nvals' = EmptySlots(nsize')
  /\ ResizeInv'

\* htable_resize up to its loop, when no table of n slots or more is overloaded.
LEMMA StartResizeInv ==
  ASSUME NEW n \in Nat, n >= HT_BASE_SIZE, StartResize(n),
         \A t \in Nat : n <= t => load(used', t) <= 70
  PROVE  ResizeStarted
<1>1. n \in 2 .. MaxRequest
  BY HashAssumption DEF StartResize, HT_BASE_SIZE
<1>2. nsize' \in Nat /\ n <= nsize'
  BY <1>1, NextPrime DEF StartResize
<1>3. RehashInv'
  BY <1>1, <1>2 DEF RehashInv, HT_BASE_SIZE
<1> QED BY <1>2, <1>3 DEF StartResize, ResizeStarted, ResizeInv

\* An operation that calls no resize.
LEMMA NoResizeInv ==
  ASSUME NoResize, pc = "idle", IdleInv, size' = size,
         load(used', size) <= 70
  PROVE  ResizeStarted
BY DEF NoResize, new_ht, IdleInv, ResizeStarted, ResizeInv

\* htable_resize_up after an insertion.
LEMMA ResizeUpInv ==
  ASSUME htable_resize_up, TablesOK, pc = "idle", IdleInv,
         size' = size, used' = used + 1
  PROVE  ResizeStarted
<1>0. /\ size \in Nat \ {0, 1} /\ used \in Nat
      /\ load(used, size) <= 70 /\ load(used', size) \in Nat
  BY LoadRange DEF TablesOK, IdleInv
<1>1. CASE load(used', size) > 70
  <2>1. StartResize(size * 2)
    BY <1>0, <1>1 DEF htable_resize_up, htable_resize, HT_BASE_SIZE
  <2>2. \A t \in Nat : size * 2 <= t => load(used', t) <= 70
    BY <1>0, LoadGrow
  <2> QED BY <1>0, <2>1, <2>2, StartResizeInv DEF HT_BASE_SIZE
<1>2. CASE ~(load(used', size) > 70)
  BY <1>0, <1>2, NoResizeInv DEF htable_resize_up
<1> QED BY <1>1, <1>2

\* htable_resize_down after a deletion.
LEMMA ResizeDownInv ==
  ASSUME htable_resize_down, TablesOK, pc = "idle", IdleInv,
         size' = size, used' \in Nat, used' <= used
  PROVE  ResizeStarted
<1>0. /\ size \in Nat \ {0, 1} /\ used \in Nat
      /\ load(used', size) \in Nat /\ load(used', size) <= 70
  BY LoadRange, LoadMonotone DEF TablesOK, IdleInv
<1>1. size \div 2 \in Nat
  BY <1>0, Half
<1>2. CASE load(used', size) < 10 /\ size \div 2 >= HT_BASE_SIZE
  <2>1. StartResize(size \div 2)
    BY <1>1, <1>2 DEF htable_resize_down, htable_resize, HT_BASE_SIZE
  <2>2. \A t \in Nat : size \div 2 <= t => load(used', t) <= 70
    BY <1>0, <1>1, <1>2, LoadShrink DEF HT_BASE_SIZE
  <2> QED BY <1>1, <1>2, <2>1, <2>2, StartResizeInv
<1>3. CASE ~(load(used', size) < 10 /\ size \div 2 >= HT_BASE_SIZE)
  <2>1. NoResize
    BY <1>1, <1>3 DEF htable_resize_down, htable_resize, HT_BASE_SIZE
  <2> QED BY <1>0, <2>1, NoResizeInv
<1> QED BY <1>2, <1>3

-----------------------------------------------------------------------------
(* The invariant is inductive *)

\* htable_init establishes the invariant.
LEMMA InitCore == Init => Core
<1> SUFFICES ASSUME Init PROVE Core
  OBVIOUS
<1>1. size \in Nat \ {0, 1}
  <2>1. HT_BASE_SIZE \in 2 .. MaxRequest
    BY HashAssumption DEF HT_BASE_SIZE
  <2> QED BY <2>1, NextPrime DEF Init, HT_BASE_SIZE
<1>2. items = EmptySlots(size) /\ vals = EmptySlots(size) /\ used = 0
  BY DEF Init
<1>3. nitems = EmptySlots(0) /\ nvals = EmptySlots(0) /\ nused = 0 /\ nsize = 0
  BY DEF Init
<1>4. TablesOK
  BY <1>1, <1>2, <1>3, EmptyTable, 0 \in Nat DEF Init, TablesOK
<1>5. load(used, size) <= 70
  BY <1>1, <1>2, LoadUpper70
<1>6. ResizeInv
  BY <1>3, <1>5 DEF Init, ResizeInv, IdleInv
<1>7. Live(items) = {} /\ Live(nitems) = {} /\ Pending = {}
  BY <1>1, <1>2, <1>3, EmptyTable DEF Pending
<1>8. CountInv
  BY <1>2, <1>3, <1>7, FS_EmptySet DEF CountInv
<1> QED BY <1>4, <1>6, <1>8 DEF Core

\* The invariant after an operation, from what it does to the table and the
\* count, and from what htable_resize makes of the rest.
LEMMA AfterOperation ==
  ASSUME ResizeStarted, size \in Nat \ {0, 1}, size' = size, used' \in Nat,
         items' \in [Slots(size) -> Keys \cup {NULL, DELETED}],
         vals' \in [Slots(size) -> Handles \cup {NULL}],
         heap' \in [Handles -> Types \cup {FREE}],
         Cardinality(Live(items')) <= used'
  PROVE  Core'
<1>1. nitems' \in [Slots(nsize') -> {NULL}] /\ nvals' \in [Slots(nsize') -> {NULL}]
  BY EmptyTable DEF ResizeStarted
<1>2. TablesOK'
  BY <1>1 DEF TablesOK, ResizeStarted, ResizeInv
<1>3. Live(items)' \subseteq Slots(size) /\ Cardinality(Live(items)') \in Nat
  BY LiveFinite
<1>4. Pending' = Live(items)'
  BY <1>3 DEF Pending, ResizeStarted, Slots
<1>5. Cardinality(Live(nitems)') = 0
  BY EmptyTable DEF ResizeStarted
<1>6. CountInv'
  BY <1>3, <1>4, <1>5 DEF CountInv, ResizeStarted
<1> QED BY <1>2, <1>6 DEF Core, ResizeStarted

\* htable_insert preserves the invariant, also when it stores nothing.
LEMMA InsertCore ==
  ASSUME Core, pc = "idle",
         NEW k \in Keys, NEW type \in Types, NEW h \in Handles,
         htable_insert(k, type, h)
  PROVE  Core'
<1> USE DEF Core, TablesOK
<1>1. heap' \in [Handles -> Types \cup {FREE}]
  BY DEF htable_insert
<1>2. ASSUME NEW p \in Slots(size), items[p] \notin Keys,
             items' = [items EXCEPT ![p] = k], vals' = [vals EXCEPT ![p] = h],
             used' = used + 1, size' = size, htable_resize_up
      PROVE  Core'
  <2>1. ResizeStarted
    BY <1>2, ResizeUpInv DEF ResizeInv
  <2>2. Cardinality(Live(items')) = Cardinality(Live(items)) + 1
    <3>1. /\ size \in Nat /\ items \in [Slots(size) -> Keys \cup {NULL, DELETED}]
          /\ p \in Slots(size) /\ items[p] \notin Keys /\ items' = [items EXCEPT ![p] = k]
      BY <1>2
    <3> HIDE DEF Core, TablesOK
    <3> QED BY <3>1, LiveAdd
  <2>3. Cardinality(Live(items)) \in Nat /\ Cardinality(Live(items)) <= used
    BY LiveFinite DEF CountInv
  <2>4. Cardinality(Live(items')) <= used'
    BY <1>2, <2>2, <2>3
  <2>5. /\ items' \in [Slots(size) -> Keys \cup {NULL, DELETED}]
        /\ vals' \in [Slots(size) -> Handles \cup {NULL}]
        /\ used' \in Nat
    BY <1>2
  <2> QED BY <1>1, <1>2, <2>1, <2>4, <2>5, AfterOperation
<1>3. CASE UNCHANGED <<table, new_ht, cursor, pc>>
  BY <1>1, <1>3 DEF table, new_ht, ResizeInv, IdleInv, RehashInv, CountInv, Pending
<1> QED BY <1>2, <1>3 DEF htable_insert, AvailableAt, StoreItem

\* htable_update_str preserves the invariant.
LEMMA UpdateCore ==
  ASSUME Core, pc = "idle", NEW k \in Keys, NEW h \in Handles,
         htable_update_str(k, h)
  PROVE  Core'
<1> USE DEF Core, TablesOK
<1>1. PICK p \in Slots(size) : heap' = [heap EXCEPT ![vals[p]] = FREE, ![h] = "STR_T"]
                               /\ vals' = [vals EXCEPT ![p] = h]
  BY DEF htable_update_str, ReplaceStr
<1>2. UNCHANGED <<size, used, items, new_ht, cursor, pc>>
  BY DEF htable_update_str, ReplaceStr
<1>3. heap' \in [Handles -> Types \cup {FREE}] /\ vals' \in [Slots(size) -> Handles \cup {NULL}]
  BY <1>1, HTableAssumption
<1> QED BY <1>2, <1>3 DEF new_ht, ResizeInv, IdleInv, RehashInv, CountInv, Pending

\* htable_del preserves the invariant.
LEMMA DeleteCore ==
  ASSUME Core, NEW k \in Keys, htable_del(k)
  PROVE  Core'
<1> USE DEF Core, TablesOK
<1>1. ASSUME NEW p \in Slots(size), FoundAt(items, size, k, p),
             heap' = [heap EXCEPT ![vals[p]] = FREE],
             items' = [items EXCEPT ![p] = DELETED],
             vals' = [vals EXCEPT ![p] = NULL],
             used' = used - 1, size' = size, htable_resize_down, pc = "idle"
      PROVE  Core'
  <2>1. items[p] \in Keys
    BY <1>1 DEF FoundAt
  <2>2. /\ Cardinality(Live(items')) = Cardinality(Live(items)) - 1
        /\ Cardinality(Live(items')) \in Nat
    <3>1. DELETED \notin Keys
      BY SlotAssumption
    <3>2. items' \in [Slots(size) -> Keys \cup {NULL, DELETED}]
      BY <1>1
    <3>3. /\ size \in Nat /\ items \in [Slots(size) -> Keys \cup {NULL, DELETED}]
          /\ p \in Slots(size) /\ items' = [items EXCEPT ![p] = DELETED]
      BY <1>1
    <3> HIDE DEF Core, TablesOK
    <3>4. Cardinality(Live(items')) = Cardinality(Live(items)) - 1
      BY <2>1, <3>1, <3>3, LiveRemove
    <3> QED BY <3>2, <3>3, <3>4, LiveFinite
  <2>3. Cardinality(Live(items)) \in Nat /\ Cardinality(Live(items)) <= used
    BY LiveFinite DEF CountInv
  <2>4. used' \in Nat /\ used' <= used /\ Cardinality(Live(items')) <= used'
    BY <1>1, <2>2, <2>3
  <2>5. ResizeStarted
    BY <1>1, <2>4, ResizeDownInv DEF ResizeInv
  <2>6. /\ items' \in [Slots(size) -> Keys \cup {NULL, DELETED}]
        /\ vals' \in [Slots(size) -> Handles \cup {NULL}]
        /\ heap' \in [Handles -> Types \cup {FREE}]
    BY <1>1
  <2> QED BY <1>1, <2>4, <2>5, <2>6, AfterOperation
<1>2. CASE UNCHANGED <<table, new_ht, cursor, heap, pc>>
  BY <1>2 DEF table, new_ht, ResizeInv, IdleInv, RehashInv, CountInv, Pending
<1> QED BY <1>1, <1>2 DEF htable_del, DropItem

\* One iteration of the rehash preserves the invariant: the new table takes what
\* the old one gives up, and stays under the load limit.
LEMMA SwapCore ==
  ASSUME Core, item_swap
  PROVE  Core'
<1> USE DEF Core, TablesOK
<1>0. /\ pc = "rehash" /\ cursor \in Slots(size) /\ cursor' = cursor + 1
      /\ UNCHANGED <<size, used, items, heap>> /\ RehashInv
  BY DEF item_swap, ResizeInv, Slots
<1>1. Pending' = Pending \ {cursor}
  BY <1>0 DEF Pending, Live, Slots
<1>2. IsFiniteSet(Pending) /\ Cardinality(Pending) \in Nat
  <2>1. Pending \subseteq Live(items)
    BY DEF Pending
  <2> QED BY <2>1, LiveFinite, FS_Subset, FS_CardinalityType
<1>3. /\ Cardinality(Live(items)) \in Nat /\ Cardinality(Live(items)) <= used
      /\ Cardinality(Live(items)') = Cardinality(Live(items))
  BY <1>0, LiveFinite DEF CountInv
<1>4. cursor' \in 0 .. size'
  BY <1>0 DEF Slots
<1>5. CASE items[cursor] \notin Keys
  <2>1. UNCHANGED <<new_ht, vals, pc>>
    BY <1>5 DEF item_swap
  <2>2. Pending' = Pending
    BY <1>1, <1>5 DEF Pending, Live
  <2> QED BY <1>0, <1>4, <2>1, <2>2 DEF new_ht, ResizeInv, RehashInv, CountInv
<1>6. CASE items[cursor] \in Keys
  <2>1. cursor \in Pending
    BY <1>0, <1>6 DEF Pending, Live
  <2>2. Cardinality(Pending') = Cardinality(Pending) - 1
    BY <1>1, <1>2, <2>1, FS_RemoveElement
  <2>3. vals' \in [Slots(size) -> Handles \cup {NULL}]
    BY <1>6 DEF item_swap, ForgetValue
  <2>4. ASSUME NEW p \in Slots(nsize), nitems[p] \notin Keys,
               nitems' = [nitems EXCEPT ![p] = items[cursor]],
               nvals' = [nvals EXCEPT ![p] = vals[cursor]],
               nused' = nused + 1, nsize' = nsize,
               pc' = IF load(nused', nsize) > 70 THEN "nested" ELSE "rehash"
        PROVE  Core'
    <3>1. Cardinality(Live(nitems)') = nused'
      <4>1. PICK k \in Keys : k = items[cursor]
        BY <1>6
      <4>2. /\ nsize \in Nat /\ nitems \in [Slots(nsize) -> Keys \cup {NULL}]
            /\ p \in Slots(nsize) /\ nitems[p] \notin Keys /\ nitems' = [nitems EXCEPT ![p] = k]
        BY <2>4, <4>1
      <4>3. nused' = nused + 1 /\ Cardinality(Live(nitems)) = nused
        BY <2>4 DEF CountInv
      <4> HIDE DEF Core, TablesOK
      <4>4. Cardinality(Live(nitems')) = Cardinality(Live(nitems)) + 1
        BY <4>2, LiveAdd
      <4> QED BY <4>3, <4>4
    <3>2. nused' + Cardinality(Pending') <= Cardinality(Live(items)')
      BY <1>2, <1>3, <2>2, <2>4 DEF CountInv
    <3>3. nused' \in Nat /\ nused' <= used /\ nsize \in Nat \ {0}
      <4>1. Cardinality(Pending') \in Nat
        BY <1>1, <1>2, FS_RemoveElement, FS_CardinalityType
      <4> QED BY <1>0, <1>3, <2>4, <3>2, <4>1 DEF RehashInv, HT_BASE_SIZE
    <3>4. load(nused', nsize) <= 70 /\ load(nused', nsize) \in Nat
      BY <1>0, <3>3, LoadMonotone, LoadRange DEF RehashInv
    <3>5. pc' = "rehash"
      BY <2>4, <3>4
    <3>6. RehashInv'
      BY <1>0, <2>4 DEF RehashInv
    <3>7. /\ nitems' \in [Slots(nsize) -> Keys \cup {NULL}]
          /\ nvals' \in [Slots(nsize) -> Handles \cup {NULL}]
      BY <1>0, <1>6, <2>4
    <3> QED BY <1>0, <1>3, <1>4, <2>3, <2>4, <3>1, <3>2, <3>3, <3>5, <3>6, <3>7
            DEF ResizeInv, CountInv
  <2>5. CASE UNCHANGED <<new_ht, pc>>
    <3>1. nused + Cardinality(Pending') <= Cardinality(Live(items)')
      BY <1>2, <1>3, <2>2 DEF CountInv
    <3> QED BY <1>0, <1>3, <1>4, <2>3, <2>5, <3>1
            DEF new_ht, ResizeInv, RehashInv, CountInv
  <2> QED BY <1>6, <2>4, <2>5 DEF item_swap, AvailableAt
<1> QED BY <1>5, <1>6

\* The end of a rehash preserves the invariant: the new table is the table.
LEMMA FinishCore ==
  ASSUME Core, FinishResize
  PROVE  Core'
<1> USE DEF Core, TablesOK
<1>1. /\ size' = nsize /\ items' = nitems /\ vals' = nvals /\ used' = used
      /\ nsize' = 0 /\ nused' = 0 /\ cursor' = 0 /\ pc' = "idle"
      /\ nitems' = EmptySlots(0) /\ nvals' = EmptySlots(0)
  BY DEF FinishResize
<1>2. RehashInv
  BY DEF FinishResize, ResizeInv
<1>3. heap' \in [Handles -> Types \cup {FREE}]
  BY DEF FinishResize
<1>4. TablesOK'
  BY <1>1, <1>2, <1>3, EmptyTable DEF RehashInv, HT_BASE_SIZE
<1>5. ResizeInv'
  BY <1>1, <1>2 DEF ResizeInv, IdleInv, RehashInv
<1>6. Pending' = Live(items)' /\ Cardinality(Live(nitems)') = 0
  <2>1. Live(nitems) \subseteq Slots(nsize)
    BY LiveFinite
  <2>2. Pending' = Live(items)'
    BY <1>1, <2>1 DEF Pending, Slots
  <2>3. Live(nitems)' = Live(EmptySlots(0))
    BY <1>1 DEF Live
  <2> QED BY <2>2, <2>3, EmptyTable
<1>7. /\ Cardinality(Live(nitems)) \in Nat /\ Cardinality(Live(items)) \in Nat
      /\ Cardinality(Pending) \in Nat
  <2>1. Pending \subseteq Live(items)
    BY DEF Pending
  <2> QED BY <2>1, LiveFinite, FS_Subset, FS_CardinalityType
<1>8. CountInv'
  BY <1>1, <1>6, <1>7 DEF CountInv
<1> QED BY <1>4, <1>5, <1>8

\* Every step preserves the invariant.
LEMMA StepCore == Core /\ [Next]_vars => Core'
<1> SUFFICES ASSUME Core, [Next]_vars PROVE Core'
  OBVIOUS
<1>1. ASSUME NEW k \in Keys, NEW h \in Handles, htable_set(k, h) PROVE Core'
  <2>1. CASE htable_insert(k, "STR_T", h)
    BY <1>1, <2>1, InsertCore, HTableAssumption DEF htable_set
  <2>2. CASE htable_update_str(k, h)
    BY <1>1, <2>2, UpdateCore DEF htable_set
  <2>3. CASE UNCHANGED <<table, new_ht, cursor, heap, pc>>
    BY <2>3 DEF table, new_ht, Core, TablesOK, ResizeInv, IdleInv, RehashInv, CountInv, Pending
  <2> QED BY <1>1, <2>1, <2>2, <2>3 DEF htable_set
<1>2. ASSUME NEW k \in Keys, NEW h \in Handles, NEW type \in Types \ {"STR_T"},
             htable_create(k, type, h)
      PROVE  Core'
  BY <1>2, InsertCore DEF htable_create
<1>3. ASSUME NEW k \in Keys, htable_del(k) PROVE Core'
  BY <1>3, DeleteCore
<1>4. ASSUME NEW k \in Keys, htable_get(k) PROVE Core'
  BY <1>4 DEF htable_get, table, new_ht, Core, TablesOK, ResizeInv, IdleInv, RehashInv,
              CountInv, Pending
<1>5. CASE item_swap
  BY <1>5, SwapCore
<1>6. CASE FinishResize
  BY <1>6, FinishCore
<1>7. CASE UNCHANGED vars
  BY <1>7 DEF vars, table, new_ht, Core, TablesOK, ResizeInv, IdleInv, RehashInv,
              CountInv, Pending
<1> QED BY <1>1, <1>2, <1>3, <1>4, <1>5, <1>6, <1>7 DEF Next

\* The invariant holds in every reachable state.
LEMMA CoreInvariant == Spec => []Core
<1> QED BY InitCore, StepCore, PTL DEF Spec

\* No operation has answered yet.
LEMMA ReplyInit == Init => ReplyOK
BY DEF Init, ReplyOK

\* Every operation answers in the type of its function.
LEMMA ReplyStep == Core /\ ReplyOK /\ [Next]_vars => ReplyOK'
<1> SUFFICES ASSUME Core, ReplyOK, [Next]_vars PROVE ReplyOK'
  OBVIOUS
<1>1. ASSUME NEW op \in {"get", "set", "create", "del"}, NEW k \in Keys, NEW ok \in BOOLEAN,
             NEW v \in Handles \cup {NULL}, Answer(op, k, ok, v)
      PROVE  ReplyOK'
  BY <1>1 DEF Answer, ReplyOK
<1>2. ASSUME NEW k \in Keys, NEW h \in Handles, htable_set(k, h) PROVE ReplyOK'
  BY <1>1, <1>2 DEF htable_set
<1>3. ASSUME NEW k \in Keys, NEW h \in Handles, NEW type \in Types \ {"STR_T"},
             htable_create(k, type, h)
      PROVE  ReplyOK'
  BY <1>1, <1>3 DEF htable_create
<1>4. ASSUME NEW k \in Keys, htable_del(k) PROVE ReplyOK'
  BY <1>1, <1>4 DEF htable_del
<1>5. ASSUME NEW k \in Keys, htable_get(k) PROVE ReplyOK'
  BY <1>1, <1>5 DEF htable_get, Core, TablesOK
<1>6. CASE UNCHANGED reply
  BY <1>6 DEF ReplyOK
<1> QED BY <1>2, <1>3, <1>4, <1>5, <1>6 DEF Next, vars, item_swap, FinishResize

-----------------------------------------------------------------------------
(* What follows *)

\* Every variable keeps its type, and HashTable.used never goes below 0: htable_del
\* decrements it only for an item it still counts.
THEOREM TypeCorrect == Spec => []TypeOK
<1>1. Core /\ ReplyOK => TypeOK
  BY DEF Core, TypeOK
<1> QED BY <1>1, CoreInvariant, ReplyInit, ReplyStep, PTL DEF Spec

\* HashTable.used is never below the number of stored items, whatever a rehash
\* drops: the arrays htable_hgetall and htable_hkeyvals size by it are long enough.
THEOREM CountNeverShort == Spec => []CountBound
<1>1. Core => CountBound
  BY DEF Core, CountInv, CountBound
<1> QED BY <1>1, CoreInvariant, PTL

\* The insertions of a rehash never start a rehash of the new table.
THEOREM ResizeNeverNests == Spec => []NeverNested
<1>1. Core => NeverNested
  BY DEF Core, ResizeInv, NeverNested
<1> QED BY <1>1, CoreInvariant, PTL

\* Whenever an operation returns, "used" is at most 70 per cent of the slots.
THEOREM LoadIsLimited == Spec => []Headroom
<1>1. Core => Headroom
  BY DEF Core, ResizeInv, IdleInv, Headroom
<1> QED BY <1>1, CoreInvariant, PTL

-----------------------------------------------------------------------------
(* Every item is found *)

\* No two slots hold the same key.
Unique(t) == \A p, q \in Live(t) : t[p] = t[q] => p = q

\* Every item is on its probe path, and no key has two items: a key whose item
\* the rehash has yet to move is not in the new table.
FindInv ==
  /\ OnPath(items, size) /\ OnPath(nitems, nsize)
  /\ Unique(items) /\ Unique(nitems)
  /\ \A p \in Pending, q \in Live(nitems) : items[p] # nitems[q]

\* An insertion stores its key on its path.
LEMMA AvailableOnPath ==
  ASSUME NEW t, NEW s \in Nat, NEW k \in Keys, NEW p \in Slots(s), AvailableAt(t, s, k, p)
  PROVE  PathTo(t, s, k, p)
<1>1. PICK j \in Slots(s) :
        /\ p = hash_func(k, s, j)
        /\ \A m \in Slots(j) : t[hash_func(k, s, m)] \in Keys
  BY DEF AvailableAt
<1> QED BY <1>1, SlotAssumption DEF PathTo

\* A key that the search misses is not in the table.
LEMMA MissingAbsent ==
  ASSUME NEW s \in Nat \ {0}, NEW t, OnPath(t, s), NEW k, Missing(t, s, k)
  PROVE  \A p \in Live(t) : t[p] # k
BY OnPathFound

\* The only item of a key is the one the search finds.
LEMMA UniqueFound ==
  ASSUME NEW s \in Nat \ {0}, NEW t, DOMAIN t = Slots(s), OnPath(t, s), Unique(t),
         NEW p \in Live(t)
  PROVE  FoundAt(t, s, t[p], p)
<1>1. PICK q \in Slots(s) : FoundAt(t, s, t[p], q)
  BY OnPathFound DEF Missing
<1>2. t[q] = t[p]
  BY <1>1 DEF FoundAt
<1>3. q \in Live(t)
  BY <1>2 DEF Live
<1>4. q = p
  BY <1>2, <1>3 DEF Unique
<1> QED BY <1>1, <1>4

\* The new table that an operation leaves behind is empty.
LEMMA ResizeFind ==
  ASSUME Core', pc = "idle", Core,
         htable_resize_up \/ htable_resize_down \/ UNCHANGED <<new_ht, cursor, pc>>
  PROVE  /\ OnPath(nitems, nsize)' /\ Unique(nitems)' /\ Live(nitems)' = {}
<1>1. nsize' \in Nat
  BY DEF Core, TablesOK
<1>2. nitems = EmptySlots(nsize)
  BY DEF Core, ResizeInv, IdleInv
<1>3. nitems' = EmptySlots(nsize')
  BY <1>2 DEF htable_resize_up, htable_resize_down, htable_resize, NoResize,
              StartResize, new_ht
<1>4. OnPath(nitems', nsize')
  BY <1>1, <1>3, EmptyOnPath
<1>5. Live(nitems') = {}
  BY <1>1, <1>3, EmptyTable
<1> QED BY <1>4, <1>5 DEF OnPath, Unique, Live

\* htable_init establishes it.
LEMMA InitFind == Init => FindInv
<1> SUFFICES ASSUME Init PROVE FindInv
  OBVIOUS
<1>1. size \in Nat
  BY InitCore DEF Core, TablesOK
<1>2. items = EmptySlots(size) /\ nitems = EmptySlots(0) /\ nsize = 0
  BY DEF Init
<1>3. OnPath(items, size) /\ OnPath(nitems, nsize)
  BY <1>1, <1>2, EmptyOnPath
<1>4. Live(items) = {} /\ Live(nitems) = {}
  BY <1>1, <1>2, EmptyTable
<1> QED BY <1>3, <1>4 DEF FindInv, Unique

\* A step that moves no item keeps it.
LEMMA SameFind ==
  ASSUME FindInv, UNCHANGED <<size, items, nsize, nitems, cursor>>
  PROVE  FindInv'
BY DEF FindInv, OnPath, PathTo, Unique, Live, Pending

\* htable_insert of an absent key keeps it.
LEMMA InsertFind ==
  ASSUME Core, Core', FindInv, pc = "idle", NEW k \in Keys, NEW type, NEW h,
         Missing(items, size, k), htable_insert(k, type, h)
  PROVE  FindInv'
<1>0. /\ size \in Nat \ {0} /\ items \in [Slots(size) -> Keys \cup {NULL, DELETED}]
      /\ OnPath(items, size) /\ Unique(items)
  BY DEF Core, TablesOK, FindInv
<1>1. CASE UNCHANGED <<table, new_ht, cursor, pc>>
  BY <1>1, SameFind DEF table, new_ht
<1>2. ASSUME NEW p \in Slots(size), AvailableAt(items, size, k, p), StoreItem(p, k, h),
             htable_resize_up
      PROVE  FindInv'
  <2>1. items' = [items EXCEPT ![p] = k] /\ size' = size
    BY <1>2 DEF StoreItem
  <2>2. OnPath([items EXCEPT ![p] = k], size)
    BY <1>0, <1>2, AvailableOnPath, StoreOnPath, SlotAssumption
  <2>3. \A q \in Live(items) : items[q] # k
    BY <1>0, MissingAbsent
  <2>4. Unique(items')
    BY <1>0, <2>1, <2>3 DEF Unique, Live
  <2>5. OnPath(nitems, nsize)' /\ Unique(nitems)' /\ Live(nitems)' = {}
    BY <1>2, ResizeFind
  <2> QED BY <2>1, <2>2, <2>4, <2>5 DEF FindInv, Unique
<1> QED BY <1>1, <1>2 DEF htable_insert

\* htable_del keeps it: the tombstone hides nothing behind it.
LEMMA DeleteFind ==
  ASSUME Core, Core', FindInv, NEW k \in Keys, htable_del(k)
  PROVE  FindInv'
<1>0. /\ size \in Nat \ {0} /\ items \in [Slots(size) -> Keys \cup {NULL, DELETED}]
      /\ OnPath(items, size) /\ Unique(items)
  BY DEF Core, TablesOK, FindInv
<1>1. CASE UNCHANGED <<table, new_ht, cursor, heap, pc>>
  BY <1>1, SameFind DEF table, new_ht
<1>2. ASSUME NEW p \in Slots(size), DropItem(p), htable_resize_down, pc = "idle"
      PROVE  FindInv'
  <2>1. items' = [items EXCEPT ![p] = DELETED] /\ size' = size
    BY <1>2 DEF DropItem
  <2>2. OnPath([items EXCEPT ![p] = DELETED], size)
    BY <1>0, StoreOnPath, SlotAssumption
  <2>3. Unique(items')
    BY <1>0, <2>1, SlotAssumption DEF Unique, Live
  <2>4. OnPath(nitems, nsize)' /\ Unique(nitems)' /\ Live(nitems)' = {}
    BY <1>2, ResizeFind
  <2> QED BY <2>1, <2>2, <2>3, <2>4 DEF FindInv, Unique
<1> QED BY <1>1, <1>2 DEF htable_del

\* One iteration of the rehash keeps it.
LEMMA SwapFind ==
  ASSUME Core, FindInv, item_swap
  PROVE  FindInv'
<1>0. /\ nsize \in Nat /\ nitems \in [Slots(nsize) -> Keys \cup {NULL}]
      /\ OnPath(nitems, nsize) /\ OnPath(items, size) /\ Unique(items) /\ Unique(nitems)
      /\ UNCHANGED <<size, items>> /\ cursor \in Slots(size) /\ cursor' = cursor + 1
  BY DEF Core, TablesOK, FindInv, item_swap, Slots
<1>1. Pending' = Pending \ {cursor}
  BY <1>0 DEF Pending, Live, Slots, Core, TablesOK
<1>2. CASE UNCHANGED new_ht
  BY <1>0, <1>1, <1>2 DEF new_ht, FindInv, OnPath, PathTo, Unique, Live
<1>3. ASSUME NEW p \in Slots(nsize), items[cursor] \in Keys,
             AvailableAt(nitems, nsize, items[cursor], p),
             nitems' = [nitems EXCEPT ![p] = items[cursor]], nsize' = nsize
      PROVE  FindInv'
  <2> DEFINE k == items[cursor]
  <2>0. nsize \in Nat \ {0} /\ k \in Keys
    BY <1>0, <1>3 DEF Slots
  <2>1. OnPath([nitems EXCEPT ![p] = k], nsize)
    BY <1>0, <1>3, <2>0, AvailableOnPath, StoreOnPath, SlotAssumption
  <2>2. cursor \in Pending
    BY <1>0, <1>3 DEF Pending, Live, Core, TablesOK
  <2>3. \A q \in Live(nitems) : nitems[q] # k
    BY <2>2 DEF FindInv
  <2>4. Unique(nitems')
    BY <1>0, <1>3, <2>3 DEF Unique, Live
  <2>5. ASSUME NEW q \in Pending', NEW r \in Live(nitems') PROVE items[q] # nitems'[r]
    <3>1. q \in Live(items) /\ q # cursor /\ q \in Pending /\ cursor \in Live(items)
      BY <1>1, <2>2 DEF Pending
    <3>2. items[q] # k
      BY <1>0, <3>1 DEF Unique
    <3>3. r = p \/ (r \in Live(nitems) /\ nitems'[r] = nitems[r])
      BY <1>0, <1>3 DEF Live
    <3> QED BY <1>0, <1>3, <3>1, <3>2, <3>3 DEF FindInv
  <2> QED BY <1>0, <1>3, <2>1, <2>4, <2>5 DEF FindInv, Unique, Live
<1> QED BY <1>2, <1>3 DEF item_swap, new_ht

\* The end of a rehash keeps it.
LEMMA FinishFind ==
  ASSUME FindInv, FinishResize
  PROVE  FindInv'
<1>1. OnPath(items, size)' /\ Unique(items)'
  BY DEF FindInv, FinishResize
<1>2. nsize' = 0 /\ nitems' = EmptySlots(0)
  BY DEF FinishResize
<1>3. OnPath(nitems', nsize')
  BY <1>2, EmptyOnPath
<1>4. Live(nitems') = {}
  BY <1>2, EmptyTable
<1> QED BY <1>1, <1>3, <1>4 DEF FindInv, Unique, Live

\* Every step keeps it.
LEMMA StepFind ==
  ASSUME Core, FindInv, [Next]_vars
  PROVE  FindInv'
<1>0. Core'
  BY StepCore
<1>1. ASSUME NEW k \in Keys, NEW h \in Handles, htable_set(k, h) PROVE FindInv'
  <2>1. CASE Missing(items, size, k) /\ htable_insert(k, "STR_T", h)
    BY <1>0, <1>1, <2>1, InsertFind DEF htable_set
  <2>2. CASE UNCHANGED <<size, items, new_ht, cursor>>
    BY <2>2, SameFind DEF new_ht
  <2> QED BY <1>1, <2>1, <2>2 DEF htable_set, htable_update_str, ReplaceStr, table
<1>2. ASSUME NEW k \in Keys, NEW h \in Handles, NEW type \in Types \ {"STR_T"},
             htable_create(k, type, h)
      PROVE  FindInv'
  BY <1>0, <1>2, InsertFind DEF htable_create
<1>3. ASSUME NEW k \in Keys, htable_del(k) PROVE FindInv'
  BY <1>0, <1>3, DeleteFind
<1>4. ASSUME NEW k \in Keys, htable_get(k) PROVE FindInv'
  BY <1>4, SameFind DEF htable_get, table, new_ht
<1>5. CASE item_swap
  BY <1>5, SwapFind
<1>6. CASE FinishResize
  BY <1>6, FinishFind
<1>7. CASE UNCHANGED vars
  BY <1>7, SameFind DEF vars, table, new_ht
<1> QED BY <1>1, <1>2, <1>3, <1>4, <1>5, <1>6, <1>7 DEF Next

\* Both invariants hold in every reachable state.
LEMMA FindInvariant == Spec => [](Core /\ FindInv)
<1>1. Core /\ FindInv /\ [Next]_vars => (Core /\ FindInv)'
  BY StepCore, StepFind
<1> QED BY <1>1, InitCore, InitFind, PTL DEF Spec

\* htable_search finds every stored item at its own slot, whatever was deleted
\* or moved before it: no tombstone, rehash or second copy hides a key.
THEOREM NothingHidden == Spec => []Findable
<1>1. Core /\ FindInv => Findable
  <2> SUFFICES ASSUME Core, FindInv PROVE Findable
    OBVIOUS
  <2>1. ASSUME NEW p \in Live(items) PROVE FoundAt(items, size, items[p], p)
    BY UniqueFound DEF Core, TablesOK, FindInv
  <2>2. ASSUME NEW p \in Live(nitems) PROVE FoundAt(nitems, nsize, nitems[p], p)
    <3>1. nsize \in Nat \ {0}
      BY DEF Core, TablesOK, Live, Slots
    <3> QED BY <3>1, UniqueFound DEF Core, TablesOK, FindInv
  <2> QED BY <2>1, <2>2 DEF Findable
<1> QED BY <1>1, FindInvariant, PTL

-----------------------------------------------------------------------------
(* Every value has one owner *)

\* What each item that counts points to: a block of its own, allocated. An item
\* of the old table that was moved points to nothing.
OwnInv ==
  /\ \A p \in Pending : vals[p] \in Handles /\ heap[vals[p]] # FREE
  /\ \A p \in Live(nitems) : nvals[p] \in Handles /\ heap[nvals[p]] # FREE
  /\ \A p, q \in Pending : vals[p] = vals[q] => p = q
  /\ \A p, q \in Live(nitems) : nvals[p] = nvals[q] => p = q
  /\ \A p \in Pending, q \in Live(nitems) : vals[p] # nvals[q]
  /\ \A p \in Live(items) \ Pending : vals[p] = NULL

\* Between two operations every item of the table counts.
LEMMA IdlePending ==
  ASSUME Core, cursor = 0
  PROVE  Pending = Live(items)
<1>1. Live(items) \subseteq Slots(size)
  BY LiveFinite DEF Core, TablesOK
<1> QED BY <1>1 DEF Pending, Slots

\* After an operation there is one table, or a rehash at its first slot.
LEMMA OperationOwn ==
  ASSUME Core, Core', pc = "idle",
         htable_resize_up \/ htable_resize_down \/ UNCHANGED <<new_ht, cursor, pc>>,
         \A p \in Live(items') : vals'[p] \in Handles /\ heap'[vals'[p]] # FREE,
         \A p, q \in Live(items') : vals'[p] = vals'[q] => p = q
  PROVE  OwnInv'
<1>1. Live(nitems)' = {}
  BY ResizeFind
<1>2. cursor' = 0
  BY DEF Core, ResizeInv, IdleInv, htable_resize_up, htable_resize_down, htable_resize,
         NoResize, StartResize
<1>3. Live(items)' \subseteq Slots(size')
  BY LiveFinite DEF Core, TablesOK
<1>4. Pending' = Live(items)'
  BY <1>2, <1>3 DEF Pending, Slots
<1> QED BY <1>1, <1>4 DEF OwnInv, Live

\* A step that touches no table and no block keeps the owners.
LEMMA SameOwn ==
  ASSUME OwnInv, UNCHANGED <<items, vals, nitems, nvals, cursor, heap>>
  PROVE  OwnInv'
BY DEF OwnInv, Pending, Live

\* In an idle table, the owners are its items.
LEMMA IdleOwn ==
  ASSUME Core, OwnInv, pc = "idle"
  PROVE  /\ \A p \in Live(items) : vals[p] \in Handles /\ heap[vals[p]] # FREE
         /\ \A p, q \in Live(items) : vals[p] = vals[q] => p = q
BY IdlePending DEF Core, ResizeInv, IdleInv, OwnInv

\* htable_insert gives a block of its own to the item it stores.
LEMMA InsertOwn ==
  ASSUME Core, Core', OwnInv, pc = "idle", NEW k \in Keys, NEW type \in Types,
         NEW h \in Handles, htable_insert(k, type, h)
  PROVE  OwnInv'
<1>0. /\ items \in [Slots(size) -> Keys \cup {NULL, DELETED}]
      /\ vals \in [Slots(size) -> Handles \cup {NULL}]
      /\ heap \in [Handles -> Types \cup {FREE}]
      /\ heap[h] = FREE /\ heap' = [heap EXCEPT ![h] = type] /\ type # FREE
  BY HTableAssumption DEF Core, TablesOK, htable_insert
<1>1. CASE UNCHANGED <<table, new_ht, cursor, pc>>
  <2>1. UNCHANGED <<items, vals, new_ht, cursor, pc>>
    BY <1>1 DEF table
  <2> QED BY <1>0, <2>1, IdleOwn, OperationOwn
<1>2. ASSUME NEW p \in Slots(size), items[p] \notin Keys, StoreItem(p, k, h),
             htable_resize_up
      PROVE  OwnInv'
  <2>1. items' = [items EXCEPT ![p] = k] /\ vals' = [vals EXCEPT ![p] = h]
    BY <1>2 DEF StoreItem
  <2>2. /\ \A q \in Live(items') : q = p \/ (q \in Live(items) /\ vals'[q] = vals[q])
        /\ vals'[p] = h
    BY <1>0, <2>1 DEF Live
  <2>3. \A q \in Live(items') : vals'[q] \in Handles /\ heap'[vals'[q]] # FREE
    BY <1>0, <2>2, IdleOwn
  <2>4. \A q, r \in Live(items') : vals'[q] = vals'[r] => q = r
    BY <1>0, <2>2, IdleOwn
  <2> QED BY <1>2, <2>3, <2>4, OperationOwn
<1> QED BY <1>1, <1>2 DEF htable_insert, AvailableAt

\* htable_update_str frees the old block and gives the item a new one.
LEMMA UpdateOwn ==
  ASSUME Core, Core', OwnInv, pc = "idle", NEW k \in Keys, NEW h \in Handles,
         htable_update_str(k, h)
  PROVE  OwnInv'
<1>0. /\ items \in [Slots(size) -> Keys \cup {NULL, DELETED}]
      /\ vals \in [Slots(size) -> Handles \cup {NULL}]
      /\ heap \in [Handles -> Types \cup {FREE}]
  BY DEF Core, TablesOK
<1>1. PICK p \in Slots(size) : FoundAt(items, size, k, p) /\ ReplaceStr(p, h)
  BY DEF htable_update_str
<1>2. /\ heap[h] = FREE /\ heap' = [heap EXCEPT ![vals[p]] = FREE, ![h] = "STR_T"]
      /\ vals' = [vals EXCEPT ![p] = h] /\ UNCHANGED <<items, new_ht, cursor, pc>>
  BY <1>1 DEF ReplaceStr
<1>3. p \in Live(items)
  BY <1>0, <1>1 DEF FoundAt, Live
<1>4. vals[p] \in Handles /\ vals[p] # h /\ "STR_T" # FREE
  BY <1>2, <1>3, IdleOwn, HTableAssumption
<1>5. heap'[h] # FREE /\ \A g \in Handles : g # vals[p] /\ g # h => heap'[g] = heap[g]
  BY <1>0, <1>2, <1>4
<1>6. Live(items') = Live(items) /\ vals'[p] = h /\ \A q \in Live(items) : q # p => vals'[q] = vals[q]
  BY <1>0, <1>2, <1>3 DEF Live
<1>7. ASSUME NEW q \in Live(items') PROVE vals'[q] \in Handles /\ heap'[vals'[q]] # FREE
  <2>1. q \in Live(items) /\ vals[q] \in Handles /\ heap[vals[q]] # FREE
    BY <1>6, IdleOwn
  <2>2. q # p => vals[q] # vals[p] /\ vals[q] # h
    BY <1>2, <1>3, <2>1, IdleOwn
  <2> QED BY <1>2, <1>5, <1>6, <2>1, <2>2
<1>8. \A q, r \in Live(items') : vals'[q] = vals'[r] => q = r
  BY <1>2, <1>6, IdleOwn
<1> QED BY <1>2, <1>7, <1>8, OperationOwn

\* htable_del frees the block of the item it removes, which no other item has.
LEMMA DeleteOwn ==
  ASSUME Core, Core', OwnInv, NEW k \in Keys, htable_del(k)
  PROVE  OwnInv'
<1>0. /\ items \in [Slots(size) -> Keys \cup {NULL, DELETED}]
      /\ vals \in [Slots(size) -> Handles \cup {NULL}]
      /\ heap \in [Handles -> Types \cup {FREE}] /\ pc = "idle"
  BY DEF Core, TablesOK, htable_del
<1>1. CASE UNCHANGED <<table, new_ht, cursor, heap, pc>>
  BY <1>1, SameOwn DEF table, new_ht
<1>2. ASSUME NEW p \in Slots(size), FoundAt(items, size, k, p), DropItem(p),
             htable_resize_down
      PROVE  OwnInv'
  <2>1. /\ heap' = [heap EXCEPT ![vals[p]] = FREE]
        /\ items' = [items EXCEPT ![p] = DELETED] /\ vals' = [vals EXCEPT ![p] = NULL]
    BY <1>2 DEF DropItem
  <2>2. p \in Live(items)
    BY <1>0, <1>2 DEF FoundAt, Live
  <2>3. \A q \in Live(items') : q \in Live(items) /\ q # p /\ vals'[q] = vals[q]
    BY <1>0, <2>1, SlotAssumption DEF Live
  <2>4. \A q \in Live(items') : vals'[q] \in Handles /\ heap'[vals'[q]] # FREE
    BY <1>0, <2>1, <2>2, <2>3, IdleOwn
  <2>5. \A q, r \in Live(items') : vals'[q] = vals'[r] => q = r
    BY <1>0, <2>3, IdleOwn
  <2> QED BY <1>0, <1>2, <2>4, <2>5, OperationOwn
<1> QED BY <1>1, <1>2 DEF htable_del

\* One iteration of the rehash hands a block over, or loses it.
LEMMA SwapOwn ==
  ASSUME Core, OwnInv, item_swap
  PROVE  OwnInv'
<1>0. /\ items \in [Slots(size) -> Keys \cup {NULL, DELETED}]
      /\ vals \in [Slots(size) -> Handles \cup {NULL}]
      /\ nitems \in [Slots(nsize) -> Keys \cup {NULL}]
      /\ nvals \in [Slots(nsize) -> Handles \cup {NULL}]
      /\ UNCHANGED <<size, items, heap>> /\ cursor \in Slots(size) /\ cursor' = cursor + 1
  BY DEF Core, TablesOK, item_swap, Slots
<1>1. Pending' = Pending \ {cursor} /\ Live(items') = Live(items)
  BY <1>0 DEF Pending, Live, Slots
<1>2. CASE items[cursor] \notin Keys /\ UNCHANGED <<new_ht, vals>>
  <2>1. Pending' = Pending
    BY <1>1, <1>2 DEF Pending, Live
  <2> QED BY <1>0, <1>1, <1>2, <2>1 DEF OwnInv, new_ht, Live
<1>3. CASE items[cursor] \in Keys /\ ForgetValue
  <2>1. cursor \in Pending
    BY <1>0, <1>3 DEF Pending, Live, Slots
  <2>2. vals'[cursor] = NULL /\ \A p \in Slots(size) \ {cursor} : vals'[p] = vals[p]
    BY <1>0, <1>3 DEF ForgetValue
  <2>3. Pending \subseteq Slots(size) /\ Live(items) \subseteq Slots(size)
    BY <1>0 DEF Pending, Live
  <2>4. \A p \in Pending' : p \in Pending /\ p # cursor /\ vals'[p] = vals[p]
    BY <1>1, <2>2, <2>3
  <2>5. \A p \in Live(items') \ Pending' : vals'[p] = NULL
    BY <1>1, <2>2, <2>3 DEF OwnInv
  <2>6. CASE UNCHANGED new_ht
    BY <1>0, <2>4, <2>5, <2>6 DEF OwnInv, new_ht, Live
  <2>7. ASSUME NEW p \in Slots(nsize), nitems' = [nitems EXCEPT ![p] = items[cursor]],
               nvals' = [nvals EXCEPT ![p] = vals[cursor]]
        PROVE  OwnInv'
    <3>1. /\ \A q \in Live(nitems') : q = p \/ (q \in Live(nitems) /\ nvals'[q] = nvals[q])
          /\ nvals'[p] = vals[cursor]
      BY <1>0, <2>7 DEF Live
    <3>2. \A q \in Live(nitems') : nvals'[q] \in Handles /\ heap'[nvals'[q]] # FREE
      BY <1>0, <2>1, <3>1 DEF OwnInv
    <3>3. \A q, r \in Live(nitems') : nvals'[q] = nvals'[r] => q = r
      BY <2>1, <3>1 DEF OwnInv
    <3>4. \A q \in Pending', r \in Live(nitems') : vals'[q] # nvals'[r]
      BY <2>1, <2>4, <3>1 DEF OwnInv
    <3>5. /\ \A q \in Pending' : vals'[q] \in Handles /\ heap'[vals'[q]] # FREE
          /\ \A q, r \in Pending' : vals'[q] = vals'[r] => q = r
      BY <1>0, <2>4 DEF OwnInv
    <3> QED BY <2>5, <3>2, <3>3, <3>4, <3>5 DEF OwnInv, Live
  <2> QED BY <1>3, <2>6, <2>7 DEF item_swap, new_ht
<1> QED BY <1>2, <1>3 DEF item_swap

\* The end of a rehash frees no block that the new table owns: the old one has
\* given all of them up.
LEMMA FinishOwn ==
  ASSUME Core, Core', OwnInv, FinishResize
  PROVE  OwnInv'
<1>1. /\ items' = nitems /\ vals' = nvals /\ cursor' = 0 /\ cursor = size
      /\ nitems' = EmptySlots(0) /\ nvals' = EmptySlots(0)
      /\ heap' = [g \in Handles |->
                    IF \E p \in Live(items) : vals[p] = g THEN FREE ELSE heap[g]]
  BY DEF FinishResize
<1>2. Live(items) \subseteq Slots(size)
  BY LiveFinite DEF Core, TablesOK
<1>3. Pending = {}
  BY <1>1, <1>2 DEF Pending, Slots, Core, TablesOK
<1>4. \A p \in Live(items) : vals[p] \notin Handles
  BY <1>3, HTableAssumption DEF OwnInv
<1>5. \A g \in Handles : heap'[g] = heap[g]
  BY <1>1, <1>4
<1>6. Live(nitems') = {} /\ Live(items') = Live(nitems)
  BY <1>1, EmptyTable
<1>7. Pending' = Live(items')
  BY <1>1, IdlePending, <1>6 DEF Pending, Core, TablesOK, Live, Slots
<1> QED BY <1>1, <1>5, <1>6, <1>7 DEF OwnInv, Live

\* Every step keeps the owners.
LEMMA StepOwn ==
  ASSUME Core, OwnInv, [Next]_vars
  PROVE  OwnInv'
<1>0. Core'
  BY StepCore
<1>1. ASSUME NEW k \in Keys, NEW h \in Handles, htable_set(k, h) PROVE OwnInv'
  <2>0. pc = "idle" /\ "STR_T" \in Types
    BY <1>1, HTableAssumption DEF htable_set
  <2>1. CASE htable_insert(k, "STR_T", h)
    BY <1>0, <2>0, <2>1, InsertOwn
  <2>2. CASE htable_update_str(k, h)
    BY <1>0, <2>0, <2>2, UpdateOwn
  <2>3. CASE UNCHANGED <<table, new_ht, cursor, heap, pc>>
    BY <2>3, SameOwn DEF table, new_ht
  <2> QED BY <1>1, <2>1, <2>2, <2>3 DEF htable_set
<1>2. ASSUME NEW k \in Keys, NEW h \in Handles, NEW type \in Types \ {"STR_T"},
             htable_create(k, type, h)
      PROVE  OwnInv'
  BY <1>0, <1>2, InsertOwn DEF htable_create
<1>3. ASSUME NEW k \in Keys, htable_del(k) PROVE OwnInv'
  BY <1>0, <1>3, DeleteOwn
<1>4. ASSUME NEW k \in Keys, htable_get(k) PROVE OwnInv'
  BY <1>4, SameOwn DEF htable_get, table, new_ht
<1>5. CASE item_swap
  BY <1>5, SwapOwn
<1>6. CASE FinishResize
  BY <1>0, <1>6, FinishOwn
<1>7. CASE UNCHANGED vars
  BY <1>7, SameOwn DEF vars, table, new_ht
<1> QED BY <1>1, <1>2, <1>3, <1>4, <1>5, <1>6, <1>7 DEF Next

\* htable_init has no block to own.
LEMMA InitOwn == Init => OwnInv
<1> SUFFICES ASSUME Init PROVE OwnInv
  OBVIOUS
<1>1. size \in Nat
  BY InitCore DEF Core, TablesOK
<1>2. Live(items) = {} /\ Live(nitems) = {}
  BY <1>1, EmptyTable DEF Init
<1> QED BY <1>2 DEF OwnInv, Pending

\* No value is used after it was freed, freed twice, or shared by two items, in
\* the table, in the new table of a rehash, or between the two.
THEOREM OneOwner == Spec => []Ownership
<1>1. Core /\ OwnInv => Ownership
  <2> SUFFICES ASSUME Core, OwnInv PROVE Ownership
    OBVIOUS
  <2> DEFINE O == {<<vals[p], 0, p>> : p \in Live(items) \ (0 .. cursor - 1)}
             N == {<<nvals[p], 1, p>> : p \in Live(nitems)}
  <2>1. Live(items) \ (0 .. cursor - 1) = Pending
    <3>1. /\ size \in Nat /\ cursor \in 0 .. size
          /\ items \in [Slots(size) -> Keys \cup {NULL, DELETED}]
      BY DEF Core, TablesOK
    <3>2. Live(items) \subseteq Slots(size)
      BY <3>1, LiveFinite
    <3> QED BY <3>1, <3>2 DEF Pending, Slots
  <2>2. \A o \in O : \E p \in Pending : o = <<vals[p], 0, p>>
    BY <2>1
  <2>3. \A o \in N : \E p \in Live(nitems) : o = <<nvals[p], 1, p>>
    OBVIOUS
  <2>4. \A o \in O \cup N : o[1] # NULL /\ heap[o[1]] # FREE
    BY <2>2, <2>3, HTableAssumption DEF OwnInv
  <2>5. \A o1, o2 \in O \cup N : o1[1] = o2[1] => o1 = o2
    BY <2>2, <2>3 DEF OwnInv
  <2> QED BY <2>4, <2>5 DEF Ownership
<1>2. Core /\ OwnInv /\ [Next]_vars => (Core /\ OwnInv)'
  BY StepCore, StepOwn
<1> QED BY <1>1, <1>2, InitCore, InitOwn, PTL DEF Spec

-----------------------------------------------------------------------------
(***************************************************************************)
(* htable.c implements the lossy map of KVMap, for every set of keys and   *)
(* every pair of hash functions: a table may refuse a key or lose one in a *)
(* rehash, but no key reappears, answers for another, or changes its value *)
(* without being set. The invariants above make the refinement mapping     *)
(* readable: a key has one item that counts, in the old table or in the    *)
(* new one, and AbstractStore maps the key to the block this item owns     *)
(* (Reads).                                                                *)
(***************************************************************************)

\* The tables have the sizes next_prime returns.
SizeInv == size \in TableSizes /\ (pc = "rehash" => nsize \in TableSizes)

\* htable_init starts with the first size.
LEMMA InitSize == Init => SizeInv
BY TableSizesClosed DEF Init, SizesClosed, SizeInv

\* Every step keeps the sizes.
LEMMA StepSize ==
  ASSUME SizeInv, Core, Core', [Next]_vars
  PROVE  SizeInv'
<1>1. size \in Nat /\ size \in TableSizes /\ size \div 2 \in Nat /\ SizesClosed(TableSizes)
  BY Half, TableSizesClosed DEF SizeInv, Core, TablesOK
<1>2. ASSUME size' = size, pc = "idle",
             htable_resize_up \/ htable_resize_down \/ UNCHANGED <<new_ht, cursor, pc>>
      PROVE  SizeInv'
  <2>1. CASE UNCHANGED pc
    BY <1>1, <1>2, <2>1 DEF SizeInv
  <2>2. CASE StartResize(size * 2)
    BY <1>1, <1>2, <2>2 DEF StartResize, SizesClosed, SizeInv
  <2>3. CASE StartResize(size \div 2) /\ size \div 2 >= HT_BASE_SIZE
    BY <1>1, <1>2, <2>3 DEF StartResize, SizesClosed, SizeInv
  <2> QED BY <1>1, <1>2, <2>1, <2>2, <2>3
          DEF htable_resize_up, htable_resize_down, htable_resize, NoResize, HT_BASE_SIZE
<1>3. ASSUME NEW k \in Keys, NEW type, NEW h, pc = "idle", htable_insert(k, type, h)
      PROVE  SizeInv'
  BY <1>2, <1>3 DEF htable_insert, StoreItem, table
<1>4. ASSUME NEW k \in Keys, NEW h, htable_set(k, h)  PROVE SizeInv'
  BY <1>2, <1>3, <1>4 DEF htable_set, htable_update_str, ReplaceStr, table
<1>5. ASSUME NEW k \in Keys, NEW h, NEW type, htable_create(k, type, h)  PROVE SizeInv'
  BY <1>3, <1>5 DEF htable_create
<1>6. ASSUME NEW k \in Keys, htable_del(k) \/ htable_get(k)  PROVE SizeInv'
  BY <1>2, <1>6 DEF htable_del, htable_get, DropItem, table
<1>7. CASE item_swap
  BY <1>7 DEF item_swap, SizeInv, new_ht
<1>8. CASE FinishResize
  BY <1>8 DEF FinishResize, SizeInv
<1>9. CASE UNCHANGED vars
  BY <1>9 DEF vars, table, new_ht, SizeInv
<1> QED BY <1>4, <1>5, <1>6, <1>7, <1>8, <1>9 DEF Next

\* What the theorems before this say, and that a search answers what is stored.
Inv == Core /\ SizeInv /\ FindInv /\ OwnInv /\ ReplyOK

\* The value of the map for an item that points to block h.
Value(h) == [type |-> heap[h], val |-> h]

\* What AbstractStore says, item by item.
Reads ==
  /\ AbstractStore = [k \in Keys |-> AbstractStore[k]]
  /\ \A p \in Live(nitems) : AbstractStore[nitems[p]] = Value(nvals[p])
  /\ \A p \in Pending : AbstractStore[items[p]] = Value(vals[p])
  /\ \A k \in Keys : /\ \A p \in Live(nitems) : nitems[p] # k
                     /\ \A p \in Pending : items[p] # k
                     => AbstractStore[k] = NULL

\* A key that has an item has the value of that item.
LEMMA InvReads == Inv => Reads
<1> SUFFICES ASSUME Inv PROVE Reads
  OBVIOUS
<1>1. AbstractStore = [k \in Keys |-> AbstractStore[k]]
  BY DEF AbstractStore
<1>2. ASSUME NEW p \in Live(nitems) PROVE AbstractStore[nitems[p]] = Value(nvals[p])
  <2> DEFINE q == CHOOSE q \in Live(nitems) : nitems[q] = nitems[p]
  <2>1. q \in Live(nitems) /\ nitems[q] = nitems[p]
    OBVIOUS
  <2>2. q = p
    BY <2>1 DEF Inv, FindInv, Unique
  <2>3. nitems[p] \in Keys
    BY DEF Live
  <2> QED BY <2>2, <2>3 DEF AbstractStore, Value
<1>3. ASSUME NEW p \in Pending PROVE AbstractStore[items[p]] = Value(vals[p])
  <2> DEFINE q == CHOOSE q \in Pending : items[q] = items[p]
  <2>1. q \in Pending /\ items[q] = items[p]
    OBVIOUS
  <2>2. q = p
    BY <2>1 DEF Inv, FindInv, Unique, Pending
  <2>3. items[p] \in Keys /\ \A r \in Live(nitems) : nitems[r] # items[p]
    BY DEF Inv, FindInv, Pending, Live
  <2> QED BY <2>2, <2>3 DEF AbstractStore, Value
<1>4. ASSUME NEW k \in Keys, \A p \in Live(nitems) : nitems[p] # k,
             \A p \in Pending : items[p] # k
      PROVE  AbstractStore[k] = NULL
  BY <1>4 DEF AbstractStore
<1> QED BY <1>1, <1>2, <1>3, <1>4 DEF Reads

\* Where there is one table to read, AbstractStore follows its items.
OneTable ==
  /\ AbstractStore = [k \in Keys |-> AbstractStore[k]]
  /\ \A p \in Live(items) : /\ AbstractStore[items[p]] = Value(vals[p])
                            /\ vals[p] \in Handles /\ heap[vals[p]] \in Types
                            /\ AbstractStore[items[p]] # NULL
  /\ \A k \in Keys : (\A p \in Live(items) : items[p] # k) => AbstractStore[k] = NULL

\* It does so before the first slot of a rehash, and when there is none.
LEMMA ReadsOne == Inv /\ cursor = 0 /\ Live(nitems) = {} => OneTable
<1> SUFFICES ASSUME Inv, cursor = 0, Live(nitems) = {} PROVE OneTable
  OBVIOUS
<1>1. Reads /\ Pending = Live(items)
  BY InvReads, IdlePending DEF Inv
<1>2. ASSUME NEW p \in Live(items)
      PROVE  /\ AbstractStore[items[p]] = Value(vals[p])
             /\ vals[p] \in Handles /\ heap[vals[p]] \in Types
             /\ AbstractStore[items[p]] # NULL
  <2>1. AbstractStore[items[p]] = Value(vals[p])
    BY <1>1 DEF Reads
  <2>2. vals[p] \in Handles /\ heap[vals[p]] \in Types
    BY <1>1 DEF Inv, OwnInv, Core, TablesOK
  <2>3. Value(vals[p]) \in [type : Types, val : Handles]
    BY <2>2 DEF Value
  <2> QED BY <2>1, <2>2, <2>3, HTableAssumption
<1> QED BY <1>1, <1>2 DEF Reads, OneTable

\* Between two operations there is one table to read.
LEMMA IdleOne == Inv /\ pc = "idle" => OneTable
<1> SUFFICES ASSUME Inv, pc = "idle" PROVE OneTable
  OBVIOUS
<1>1. cursor = 0 /\ nitems = EmptySlots(0)
  BY DEF Inv, Core, ResizeInv, IdleInv
<1>2. Live(nitems) = {}
  BY <1>1, EmptyTable
<1> QED BY <1>1, <1>2, ReadsOne

\* And there still is after it, when it may have started a rehash.
LEMMA OperationOne ==
  ASSUME Inv, Inv', pc = "idle",
         htable_resize_up \/ htable_resize_down \/ UNCHANGED <<new_ht, cursor, pc>>
  PROVE  OneTable /\ OneTable'
<1>1. Live(nitems)' = {}
  BY ResizeFind DEF Inv
<1>2. cursor' = 0
  BY DEF Inv, Core, ResizeInv, IdleInv, htable_resize_up, htable_resize_down,
         htable_resize, NoResize, StartResize
<1>3. (Inv /\ cursor = 0 /\ Live(nitems) = {} => OneTable)'
  BY ReadsOne, PTL
<1> QED BY <1>1, <1>2, <1>3, IdleOne

-----------------------------------------------------------------------------
(* The operations *)

\* An operation that leaves the items of the other keys alone changes the map
\* at its key only.
LEMMA OtherKeys ==
  ASSUME OneTable, OneTable', NEW k \in Keys,
         \A q : q \in Live(items) /\ items[q] # k <=> q \in Live(items') /\ items'[q] # k,
         \A q \in Live(items) : items[q] # k =>
           items'[q] = items[q] /\ vals'[q] = vals[q] /\ heap'[vals[q]] = heap[vals[q]]
  PROVE  AbstractStore' = [AbstractStore EXCEPT ![k] = AbstractStore'[k]]
<1>1. ASSUME NEW x \in Keys, x # k PROVE AbstractStore'[x] = AbstractStore[x]
  <2>1. ASSUME NEW q \in Live(items), items[q] = x PROVE AbstractStore'[x] = AbstractStore[x]
    <3>1. q \in Live(items') /\ items'[q] = x /\ vals'[q] = vals[q]
          /\ heap'[vals[q]] = heap[vals[q]]
      BY <1>1, <2>1
    <3>2. AbstractStore'[x] = [type |-> heap'[vals'[q]], val |-> vals'[q]]
      BY <3>1 DEF OneTable, Value, Live
    <3>3. AbstractStore[x] = [type |-> heap[vals[q]], val |-> vals[q]]
      BY <2>1 DEF OneTable, Value
    <3> QED BY <3>1, <3>2, <3>3
  <2>2. CASE \A q \in Live(items) : items[q] # x
    <3>1. \A q \in Live(items') : items'[q] # x
      BY <1>1, <2>2
    <3> QED BY <2>2, <3>1 DEF OneTable, Live
  <2> QED BY <2>1, <2>2
<1>2. AbstractStore' = [x \in Keys |-> AbstractStore'[x]]
  BY DEF OneTable
<1>3. AbstractStore = [x \in Keys |-> AbstractStore[x]]
  BY DEF OneTable
<1> HIDE DEF OneTable
<1>4. ASSUME NEW A, NEW B, A = [x \in Keys |-> A[x]], B = [x \in Keys |-> B[x]],
             \A x \in Keys : x # k => B[x] = A[x]
      PROVE  B = [A EXCEPT ![k] = B[k]]
  BY <1>4
<1> QED BY <1>1, <1>2, <1>3, <1>4

\* htable_insert of an absent key adds the key, or nothing.
LEMMA InsertMap ==
  ASSUME Inv, Inv', pc = "idle", NEW k \in Keys, NEW type \in Types, NEW h \in Handles,
         Missing(items, size, k), htable_insert(k, type, h)
  PROVE  /\ AbstractStore[k] = NULL
         /\ \/ /\ AbstractStore' = [AbstractStore EXCEPT ![k] = [type |-> type, val |-> h]]
               /\ used' = used + 1
            \/ /\ AbstractStore' = AbstractStore /\ used' = used
               /\ NoRoom(items, size, k)
<1>0. /\ size \in Nat \ {0} /\ OnPath(items, size)
      /\ items \in [Slots(size) -> Keys \cup {NULL, DELETED}]
      /\ vals \in [Slots(size) -> Handles \cup {NULL}]
      /\ heap \in [Handles -> Types \cup {FREE}]
      /\ heap[h] = FREE /\ heap' = [heap EXCEPT ![h] = type]
  BY DEF Inv, FindInv, Core, TablesOK, htable_insert
<1>1. OneTable /\ AbstractStore[k] = NULL
  <2>1. \A q \in Live(items) : items[q] # k
    BY <1>0, MissingAbsent
  <2> QED BY <2>1, IdleOne DEF OneTable
<1>2. \A q \in Live(items) : items[q] # k /\ heap'[vals[q]] = heap[vals[q]]
  <2>1. \A q \in Live(items) : items[q] # k
    BY <1>0, MissingAbsent
  <2>2. \A q \in Live(items) : vals[q] \in Handles /\ vals[q] # h
    BY <1>0, <1>1, HTableAssumption DEF OneTable
  <2> QED BY <1>0, <2>1, <2>2
<1>3. ASSUME UNCHANGED <<table, new_ht, cursor, pc>> PROVE AbstractStore' = AbstractStore
  <2>1. OneTable' /\ items' = items /\ vals' = vals
    BY <1>3, OperationOne DEF table
  <2>2. AbstractStore' = [AbstractStore EXCEPT ![k] = AbstractStore'[k]]
    <3>1. \A q : q \in Live(items) /\ items[q] # k <=> q \in Live(items') /\ items'[q] # k
      BY <2>1
    <3> QED BY <1>1, <1>2, <2>1, <3>1, OtherKeys
  <2>3. AbstractStore'[k] = NULL
    BY <1>2, <2>1 DEF OneTable, Live
  <2>4. AbstractStore = [x \in Keys |-> AbstractStore[x]]
    BY <1>1 DEF OneTable
  <2> QED BY <1>1, <2>2, <2>3, <2>4
<1>4. ASSUME NEW p \in Slots(size), items[p] \notin Keys, StoreItem(p, k, h),
             htable_resize_up
      PROVE  AbstractStore' = [AbstractStore EXCEPT ![k] = [type |-> type, val |-> h]]
  <2>1. /\ items' = [items EXCEPT ![p] = k] /\ vals' = [vals EXCEPT ![p] = h]
        /\ OneTable'
    BY <1>4, OperationOne DEF StoreItem
  <2>2. /\ \A q : q \in Live(items) /\ items[q] # k <=> q \in Live(items') /\ items'[q] # k
        /\ \A q \in Live(items) : items'[q] = items[q] /\ vals'[q] = vals[q]
    BY <1>0, <1>2, <1>4, <2>1 DEF Live
  <2>3. AbstractStore' = [AbstractStore EXCEPT ![k] = AbstractStore'[k]]
    BY <1>1, <1>2, <2>1, <2>2, OtherKeys
  <2>4. p \in Live(items') /\ items'[p] = k /\ vals'[p] = h /\ heap'[h] = type
    BY <1>0, <2>1 DEF Live
  <2>5. AbstractStore'[k] = [type |-> type, val |-> h]
    BY <2>1, <2>4 DEF OneTable, Value, Live
  <2> QED BY <2>3, <2>5
<1> QED BY <1>1, <1>3, <1>4 DEF htable_insert, AvailableAt, StoreItem, table

\* What the search finds is what the map holds.
LEMMA FoundMap ==
  ASSUME Inv, pc = "idle", NEW k \in Keys, NEW p \in Slots(size),
         FoundAt(items, size, k, p)
  PROVE  /\ p \in Live(items) /\ items[p] = k
         /\ vals[p] \in Handles /\ heap[vals[p]] \in Types
         /\ AbstractStore[k] = [type |-> heap[vals[p]], val |-> vals[p]]
         /\ AbstractStore[k] # NULL
<1>1. p \in Live(items) /\ items[p] = k
  BY DEF FoundAt, Live, Inv, Core, TablesOK
<1> QED BY <1>1, IdleOne DEF OneTable, Value

\* No other item has the key or the block of the item found.
LEMMA FoundOnly ==
  ASSUME Inv, pc = "idle", NEW k \in Keys, NEW p \in Slots(size),
         FoundAt(items, size, k, p), NEW q \in Live(items), q # p
  PROVE  items[q] # k /\ vals[q] # vals[p] /\ vals[q] \in Handles
<1>1. p \in Live(items) /\ items[p] = k
  BY FoundMap
<1> QED BY <1>1, IdleOwn DEF Inv, FindInv, Unique

\* What the search misses, the map does not hold.
LEMMA MissingMap ==
  ASSUME Inv, pc = "idle", NEW k \in Keys, Missing(items, size, k)
  PROVE  AbstractStore[k] = NULL
<1>1. \A q \in Live(items) : items[q] # k
  BY MissingAbsent DEF Inv, FindInv, Core, TablesOK
<1> QED BY <1>1, IdleOne DEF OneTable

\* htable_update_str replaces the value of its key.
LEMMA UpdateMap ==
  ASSUME Inv, Inv', pc = "idle", NEW k \in Keys, NEW h \in Handles,
         NEW p \in Slots(size), FoundAt(items, size, k, p), ReplaceStr(p, h)
  PROVE  AbstractStore' = [AbstractStore EXCEPT ![k] = [type |-> "STR_T", val |-> h]]
<1>0. /\ vals \in [Slots(size) -> Handles \cup {NULL}]
      /\ heap \in [Handles -> Types \cup {FREE}]
      /\ heap[h] = FREE /\ heap' = [heap EXCEPT ![vals[p]] = FREE, ![h] = "STR_T"]
      /\ vals' = [vals EXCEPT ![p] = h] /\ UNCHANGED <<items, new_ht, cursor, pc>>
  BY DEF Inv, Core, TablesOK, ReplaceStr
<1>1. OneTable /\ OneTable'
  BY <1>0, OperationOne
<1>2. \A q \in Live(items) : q # p =>
        items[q] # k /\ vals'[q] = vals[q] /\ heap'[vals[q]] = heap[vals[q]]
  <2>1. \A q \in Live(items) : vals[q] \in Handles /\ vals[q] # h
    BY <1>0, <1>1, HTableAssumption DEF OneTable
  <2>2. ASSUME NEW q \in Live(items), q # p
        PROVE  /\ items[q] # k /\ vals'[q] = vals[q]
               /\ heap'[vals[q]] = heap[vals[q]]
    <3>1. items[q] # k /\ vals[q] # vals[p]
      BY <2>2, FoundOnly
    <3>2. vals[q] \in Handles /\ vals[q] # h /\ q \in Slots(size)
      BY <2>1 DEF Live, Inv, Core, TablesOK
    <3> QED BY <1>0, <2>2, <3>1, <3>2
  <2> QED BY <2>2
<1>3. p \in Live(items) /\ items[p] = k
  BY FoundMap
<1>4. \A q : q \in Live(items) /\ items[q] # k <=> q \in Live(items') /\ items'[q] # k
  BY <1>0
<1>5. AbstractStore' = [AbstractStore EXCEPT ![k] = AbstractStore'[k]]
  BY <1>0, <1>1, <1>2, <1>3, <1>4, OtherKeys
<1>6. vals'[p] = h /\ heap'[h] = "STR_T"
  BY <1>0
<1>7. AbstractStore'[k] = [type |-> "STR_T", val |-> h]
  BY <1>0, <1>1, <1>3, <1>6 DEF OneTable, Value, Live
<1> QED BY <1>5, <1>7

\* htable_del removes its key.
LEMMA DeleteMap ==
  ASSUME Inv, Inv', pc = "idle", NEW k \in Keys, NEW p \in Slots(size),
         FoundAt(items, size, k, p), DropItem(p), htable_resize_down
  PROVE  AbstractStore' = [AbstractStore EXCEPT ![k] = NULL]
<1>0. /\ items \in [Slots(size) -> Keys \cup {NULL, DELETED}]
      /\ vals \in [Slots(size) -> Handles \cup {NULL}]
      /\ heap \in [Handles -> Types \cup {FREE}]
      /\ heap' = [heap EXCEPT ![vals[p]] = FREE]
      /\ items' = [items EXCEPT ![p] = DELETED] /\ vals' = [vals EXCEPT ![p] = NULL]
  BY DEF Inv, Core, TablesOK, DropItem
<1>1. OneTable /\ OneTable'
  BY OperationOne
<1>2. \A q \in Live(items) : q # p =>
        /\ items[q] # k /\ items'[q] = items[q] /\ vals'[q] = vals[q]
        /\ heap'[vals[q]] = heap[vals[q]]
  <2> SUFFICES ASSUME NEW q \in Live(items), q # p
               PROVE  /\ items[q] # k /\ items'[q] = items[q] /\ vals'[q] = vals[q]
                      /\ heap'[vals[q]] = heap[vals[q]]
    OBVIOUS
  <2>1. items[q] # k /\ vals[q] # vals[p] /\ vals[q] \in Handles
    BY FoundOnly
  <2>2. q \in Slots(size)
    BY <1>0 DEF Live
  <2> QED BY <1>0, <2>1, <2>2
<1>3. p \in Live(items) /\ items[p] = k
  BY FoundMap
<1>4. \A q : q \in Live(items') <=> q \in Live(items) /\ q # p
  BY <1>0, SlotAssumption DEF Live
<1>5. AbstractStore' = [AbstractStore EXCEPT ![k] = AbstractStore'[k]]
  BY <1>1, <1>2, <1>3, <1>4, OtherKeys
<1>6. AbstractStore'[k] = NULL
  BY <1>1, <1>2, <1>4 DEF OneTable, Live
<1> QED BY <1>5, <1>6

-----------------------------------------------------------------------------
(* The rehash *)

\* An item of k that counts owns block h.
Holds(k, h) ==
  \/ \E q \in Live(nitems) : nitems[q] = k /\ nvals[q] = h
  \/ \E q \in Pending : items[q] = k /\ vals[q] = h

\* What AbstractStore says, key by key.
ReadsHeld ==
  /\ AbstractStore = [k \in Keys |-> AbstractStore[k]]
  /\ \A k \in Keys : \A h \in Handles : Holds(k, h) => AbstractStore[k] = Value(h)
  /\ \A k \in Keys : (\A h \in Handles : ~Holds(k, h)) => AbstractStore[k] = NULL

\* A key holds the block of its item, and no other.
LEMMA InvHeld == Inv => ReadsHeld
<1> SUFFICES ASSUME Inv PROVE ReadsHeld
  OBVIOUS
<1>1. Reads
  BY InvReads
<1>2. ASSUME NEW k \in Keys, NEW h \in Handles, Holds(k, h)
      PROVE  AbstractStore[k] = Value(h)
  BY <1>1, <1>2 DEF Reads, Holds
<1>3. ASSUME NEW k \in Keys, \A h \in Handles : ~Holds(k, h)
      PROVE  AbstractStore[k] = NULL
  <2>1. \A q \in Live(nitems) : nvals[q] \in Handles
    BY DEF Inv, OwnInv
  <2>2. \A q \in Pending : vals[q] \in Handles
    BY DEF Inv, OwnInv
  <2>3. /\ \A q \in Live(nitems) : nitems[q] # k
        /\ \A q \in Pending : items[q] # k
    BY <1>3, <2>1, <2>2 DEF Holds
  <2> QED BY <1>1, <2>3 DEF Reads
<1> QED BY <1>1, <1>2, <1>3 DEF ReadsHeld, Reads

\* A step of the rehash that leaves every key with its block changes nothing.
LEMMA SameHeld ==
  ASSUME Inv, Inv', heap' = heap,
         \A k \in Keys, h \in Handles : Holds(k, h)' <=> Holds(k, h)
  PROVE  AbstractStore' = AbstractStore
<1>1. ReadsHeld
  BY InvHeld
<1>2. ReadsHeld'
  BY InvHeld, PTL
<1>3. ASSUME NEW k \in Keys PROVE AbstractStore'[k] = AbstractStore[k]
  <2>1. ASSUME NEW h \in Handles, Holds(k, h) PROVE AbstractStore'[k] = AbstractStore[k]
    <3>1. AbstractStore[k] = [type |-> heap[h], val |-> h]
      BY <1>1, <2>1 DEF ReadsHeld, Value
    <3>2. AbstractStore'[k] = [type |-> heap'[h], val |-> h]
      BY <1>2, <2>1 DEF ReadsHeld, Value
    <3> QED BY <3>1, <3>2
  <2>2. CASE \A h \in Handles : ~Holds(k, h)
    BY <1>1, <1>2, <2>2 DEF ReadsHeld
  <2> QED BY <2>1, <2>2
<1> QED BY <1>1, <1>2, <1>3 DEF ReadsHeld

\* A step of the rehash that takes the block from one key forgets that key.
LEMMA LessHeld ==
  ASSUME Inv, Inv', heap' = heap, NEW x \in Keys,
         \A k \in Keys, h \in Handles : Holds(k, h)' <=> Holds(k, h) /\ k # x
  PROVE  AbstractStore' = [AbstractStore EXCEPT ![x] = NULL]
<1>1. ReadsHeld
  BY InvHeld
<1>2. ReadsHeld'
  BY InvHeld, PTL
<1>3. ASSUME NEW k \in Keys, k # x PROVE AbstractStore'[k] = AbstractStore[k]
  <2>1. ASSUME NEW h \in Handles, Holds(k, h) PROVE AbstractStore'[k] = AbstractStore[k]
    <3>1. AbstractStore[k] = [type |-> heap[h], val |-> h]
      BY <1>1, <2>1 DEF ReadsHeld, Value
    <3>2. AbstractStore'[k] = [type |-> heap'[h], val |-> h]
      BY <1>2, <1>3, <2>1 DEF ReadsHeld, Value
    <3> QED BY <3>1, <3>2
  <2>2. CASE \A h \in Handles : ~Holds(k, h)
    BY <1>1, <1>2, <2>2 DEF ReadsHeld
  <2> QED BY <2>1, <2>2
<1>4. AbstractStore'[x] = NULL
  BY <1>2 DEF ReadsHeld
<1> QED BY <1>1, <1>2, <1>3, <1>4 DEF ReadsHeld

\* One iteration of the rehash moves an item unseen, or loses one.
LEMMA SwapMap ==
  ASSUME Inv, Inv', item_swap
  PROVE  \/ AbstractStore' = AbstractStore
         \/ \E k \in Keys : /\ AbstractStore[k] # NULL
                            /\ AbstractStore' = [AbstractStore EXCEPT ![k] = NULL]
                            /\ pc = "rehash" /\ NoRoom(nitems, nsize, k)
                            /\ \A q \in Live(nitems) : nitems[q] # k
<1>0. /\ items \in [Slots(size) -> Keys \cup {NULL, DELETED}]
      /\ vals \in [Slots(size) -> Handles \cup {NULL}]
      /\ nitems \in [Slots(nsize) -> Keys \cup {NULL}]
      /\ nvals \in [Slots(nsize) -> Handles \cup {NULL}]
      /\ UNCHANGED <<size, items, heap>> /\ cursor \in Slots(size) /\ cursor' = cursor + 1
  BY DEF Inv, Core, TablesOK, item_swap, Slots
<1>1. Pending' = Pending \ {cursor} /\ Pending \subseteq Slots(size)
  BY <1>0 DEF Pending, Live, Slots
<1>2. CASE items[cursor] \notin Keys /\ UNCHANGED <<new_ht, vals>>
  <2>1. Pending' = Pending
    BY <1>1, <1>2 DEF Pending, Live
  <2>2. \A k \in Keys, h \in Handles : Holds(k, h)' <=> Holds(k, h)
    BY <1>0, <1>2, <2>1 DEF Holds, new_ht, Live
  <2> QED BY <1>0, <2>2, SameHeld
<1>3. CASE items[cursor] \in Keys /\ ForgetValue
  <2> DEFINE x == items[cursor]
             g == vals[cursor]
  <2>1. /\ cursor \in Pending /\ g \in Handles /\ heap[g] \in Types
        /\ \A q \in Pending : items[q] = x => q = cursor
        /\ \A q \in Live(nitems) : nitems[q] # x
    <3>1. cursor \in Pending
      BY <1>0, <1>3 DEF Pending, Live, Slots
    <3> QED BY <3>1 DEF Inv, OwnInv, FindInv, Unique, Pending, Core, TablesOK
  <2>2. \A q \in Pending \ {cursor} : vals'[q] = vals[q]
    BY <1>0, <1>1, <1>3 DEF ForgetValue
  <2>3. ASSUME UNCHANGED new_ht
        PROVE  /\ AbstractStore[x] # NULL
               /\ AbstractStore' = [AbstractStore EXCEPT ![x] = NULL]
    <3>1. \A k \in Keys, h \in Handles : Holds(k, h)' <=> Holds(k, h) /\ k # x
      BY <1>0, <1>1, <2>1, <2>2, <2>3 DEF Holds, new_ht, Live
    <3>2. AbstractStore' = [AbstractStore EXCEPT ![x] = NULL]
      BY <1>0, <1>3, <3>1, LessHeld
    <3>3. AbstractStore[x] = [type |-> heap[g], val |-> g]
      BY <2>1, InvReads DEF Reads, Value
    <3>4. AbstractStore[x] \in [type : Types, val : Handles]
      BY <2>1, <3>3
    <3> QED BY <1>3, <3>2, <3>4, HTableAssumption
  <2>4. ASSUME NEW p \in Slots(nsize), nitems[p] \notin Keys,
               nitems' = [nitems EXCEPT ![p] = x], nvals' = [nvals EXCEPT ![p] = g]
        PROVE  AbstractStore' = AbstractStore
    <3>1. /\ Live(nitems') = Live(nitems) \cup {p} /\ p \notin Live(nitems)
          /\ nitems'[p] = x /\ nvals'[p] = g
          /\ \A q \in Live(nitems) : nitems'[q] = nitems[q] /\ nvals'[q] = nvals[q]
      BY <1>0, <1>3, <2>4 DEF Live
    <3>2. ASSUME NEW k \in Keys, NEW h \in Handles
          PROVE  Holds(k, h)' <=> Holds(k, h)
      <4>1. (\E q \in Live(nitems') : nitems'[q] = k /\ nvals'[q] = h)
              <=> \/ \E q \in Live(nitems) : nitems[q] = k /\ nvals[q] = h
                  \/ k = x /\ h = g
        BY <3>1
      <4>2. (\E q \in Pending : items[q] = k /\ vals[q] = h)
              <=> \/ \E q \in Pending' : items'[q] = k /\ vals'[q] = h
                  \/ k = x /\ h = g
        BY <1>0, <1>1, <2>1, <2>2
      <4> QED BY <4>1, <4>2 DEF Holds, Live
    <3> QED BY <1>0, <3>2, SameHeld
  <2>5. CASE NoRoom(nitems, nsize, x) /\ UNCHANGED new_ht
    <3>1. /\ x \in Keys /\ AbstractStore[x] # NULL
          /\ AbstractStore' = [AbstractStore EXCEPT ![x] = NULL]
          /\ pc = "rehash" /\ NoRoom(nitems, nsize, x)
          /\ \A q \in Live(nitems) : nitems[q] # x
      BY <1>3, <2>1, <2>3, <2>5 DEF item_swap
    <3> HIDE DEF x
    <3> QED BY <3>1
  <2>6. \/ NoRoom(nitems, nsize, x) /\ UNCHANGED new_ht
        \/ \E p \in Slots(nsize) :
             /\ nitems[p] \notin Keys /\ nitems' = [nitems EXCEPT ![p] = x]
             /\ nvals' = [nvals EXCEPT ![p] = g]
    BY <1>3 DEF item_swap, new_ht, AvailableAt
  <2> QED BY <2>4, <2>5, <2>6
<1> QED BY <1>2, <1>3 DEF item_swap

\* The end of a rehash is not seen.
LEMMA FinishMap ==
  ASSUME Inv, Inv', FinishResize
  PROVE  AbstractStore' = AbstractStore
<1>1. /\ items' = nitems /\ vals' = nvals /\ cursor' = 0 /\ cursor = size
      /\ nitems' = EmptySlots(0)
      /\ heap' = [g \in Handles |->
                    IF \E p \in Live(items) : vals[p] = g THEN FREE ELSE heap[g]]
  BY DEF FinishResize
<1>2. Pending = {}
  <2>1. Live(items) \subseteq Slots(size)
    BY LiveFinite DEF Inv, Core, TablesOK
  <2> QED BY <1>1, <2>1 DEF Pending, Slots, Inv, Core, TablesOK
<1>3. heap' = heap
  <2>1. \A p \in Live(items) : vals[p] \notin Handles
    BY <1>2, HTableAssumption DEF Inv, OwnInv
  <2> QED BY <1>1, <2>1 DEF Inv, Core, TablesOK
<1>4. Live(nitems') = {} /\ Live(items') = Live(nitems)
  BY <1>1, EmptyTable
<1>5. Pending' = Live(nitems)
  BY <1>1, <1>4 DEF Pending, Inv, Core, TablesOK, Live, Slots
<1>6. \A k \in Keys, h \in Handles : Holds(k, h)' <=> Holds(k, h)
  BY <1>1, <1>2, <1>4, <1>5 DEF Holds, Live
<1> QED BY <1>3, <1>6, SameHeld

-----------------------------------------------------------------------------
(* The refinement *)

\* All the invariants together.
LEMMA InvInvariant == Spec => []Inv
<1>1. Init => Inv
  BY InitCore, InitSize, InitFind, InitOwn, ReplyInit DEF Inv
<1>2. Inv /\ [Next]_vars => Inv'
  BY StepCore, StepSize, StepFind, StepOwn, ReplyStep DEF Inv
<1> QED BY <1>1, <1>2, PTL DEF Spec

\* A new table is the empty map.
LEMMA InitMap == Init => Map!Init
<1> SUFFICES ASSUME Init PROVE Map!Init
  OBVIOUS
<1>1. Inv /\ cursor = 0 /\ nitems = EmptySlots(0) /\ items = EmptySlots(size)
  BY InitCore, InitSize, InitFind, InitOwn, ReplyInit DEF Inv, Init
<1>2. Live(nitems) = {} /\ Live(items) = {}
  BY <1>1, EmptyTable DEF Inv, Core, TablesOK
<1>3. OneTable
  BY <1>1, <1>2, ReadsOne
<1>4. AbstractStore = [k \in Keys |-> NULL]
  BY <1>2, <1>3 DEF OneTable
<1> QED BY <1>4 DEF Map!Init, Init

\* A step that changes neither the tables nor the heap changes no value.
LEMMA SameMap ==
  ASSUME UNCHANGED <<items, vals, nitems, nvals, cursor, heap>>
  PROVE  AbstractStore' = AbstractStore
BY DEF AbstractStore, Pending, Live

\* What finds no room has another key in its way.
LEMMA IdleInTheWay ==
  ASSUME Inv, pc = "idle", NEW k \in Keys, AbstractStore[k] = NULL,
         NoRoom(items, size, k)
  PROVE  Map!InTheWay(k)
<1>1. /\ size \in TableSizes /\ size \in Nat \ {0} /\ used \in Nat /\ load(used, size) <= 70
      /\ items \in [Slots(size) -> Keys \cup {NULL, DELETED}]
      /\ Cardinality(Live(items)) <= used
  BY DEF Inv, SizeInv, Core, TablesOK, ResizeInv, IdleInv, CountInv
<1>2. k \in Shaky
  BY <1>1, NoRoomShaky
<1>3. PICK q \in Slots(size) : items[q] \in Keys
  BY <1>1, NoRoomTaken
<1>4. AbstractStore[items[q]] # NULL
  BY <1>1, <1>3, IdleOne DEF OneTable, Live
<1> QED BY <1>2, <1>3, <1>4 DEF Map!InTheWay

\* So it is in the new table of a rehash.
LEMMA RehashInTheWay ==
  ASSUME Inv, pc = "rehash", NEW k \in Keys, \A q \in Live(nitems) : nitems[q] # k,
         NoRoom(nitems, nsize, k)
  PROVE  Map!InTheWay(k)
<1>1. /\ nsize \in TableSizes /\ nsize \in Nat \ {0} /\ used \in Nat /\ load(used, nsize) <= 70
      /\ nitems \in [Slots(nsize) -> Keys \cup {NULL}]
  BY DEF Inv, SizeInv, Core, TablesOK, ResizeInv, RehashInv, HT_BASE_SIZE
<1>2. Cardinality(Live(nitems)) <= used
  <2>1. Pending \subseteq Live(items)
    BY DEF Pending
  <2>2. /\ nused \in Nat /\ Cardinality(Pending) \in Nat /\ Cardinality(Live(items)) \in Nat
    BY <2>1, LiveFinite, FS_Subset, FS_CardinalityType DEF Inv, Core, TablesOK
  <2> QED BY <1>1, <2>2 DEF Inv, Core, CountInv
<1>3. k \in Shaky
  BY <1>1, <1>2, NoRoomShaky
<1>4. PICK q \in Slots(nsize) : nitems[q] \in Keys
  BY <1>1, NoRoomTaken
<1>5. q \in Live(nitems) /\ nitems[q] # k
  BY <1>1, <1>4 DEF Live
<1>6. AbstractStore[nitems[q]] # NULL
  <2>1. AbstractStore[nitems[q]] = [type |-> heap[nvals[q]], val |-> nvals[q]]
    BY <1>5, InvReads DEF Reads, Value
  <2>2. nvals[q] \in Handles /\ heap[nvals[q]] \in Types
    BY <1>5 DEF Inv, OwnInv, Core, TablesOK
  <2>3. AbstractStore[nitems[q]] \in [type : Types, val : Handles]
    BY <2>1, <2>2
  <2> QED BY <2>3, HTableAssumption
<1> QED BY <1>3, <1>4, <1>5, <1>6 DEF Map!InTheWay

\* htable_set is the map's.
LEMMA SetMap ==
  ASSUME Inv, Inv', NEW k \in Keys, NEW h \in Handles, htable_set(k, h)
  PROVE  \/ Map!Next
         \/ pc = "idle" /\ NoRoom(items, size, k) /\ Map!LossyNext
<1>0. pc = "idle" /\ "STR_T" \in Types
  BY HTableAssumption DEF htable_set
<1>1. CASE Missing(items, size, k) /\ htable_insert(k, "STR_T", h)
           /\ Answer("set", k, TRUE, h)
  <2>1. /\ AbstractStore[k] = NULL
        /\ \/ /\ AbstractStore' = [AbstractStore EXCEPT ![k] = [type |-> "STR_T", val |-> h]]
              /\ used' = used + 1
           \/ /\ AbstractStore' = AbstractStore /\ used' = used
              /\ NoRoom(items, size, k)
    BY <1>0, <1>1, InsertMap
  <2>2. Map!Set(k, h) \/ (NoRoom(items, size, k) /\ Map!Ignore(k))
    BY <1>0, <1>1, <2>1, IdleInTheWay
       DEF Map!Set, Map!Insert, Map!Ignore, Map!Answer, Answer
  <2> QED BY <1>0, <2>2 DEF Map!LossyNext, Map!Next
<1>2. ASSUME NEW p \in Slots(size), FoundAt(items, size, k, p), heap[vals[p]] = "STR_T",
             ReplaceStr(p, h), Answer("set", k, TRUE, h)
      PROVE  Map!Next
  <2>1. AbstractStore' = [AbstractStore EXCEPT ![k] = [type |-> "STR_T", val |-> h]]
    BY <1>0, <1>2, UpdateMap
  <2>2. AbstractStore[k].type = "STR_T"
    <3>1. AbstractStore[k] = [type |-> heap[vals[p]], val |-> vals[p]]
      BY <1>0, <1>2, FoundMap
    <3> QED BY <1>2, <3>1
  <2>3. Map!Set(k, h)
    <3>1. AbstractStore[k] # NULL /\ used' = used
      BY <1>0, <1>2, FoundMap DEF ReplaceStr
    <3> QED BY <1>2, <2>1, <2>2, <3>1 DEF Map!Set, Map!Answer, Answer
  <2> QED BY <2>3 DEF Map!Next
<1>3. ASSUME NEW p \in Slots(size), FoundAt(items, size, k, p), heap[vals[p]] # "STR_T",
             Answer("set", k, FALSE, NULL),
             UNCHANGED <<table, new_ht, cursor, heap, pc>>
      PROVE  Map!Next
  <2>1. AbstractStore' = AbstractStore
    BY <1>3, SameMap DEF table, new_ht
  <2>2. AbstractStore[k] # NULL /\ AbstractStore[k].type # "STR_T"
    <3>1. /\ AbstractStore[k] = [type |-> heap[vals[p]], val |-> vals[p]]
          /\ AbstractStore[k] # NULL
      BY <1>0, <1>3, FoundMap
    <3> QED BY <1>3, <3>1
  <2>3. Map!Set(k, h)
    BY <1>3, <2>1, <2>2 DEF Map!Set, Map!Answer, Answer, table
  <2> QED BY <2>3 DEF Map!Next
<1> QED BY <1>1, <1>2, <1>3 DEF htable_set, htable_update_str

\* htable_create is the map's.
LEMMA CreateMap ==
  ASSUME Inv, Inv', NEW k \in Keys, NEW h \in Handles, NEW type \in Types \ {"STR_T"},
         htable_create(k, type, h)
  PROVE  \/ Map!Next
         \/ pc = "idle" /\ NoRoom(items, size, k) /\ Map!LossyNext
<1>1. /\ AbstractStore[k] = NULL
      /\ \/ /\ AbstractStore' = [AbstractStore EXCEPT ![k] = [type |-> type, val |-> h]]
            /\ used' = used + 1
         \/ /\ AbstractStore' = AbstractStore /\ used' = used
            /\ NoRoom(items, size, k)
      /\ Answer("create", k, TRUE, h) /\ pc = "idle"
  BY InsertMap DEF htable_create
<1>2. Map!Create(k, type, h) \/ (NoRoom(items, size, k) /\ Map!Ignore(k))
  BY <1>1, IdleInTheWay
     DEF Map!Create, Map!Insert, Map!Ignore, Map!Answer, Answer
<1> QED BY <1>1, <1>2 DEF Map!LossyNext, Map!Next

\* htable_del is the map's.
LEMMA DelMap ==
  ASSUME Inv, Inv', NEW k \in Keys, htable_del(k)
  PROVE  Map!Next
<1>0. pc = "idle" /\ OneTable
  BY IdleOne DEF htable_del
<1>1. ASSUME NEW p \in Slots(size), FoundAt(items, size, k, p), DropItem(p),
             htable_resize_down, Answer("del", k, TRUE, NULL)
      PROVE  Map!Del(k)
  <2>1. AbstractStore' = [AbstractStore EXCEPT ![k] = NULL] /\ AbstractStore[k] # NULL
    BY <1>0, <1>1, DeleteMap, FoundMap
  <2>2. used' = used - 1
    BY <1>1 DEF DropItem
  <2> QED BY <1>1, <2>1, <2>2 DEF Map!Del, Map!Answer, Answer
<1>2. ASSUME Missing(items, size, k), Answer("del", k, FALSE, NULL),
             UNCHANGED <<table, new_ht, cursor, heap, pc>>
      PROVE  Map!Del(k)
  <2>1. AbstractStore' = AbstractStore /\ AbstractStore[k] = NULL
    BY <1>0, <1>2, SameMap, MissingMap DEF table, new_ht
  <2>2. used' = used
    BY <1>2 DEF table
  <2> QED BY <1>2, <2>1, <2>2 DEF Map!Del, Map!Answer, Answer
<1>3. Map!Del(k)
  BY <1>1, <1>2 DEF htable_del
<1> QED BY <1>3 DEF Map!Next

\* htable_get is the map's.
LEMMA GetMap ==
  ASSUME Inv, NEW k \in Keys, htable_get(k)
  PROVE  Map!Next
<1>0. pc = "idle" /\ AbstractStore' = AbstractStore /\ used' = used
  BY SameMap DEF htable_get, table, new_ht
<1>1. ASSUME NEW p \in Slots(size), FoundAt(items, size, k, p),
             Answer("get", k, TRUE, vals[p])
      PROVE  Map!Get(k)
  <2>1. AbstractStore[k] # NULL /\ AbstractStore[k].val = vals[p]
    <3>1. /\ AbstractStore[k] = [type |-> heap[vals[p]], val |-> vals[p]]
          /\ AbstractStore[k] # NULL
      BY <1>0, <1>1, FoundMap
    <3> QED BY <3>1
  <2> QED BY <1>0, <1>1, <2>1 DEF Map!Get, Map!Answer, Answer
<1>2. ASSUME Missing(items, size, k), Answer("get", k, FALSE, NULL)
      PROVE  Map!Get(k)
  <2>1. AbstractStore[k] = NULL
    BY <1>0, <1>2, MissingMap
  <2> QED BY <1>0, <1>2, <2>1 DEF Map!Get, Map!Answer, Answer
<1>3. Map!Get(k)
  BY <1>1, <1>2 DEF htable_get
<1> QED BY <1>3 DEF Map!Next

\* Every step is a step of the lossy map, or is not seen.
LEMMA StepMap == Inv /\ Inv' /\ [Next]_vars => [Map!LossyNext]_(Map!vars)
<1> SUFFICES ASSUME Inv, Inv', [Next]_vars
             PROVE  Map!LossyNext \/ UNCHANGED <<AbstractStore, used, reply>>
  BY DEF Map!vars
<1>1. ASSUME NEW k \in Keys, NEW h \in Handles, htable_set(k, h) PROVE Map!LossyNext
  BY <1>1, SetMap DEF Map!LossyNext
<1>2. ASSUME NEW k \in Keys, NEW h \in Handles, NEW type \in Types \ {"STR_T"},
             htable_create(k, type, h)
      PROVE  Map!LossyNext
  BY <1>2, CreateMap DEF Map!LossyNext
<1>3. ASSUME NEW k \in Keys, htable_del(k) PROVE Map!LossyNext
  BY <1>3, DelMap DEF Map!LossyNext
<1>4. ASSUME NEW k \in Keys, htable_get(k) PROVE Map!LossyNext
  BY <1>4, GetMap DEF Map!LossyNext
<1>5. CASE item_swap
  <2>1. reply' = reply /\ used' = used
    BY <1>5 DEF item_swap
  <2>2. ASSUME NEW k \in Keys, AbstractStore[k] # NULL, pc = "rehash",
               \A q \in Live(nitems) : nitems[q] # k, NoRoom(nitems, nsize, k),
               AbstractStore' = [AbstractStore EXCEPT ![k] = NULL]
        PROVE  Map!LossyNext
    <3>1. Map!InTheWay(k)
      BY <2>2, RehashInTheWay
    <3>2. Map!Forget(k)
      BY <2>1, <2>2, <3>1 DEF Map!Forget
    <3> QED BY <3>2 DEF Map!LossyNext
  <2> QED BY <1>5, <2>1, <2>2, SwapMap
<1>6. CASE FinishResize
  <2>1. reply' = reply /\ used' = used
    BY <1>6 DEF FinishResize
  <2> QED BY <1>6, <2>1, FinishMap
<1>7. CASE UNCHANGED vars
  BY <1>7, SameMap DEF vars, table, new_ht
<1> QED BY <1>1, <1>2, <1>3, <1>4, <1>5, <1>6, <1>7 DEF Next

\* The hash table is a map that may refuse or lose a key of Shaky for another
\* one and does nothing worse, through every rehash, for any keys and hash
\* functions.
THEOREM ImplementsLossyMap == Spec => IsLossyMap
<1>1. Spec => Map!LossySpec
  BY InitMap, StepMap, InvInvariant, PTL DEF Spec, Map!LossySpec
<1> QED BY <1>1 DEF IsLossyMap

-----------------------------------------------------------------------------
(***************************************************************************)
(* Where no key is of Shaky, htable.c implements the map of KVMap exactly: *)
(* it refuses no key, loses none, leaks no block and lists every key. The  *)
(* sizes are prime, so every probe sequence visits every slot, and the     *)
(* load limit leaves an unused slot in every table: an insertion and each  *)
(* move of a rehash find one. MCHTable has TLC check that no key of the    *)
(* run "htable_exact" is of Shaky.                                         *)
(***************************************************************************)

-----------------------------------------------------------------------------
(* Nothing is lost *)

\* "used" counts exactly the items that count, and every allocated block belongs
\* to one of these.
ExactInv ==
  /\ used = nused + Cardinality(Pending)
  /\ \A h \in Handles : heap[h] # FREE =>
       \/ \E p \in Pending : vals[p] = h
       \/ \E p \in Live(nitems) : nvals[p] = h

\* htable_init allocates nothing.
LEMMA InitExact ==
  ASSUME Init
  PROVE  ExactInv
<1>1. Inv
  BY InitCore, InitSize, InitFind, InitOwn, ReplyInit DEF Inv
<1>2. items = EmptySlots(size) /\ used = 0 /\ nused = 0 /\ cursor = 0 /\ pc = "idle"
  BY DEF Init
<1>3. Pending = {}
  BY <1>1, <1>2, EmptyTable, IdlePending DEF Inv, Core, TablesOK
<1>4. \A h \in Handles : heap[h] = FREE
  BY DEF Init
<1> QED BY <1>2, <1>3, <1>4, FS_EmptySet DEF ExactInv

\* An operation that counts the items of the table and leaves no block without.
LEMMA OperationExact ==
  ASSUME ExactInv, Inv, Inv', pc = "idle", size' = size,
         htable_resize_up \/ htable_resize_down \/ UNCHANGED <<new_ht, cursor, pc>>,
         used' = Cardinality(Live(items')),
         \A h \in Handles : heap'[h] # FREE => \E p \in Live(items') : vals'[p] = h
  PROVE  ExactInv'
<1>1. nused' = 0 /\ cursor' = 0
  BY DEF Inv, Core, ResizeInv, IdleInv, htable_resize_up, htable_resize_down,
         htable_resize, NoResize, StartResize, new_ht
<1>3. Live(items)' \subseteq Slots(size')
  BY LiveFinite DEF Inv, Core, TablesOK
<1>4. Pending' = Live(items)' /\ Live(items)' = Live(items') /\ Cardinality(Live(items')) \in Nat
  BY <1>1, <1>3, LiveFinite DEF Pending, Slots, Live, Inv, Core, TablesOK
<1> QED BY <1>1, <1>4 DEF ExactInv

\* Between two operations, "used" counts the items and every block has one.
LEMMA IdleExact ==
  ASSUME ExactInv, Inv, pc = "idle"
  PROVE  /\ used = Cardinality(Live(items)) /\ used \in Nat
         /\ \A h \in Handles : heap[h] # FREE => \E p \in Live(items) : vals[p] = h
<1>1. cursor = 0 /\ nused = 0 /\ nitems = EmptySlots(0)
  BY DEF Inv, Core, ResizeInv, IdleInv
<1>2. Live(nitems) = {}
  BY <1>1, EmptyTable
<1>3. Pending = Live(items)
  BY <1>1, IdlePending DEF Inv
<1>4. used \in Nat /\ Cardinality(Live(items)) \in Nat
  BY LiveFinite DEF Inv, Core, TablesOK
<1> QED BY <1>1, <1>2, <1>3, <1>4 DEF ExactInv

\* In an idle table an absent key finds a slot.
LEMMA IdleRoom ==
  ASSUME Shaky = {}, ExactInv, Inv, pc = "idle", NEW k \in Keys
  PROVE  ~NoRoom(items, size, k)
<1>1. /\ size \in TableSizes /\ used \in Nat /\ load(used, size) <= 70
      /\ items \in [Slots(size) -> Keys \cup {NULL, DELETED}]
      /\ Cardinality(Live(items)) <= used
  BY DEF Inv, SizeInv, Core, TablesOK, ResizeInv, IdleInv, CountInv
<1> QED BY <1>1, NoRoomShaky

\* In the new table of a rehash, every item finds one.
LEMMA RehashRoom ==
  ASSUME Shaky = {}, ExactInv, Inv, pc = "rehash", NEW k \in Keys
  PROVE  ~NoRoom(nitems, nsize, k)
<1>1. /\ nsize \in TableSizes /\ used \in Nat /\ load(used, nsize) <= 70
      /\ nitems \in [Slots(nsize) -> Keys \cup {NULL}]
  BY DEF Inv, SizeInv, Core, TablesOK, ResizeInv, RehashInv
<1>2. Cardinality(Live(nitems)) <= used
  <2>1. Pending \subseteq Live(items)
    BY DEF Pending
  <2>2. /\ Cardinality(Live(nitems)) \in Nat /\ Cardinality(Pending) \in Nat
        /\ Cardinality(Live(nitems)) = nused
    BY <2>1, LiveFinite, FS_Subset, FS_CardinalityType DEF Inv, Core, TablesOK, CountInv
  <2> QED BY <1>1, <2>2 DEF ExactInv
<1> QED BY <1>1, <1>2, NoRoomShaky

\* htable_insert stores its key.
LEMMA InsertExact ==
  ASSUME Shaky = {}, ExactInv, Inv, Inv', pc = "idle",
         NEW k \in Keys, NEW type \in Types, NEW h \in Handles, htable_insert(k, type, h)
  PROVE  ExactInv'
<1>0. /\ items \in [Slots(size) -> Keys \cup {NULL, DELETED}] /\ size \in Nat
      /\ vals \in [Slots(size) -> Handles \cup {NULL}]
      /\ heap \in [Handles -> Types \cup {FREE}]
      /\ heap' = [heap EXCEPT ![h] = type]
  BY DEF Inv, Core, TablesOK, htable_insert
<1>1. PICK p \in Slots(size) : /\ items[p] \notin Keys /\ StoreItem(p, k, h)
                               /\ htable_resize_up
  BY IdleRoom DEF htable_insert, AvailableAt
<1>2. /\ items' = [items EXCEPT ![p] = k] /\ vals' = [vals EXCEPT ![p] = h]
      /\ used' = used + 1 /\ size' = size
  BY <1>1 DEF StoreItem
<1>3. used' = Cardinality(Live(items'))
  <2>1. Cardinality(Live([items EXCEPT ![p] = k])) = Cardinality(Live(items)) + 1
    BY <1>0, <1>1, LiveAdd
  <2> QED BY <1>2, <2>1, IdleExact
<1>4. ASSUME NEW g \in Handles, heap'[g] # FREE
      PROVE  \E q \in Live(items') : vals'[q] = g
  <2>1. CASE g = h
    BY <1>0, <1>2, <2>1 DEF Live
  <2>2. CASE g # h
    <3>1. PICK q \in Live(items) : vals[q] = g
      BY <1>0, <1>4, <2>2, IdleExact
    <3>2. q # p /\ q \in Slots(size)
      BY <1>0, <1>1 DEF Live
    <3> QED BY <1>0, <1>2, <3>1, <3>2 DEF Live
  <2> QED BY <2>1, <2>2
<1> QED BY <1>1, <1>2, <1>3, <1>4, OperationExact

\* htable_update_str frees the block it replaces.
LEMMA UpdateExact ==
  ASSUME ExactInv, Inv, Inv', pc = "idle",
         NEW k \in Keys, NEW h \in Handles, htable_update_str(k, h)
  PROVE  ExactInv'
<1>0. /\ items \in [Slots(size) -> Keys \cup {NULL, DELETED}]
      /\ vals \in [Slots(size) -> Handles \cup {NULL}]
      /\ heap \in [Handles -> Types \cup {FREE}]
  BY DEF Inv, Core, TablesOK
<1>1. PICK p \in Slots(size) : FoundAt(items, size, k, p) /\ ReplaceStr(p, h)
  BY DEF htable_update_str
<1>2. /\ heap' = [heap EXCEPT ![vals[p]] = FREE, ![h] = "STR_T"] /\ heap[h] = FREE
      /\ vals' = [vals EXCEPT ![p] = h]
      /\ UNCHANGED <<size, used, items>> /\ UNCHANGED <<new_ht, cursor, pc>>
  BY <1>1 DEF ReplaceStr
<1>3. p \in Live(items) /\ vals[p] \in Handles
  BY <1>1, FoundMap
<1>4. ASSUME NEW g \in Handles, heap'[g] # FREE
      PROVE  \E q \in Live(items') : vals'[q] = g
  <2>1. CASE g = h
    BY <1>0, <1>2, <1>3, <2>1
  <2>2. CASE g # h
    <3>1. g # vals[p] /\ heap[g] # FREE
      BY <1>0, <1>2, <1>3, <1>4, <2>2
    <3>2. PICK q \in Live(items) : vals[q] = g
      BY <3>1, IdleExact
    <3>3. q # p /\ q \in Slots(size)
      BY <1>0, <3>1, <3>2 DEF Live
    <3> QED BY <1>0, <1>2, <3>2, <3>3
  <2> QED BY <2>1, <2>2
<1>5. used' = Cardinality(Live(items'))
  BY <1>2, IdleExact
<1> QED BY <1>2, <1>4, <1>5, OperationExact

\* htable_del frees the block of the item it removes.
LEMMA DeleteExact ==
  ASSUME ExactInv, Inv, Inv', NEW k \in Keys, htable_del(k),
         ~UNCHANGED <<table, new_ht, cursor, heap, pc>>
  PROVE  ExactInv'
<1>0. /\ items \in [Slots(size) -> Keys \cup {NULL, DELETED}] /\ size \in Nat
      /\ vals \in [Slots(size) -> Handles \cup {NULL}]
      /\ heap \in [Handles -> Types \cup {FREE}] /\ pc = "idle"
  BY DEF Inv, Core, TablesOK, htable_del
<1>1. PICK p \in Slots(size) : FoundAt(items, size, k, p) /\ DropItem(p) /\ htable_resize_down
  BY DEF htable_del
<1>2. /\ heap' = [heap EXCEPT ![vals[p]] = FREE] /\ items' = [items EXCEPT ![p] = DELETED]
      /\ vals' = [vals EXCEPT ![p] = NULL] /\ used' = used - 1 /\ size' = size
  BY <1>1 DEF DropItem
<1>3. p \in Live(items) /\ items[p] = k /\ vals[p] \in Handles
  BY <1>0, <1>1, FoundMap
<1>4. used' = Cardinality(Live(items'))
  <2>1. Cardinality(Live([items EXCEPT ![p] = DELETED])) = Cardinality(Live(items)) - 1
    BY <1>0, <1>3, SlotAssumption, LiveRemove
  <2> QED BY <1>0, <1>2, <2>1, IdleExact
<1>5. ASSUME NEW g \in Handles, heap'[g] # FREE
      PROVE  \E q \in Live(items') : vals'[q] = g
  <2>1. g # vals[p] /\ heap[g] # FREE
    BY <1>0, <1>2, <1>3, <1>5
  <2>2. PICK q \in Live(items) : vals[q] = g
    BY <1>0, <2>1, IdleExact
  <2>3. q # p /\ q \in Slots(size)
    BY <1>0, <2>1, <2>2 DEF Live
  <2> QED BY <1>0, <1>2, <2>2, <2>3 DEF Live
<1> QED BY <1>0, <1>1, <1>2, <1>4, <1>5, OperationExact

\* One iteration of the rehash counts the item it moves.
LEMMA SwapExact ==
  ASSUME Shaky = {}, ExactInv, Inv, Inv', item_swap
  PROVE  ExactInv'
<1>0. /\ items \in [Slots(size) -> Keys \cup {NULL, DELETED}] /\ pc = "rehash"
      /\ vals \in [Slots(size) -> Handles \cup {NULL}]
      /\ nitems \in [Slots(nsize) -> Keys \cup {NULL}]
      /\ nvals \in [Slots(nsize) -> Handles \cup {NULL}]
      /\ nused \in Nat /\ used \in Nat
      /\ UNCHANGED <<size, used, items, heap>>
      /\ cursor \in Slots(size) /\ cursor' = cursor + 1
  BY DEF Inv, Core, TablesOK, item_swap, Slots
<1>1. Pending' = Pending \ {cursor} /\ Pending \subseteq Slots(size)
  BY <1>0 DEF Pending, Live, Slots
<1>2. IsFiniteSet(Pending) /\ Cardinality(Pending) \in Nat
  <2>1. Pending \subseteq Live(items)
    BY DEF Pending
  <2> QED BY <2>1, LiveFinite, FS_Subset, FS_CardinalityType DEF Inv, Core, TablesOK
<1>3. CASE items[cursor] \notin Keys /\ UNCHANGED <<new_ht, vals, pc>>
  <2>1. Pending' = Pending
    BY <1>1, <1>3 DEF Pending, Live
  <2> QED BY <1>0, <1>3, <2>1 DEF ExactInv, new_ht, Live
<1>4. ASSUME items[cursor] \in Keys, ForgetValue, NEW p \in Slots(nsize),
             nitems[p] \notin Keys, nitems' = [nitems EXCEPT ![p] = items[cursor]],
             nvals' = [nvals EXCEPT ![p] = vals[cursor]],
             nused' = nused + 1, nsize' = nsize
      PROVE  ExactInv'
  <2>1. cursor \in Pending
    BY <1>0, <1>4 DEF Pending, Live, Slots
  <2>2. Cardinality(Pending') = Cardinality(Pending) - 1
    BY <1>1, <1>2, <2>1, FS_RemoveElement
  <2>3. used' = nused' + Cardinality(Pending')
    BY <1>0, <1>2, <1>4, <2>2 DEF ExactInv
  <2>4. \A q \in Pending \ {cursor} : vals'[q] = vals[q]
    BY <1>0, <1>1, <1>4 DEF ForgetValue
  <2>5. /\ p \in Live(nitems') /\ nvals'[p] = vals[cursor]
        /\ \A q \in Live(nitems) : q \in Live(nitems') /\ nvals'[q] = nvals[q]
    BY <1>0, <1>4 DEF Live
  <2>6. ASSUME NEW g \in Handles, heap'[g] # FREE
        PROVE  \/ \E q \in Pending' : vals'[q] = g
               \/ \E q \in Live(nitems') : nvals'[q] = g
    <3>1. \/ \E q \in Pending : vals[q] = g
          \/ \E q \in Live(nitems) : nvals[q] = g
      BY <1>0, <2>6 DEF ExactInv
    <3>2. ASSUME NEW q \in Pending, vals[q] = g
          PROVE  \/ \E r \in Pending' : vals'[r] = g
                 \/ \E r \in Live(nitems') : nvals'[r] = g
      BY <1>1, <2>4, <2>5, <3>2
    <3>3. ASSUME NEW q \in Live(nitems), nvals[q] = g
          PROVE  \E r \in Live(nitems') : nvals'[r] = g
      BY <2>5, <3>3
    <3> QED BY <3>1, <3>2, <3>3
  <2> QED BY <1>0, <1>4, <2>3, <2>6 DEF ExactInv, Live
<1> QED BY <1>0, <1>3, <1>4, RehashRoom DEF item_swap, AvailableAt

\* The end of a rehash frees nothing that was not already given up.
LEMMA FinishExact ==
  ASSUME ExactInv, Inv, Inv', FinishResize
  PROVE  ExactInv'
<1>1. /\ items' = nitems /\ vals' = nvals /\ cursor' = 0 /\ cursor = size /\ used' = used
      /\ nused' = 0 /\ size' = nsize /\ pc = "rehash" /\ pc' = "idle"
      /\ heap' = [g \in Handles |->
                    IF \E p \in Live(items) : vals[p] = g THEN FREE ELSE heap[g]]
  BY DEF FinishResize
<1>2. Pending = {}
  <2>1. Live(items) \subseteq Slots(size)
    BY LiveFinite DEF Inv, Core, TablesOK
  <2> QED BY <1>1, <2>1 DEF Pending, Slots, Inv, Core, TablesOK
<1>3. Pending' = Live(nitems)
  <2>1. Pending' = Live(items)'
    BY <1>1 DEF Pending, Inv, Core, TablesOK, Live, Slots
  <2> QED BY <1>1, <2>1 DEF Live
<1>4. used' = nused' + Cardinality(Pending')
  <2>1. used = nused + 0 /\ nused = Cardinality(Live(nitems)) /\ nused \in Nat
    BY <1>2, FS_EmptySet DEF ExactInv, Inv, Core, CountInv, TablesOK
  <2> QED BY <1>1, <1>3, <2>1
<1>5. ASSUME NEW g \in Handles, heap'[g] # FREE
      PROVE  \E q \in Pending' : vals'[q] = g
  <2>1. heap[g] # FREE
    BY <1>1, <1>5
  <2>2. PICK q \in Live(nitems) : nvals[q] = g
    BY <1>2, <2>1 DEF ExactInv
  <2> QED BY <1>1, <1>3, <2>2
<1> QED BY <1>1, <1>4, <1>5 DEF ExactInv

\* A step that leaves the tables, the blocks and the count alone.
LEMMA SameExact ==
  ASSUME ExactInv, UNCHANGED <<table, new_ht, cursor, heap, pc>>
  PROVE  ExactInv'
BY DEF ExactInv, table, new_ht, Pending, Live

\* Every step keeps the exact count.
LEMMA StepExact ==
  ASSUME Shaky = {}, ExactInv, Inv, Inv', [Next]_vars
  PROVE  ExactInv'
<1>1. ASSUME NEW k \in Keys, NEW h \in Handles, htable_set(k, h) PROVE ExactInv'
  <2>0. pc = "idle" /\ "STR_T" \in Types
    BY <1>1, HTableAssumption DEF htable_set
  <2>1. CASE htable_insert(k, "STR_T", h)
    BY <2>0, <2>1, InsertExact
  <2>2. CASE htable_update_str(k, h)
    BY <2>0, <2>2, UpdateExact
  <2>3. CASE UNCHANGED <<table, new_ht, cursor, heap, pc>>
    BY <2>3, SameExact
  <2> QED BY <1>1, <2>1, <2>2, <2>3 DEF htable_set
<1>2. ASSUME NEW k \in Keys, NEW h \in Handles, NEW type \in Types \ {"STR_T"},
             htable_create(k, type, h)
      PROVE  ExactInv'
  BY <1>2, InsertExact DEF htable_create
<1>3. ASSUME NEW k \in Keys, htable_del(k) PROVE ExactInv'
  BY <1>3, DeleteExact, SameExact
<1>4. ASSUME NEW k \in Keys, htable_get(k) PROVE ExactInv'
  BY <1>4, SameExact DEF htable_get
<1>5. CASE item_swap
  BY <1>5, SwapExact
<1>6. CASE FinishResize
  BY <1>6, FinishExact
<1>7. CASE UNCHANGED vars
  BY <1>7, SameExact DEF vars
<1> QED BY <1>1, <1>2, <1>3, <1>4, <1>5, <1>6, <1>7 DEF Next

-----------------------------------------------------------------------------
(* What follows *)

\* The exact count holds in every reachable state.
LEMMA ExactInvariant ==
  ASSUME Shaky = {}
  PROVE  Spec => [](Inv /\ ExactInv)
<1>1. Init => Inv /\ ExactInv
  BY InitCore, InitSize, InitFind, InitOwn, ReplyInit, InitExact DEF Inv
<1>2. Inv /\ [Next]_vars => Inv'
  BY StepCore, StepSize, StepFind, StepOwn, ReplyStep DEF Inv
<1>3. Inv /\ ExactInv /\ [Next]_vars => (Inv /\ ExactInv)'
  BY <1>2, StepExact
<1> QED BY <1>1, <1>3, PTL DEF Spec

\* Every step is a step of the map, or is not seen.
LEMMA StepExactMap ==
  ASSUME Shaky = {}, ExactInv, Inv, Inv', [Next]_vars
  PROVE  Map!Next \/ UNCHANGED <<AbstractStore, used, reply>>
<1>1. \A k \in Keys : pc = "idle" => ~NoRoom(items, size, k)
  BY IdleRoom
<1>2. ASSUME NEW k \in Keys, NEW h \in Handles, htable_set(k, h) PROVE Map!Next
  BY <1>1, <1>2, SetMap
<1>3. ASSUME NEW k \in Keys, NEW h \in Handles, NEW type \in Types \ {"STR_T"},
             htable_create(k, type, h)
      PROVE  Map!Next
  BY <1>1, <1>3, CreateMap
<1>4. ASSUME NEW k \in Keys, htable_del(k) PROVE Map!Next
  BY <1>4, DelMap
<1>5. ASSUME NEW k \in Keys, htable_get(k) PROVE Map!Next
  BY <1>5, GetMap
<1>6. CASE item_swap
  <2>1. AbstractStore' = AbstractStore
    BY <1>6, SwapMap, RehashRoom
  <2> QED BY <1>6, <2>1 DEF item_swap
<1>7. CASE FinishResize
  <2>1. AbstractStore' = AbstractStore
    BY <1>7, FinishMap
  <2> QED BY <1>7, <2>1 DEF FinishResize
<1>8. CASE UNCHANGED vars
  BY <1>8, SameMap DEF vars, table, new_ht
<1> QED BY <1>2, <1>3, <1>4, <1>5, <1>6, <1>7, <1>8 DEF Next

\* Where no key is of Shaky, the hash table is a map: every answer is the map's,
\* and no rehash is seen.
THEOREM ImplementsMap ==
  ASSUME Shaky = {}
  PROVE  Spec => IsMap
<1>1. Inv /\ ExactInv /\ Inv' /\ [Next]_vars => [Map!Next]_(Map!vars)
  BY StepExactMap DEF Map!vars
<1>2. Spec => Map!Spec
  BY <1>1, InitMap, ExactInvariant, PTL DEF Spec, Map!Spec
<1> QED BY <1>2 DEF IsMap

\* Where no key is of Shaky, every allocated value block is owned by an item.
THEOREM NothingLeaks ==
  ASSUME Shaky = {}
  PROVE  Spec => []NoLeak
<1>1. ExactInv => NoLeak
  BY DEF ExactInv, NoLeak, Pending
<1> QED BY <1>1, ExactInvariant, PTL

\* Where no key is of Shaky, htable_hkeyvals stops with every key of the table
\* in its result.
THEOREM EveryKeyListed ==
  ASSUME Shaky = {}
  PROVE  Spec => []EnumerationComplete
<1>1. Inv /\ ExactInv => EnumerationComplete
  <2> SUFFICES ASSUME Inv, ExactInv, pc = "idle"
               PROVE  hkeyvals = {items[p] : p \in Live(items)}
    BY DEF EnumerationComplete
  <2> DEFINE Seen(i) == {p \in Live(items) : p <= i}
             Stops == {i \in Slots(size) : Cardinality(Seen(i)) = used}
             c == CHOOSE i \in Stops : \A j \in Stops : i <= j
  <2>1. /\ size \in Nat \ {0} /\ Live(items) \subseteq Slots(size)
        /\ IsFiniteSet(Live(items)) /\ used = Cardinality(Live(items))
    BY LiveFinite, IdleExact DEF Inv, Core, TablesOK
  <2>2. size - 1 \in Stops
    <3>1. Seen(size - 1) = Live(items)
      BY <2>1 DEF Slots
    <3> QED BY <2>1, <3>1 DEF Slots
  <2>3. Stops \subseteq Nat
    BY DEF Slots
  <2> HIDE DEF Stops
  <2>4. PICK i \in Stops : \A j \in Stops : ~(<<j, i>> \in OpToRel(<, Nat))
    BY <2>2, <2>3, NatLessThanWellFounded, WFMin
  <2>5. \A j \in Stops : i <= j
    <3>1. \A j \in Stops : ~(j < i)
      BY <2>3, <2>4 DEF OpToRel
    <3> QED BY <2>3, <3>1
  <2>6. c \in Stops
    BY <2>5
  <2>7. Seen(c) = Live(items)
    <3>1. Cardinality(Seen(c)) = Cardinality(Live(items))
      BY <2>1, <2>6 DEF Stops
    <3> QED BY <2>1, <3>1, FS_Subset
  <2>8. hkeyvals = {items[p] : p \in Seen(c)}
    BY <2>2 DEF hkeyvals, Stops
  <2> QED BY <2>7, <2>8
<1> QED BY <1>1, ExactInvariant, PTL
=============================================================================
