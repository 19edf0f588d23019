--------------------------- MODULE OpenSet_proofs ---------------------------
(***************************************************************************)
(* Theorems about OpenSet that hold for every set of strings, every pair   *)
(* of hash functions and every bound on growth: probe sequences need not   *)
(* cover the table.                                                        *)
(*                                                                         *)
(* Core is the invariant of HTable_proofs for set.c: the types, a load     *)
(* that a rehash can take, and a count of what is stored or on its way. A  *)
(* rehash of a set may skip copies too, so that the count is an upper      *)
(* bound from there on. On top of it, PathInv says of every stored string  *)
(* that no unused slot comes before it on its probe path.                  *)
(***************************************************************************)
EXTENDS OpenSet, Probing_proofs

-----------------------------------------------------------------------------
(* The invariant *)

\* Between two operations there is one table, under the load limit.
IdleInv ==
  /\ cursor = 0 /\ nsize = 0 /\ nused = 0 /\ nmembers = EmptySlots(0)
  /\ load(used, size) <= 70

\* While a rehash runs, the new table could take all that "used" counts.
RehashInv == nsize >= HT_BASE_SIZE /\ load(used, nsize) <= 70

\* set_resize is idle or in its loop, never inside itself.
ResizeInv ==
  /\ pc \in {"idle", "rehash"}
  /\ pc = "idle" => IdleInv
  /\ pc = "rehash" => RehashInv

\* Every copy is counted: in the old table, in the new one, or on its way.
CountInv ==
  /\ Cardinality(Live(members)) <= used
  /\ Cardinality(Live(nmembers)) = nused
  /\ nused + Cardinality(Pending) <= Cardinality(Live(members))

Core == TypeOK /\ ResizeInv /\ CountInv

\* What set_add, set_rem and set_ismember answer has the type of an answer.
LEMMA AnswerType ==
  ASSUME NEW op \in {"add", "rem", "ismember"}, NEW k \in Keys, NEW ok \in BOOLEAN,
         Answer(op, k, ok)
  PROVE  reply' \in [op : {"none", "add", "rem", "ismember"}, key : Keys \cup {NULL},
                     ok : BOOLEAN]
BY DEF Answer

-----------------------------------------------------------------------------
(* Resizing *)

\* What the first part of set_resize leaves, when it was called or not.
ResizeStarted ==
  /\ nsize' \in Nat /\ nused' = 0 /\ cursor' = 0
  /\ nmembers' = EmptySlots(nsize')
  /\ ResizeInv'

\* set_resize up to its loop, when no table of n slots or more is overloaded.
LEMMA StartResizeInv ==
  ASSUME NEW n \in Nat, n >= HT_BASE_SIZE, StartResize(n),
         \A t \in Nat : n <= t => load(used', t) <= 70
  PROVE  ResizeStarted
<1>1. n \in 2 .. MaxRequest
  BY HashAssumption DEF StartResize, HT_BASE_SIZE
<1>2. nsize' \in Nat /\ n <= nsize'
  BY <1>1, NextPrime DEF StartResize
<1>3. RehashInv'
  BY <1>1, <1>2 DEF RehashInv, HT_BASE_SIZE
<1> QED BY <1>2, <1>3 DEF StartResize, ResizeStarted, ResizeInv

\* An operation that calls no resize.
LEMMA NoResizeInv ==
  ASSUME NoResize, pc = "idle", IdleInv, size' = size,
         load(used', size) <= 70
  PROVE  ResizeStarted
BY DEF NoResize, new_st, IdleInv, ResizeStarted, ResizeInv

\* set_resize_up after an addition.
LEMMA ResizeUpInv ==
  ASSUME set_resize_up, TypeOK, pc = "idle", IdleInv,
         size' = size, used' = used + 1
  PROVE  ResizeStarted
<1>0. /\ size \in Nat \ {0, 1} /\ used \in Nat
      /\ load(used, size) <= 70 /\ load(used', size) \in Nat
  BY LoadRange DEF TypeOK, IdleInv
<1>1. CASE load(used', size) > 70
  <2>1. StartResize(size * 2)
    BY <1>0, <1>1 DEF set_resize_up, set_resize, HT_BASE_SIZE
  <2>2. \A t \in Nat : size * 2 <= t => load(used', t) <= 70
    BY <1>0, LoadGrow
  <2> QED BY <1>0, <2>1, <2>2, StartResizeInv DEF HT_BASE_SIZE
<1>2. CASE ~(load(used', size) > 70)
  BY <1>0, <1>2, NoResizeInv DEF set_resize_up
<1> QED BY <1>1, <1>2

\* set_resize_down after a removal.
LEMMA ResizeDownInv ==
  ASSUME set_resize_down, TypeOK, pc = "idle", IdleInv,
         size' = size, used' \in Nat, used' <= used
  PROVE  ResizeStarted
<1>0. /\ size \in Nat \ {0, 1} /\ used \in Nat
      /\ load(used', size) \in Nat /\ load(used', size) <= 70
  BY LoadRange, LoadMonotone DEF TypeOK, IdleInv
<1>1. size \div 2 \in Nat
  BY <1>0, Half
<1>2. CASE load(used', size) < 10 /\ size \div 2 >= HT_BASE_SIZE
  <2>1. StartResize(size \div 2)
    BY <1>1, <1>2 DEF set_resize_down, set_resize, HT_BASE_SIZE
  <2>2. \A t \in Nat : size \div 2 <= t => load(used', t) <= 70
    BY <1>0, <1>1, <1>2, LoadShrink DEF HT_BASE_SIZE
  <2> QED BY <1>1, <1>2, <2>1, <2>2, StartResizeInv
<1>3. CASE ~(load(used', size) < 10 /\ size \div 2 >= HT_BASE_SIZE)
  <2>1. NoResize
    BY <1>1, <1>3 DEF set_resize_down, set_resize, HT_BASE_SIZE
  <2> QED BY <1>0, <2>1, NoResizeInv
<1> QED BY <1>2, <1>3

-----------------------------------------------------------------------------
(* The invariant is inductive *)

\* set_init establishes the invariant.
LEMMA InitCore == Init => Core
<1> SUFFICES ASSUME Init PROVE Core
  OBVIOUS
<1>1. size \in Nat \ {0, 1}
  <2>1. HT_BASE_SIZE \in 2 .. MaxRequest
    BY HashAssumption DEF HT_BASE_SIZE
  <2> QED BY <2>1, NextPrime DEF Init, HT_BASE_SIZE
<1>2. /\ members = EmptySlots(size) /\ used = 0
      /\ nmembers = EmptySlots(0) /\ nused = 0 /\ nsize = 0
  BY DEF Init
<1>3. TypeOK
  BY <1>1, <1>2, EmptyTable, 0 \in Nat DEF Init, TypeOK
<1>4. load(used, size) <= 70
  BY <1>1, <1>2, LoadUpper70
<1>5. ResizeInv
  BY <1>2, <1>4 DEF Init, ResizeInv, IdleInv
<1>6. Live(members) = {} /\ Live(nmembers) = {} /\ Pending = {}
  BY <1>1, <1>2, EmptyTable DEF Pending
<1>7. CountInv
  BY <1>2, <1>6, FS_EmptySet DEF CountInv
<1> QED BY <1>3, <1>5, <1>7 DEF Core

\* The invariant after an operation, from what it does to the table and the
\* count, and from what set_resize makes of the rest.
LEMMA AfterOperation ==
  ASSUME ResizeStarted, size \in Nat \ {0, 1}, size' = size, used' \in Nat,
         members' \in [Slots(size) -> Keys \cup {NULL, DELETED}],
         NEW op \in {"add", "rem", "ismember"}, NEW k \in Keys, NEW ok \in BOOLEAN,
         Answer(op, k, ok), Cardinality(Live(members')) <= used'
  PROVE  Core'
<1>1. nmembers' \in [Slots(nsize') -> {NULL}]
  BY EmptyTable DEF ResizeStarted
<1>2. TypeOK'
  BY <1>1, AnswerType DEF TypeOK, ResizeStarted, ResizeInv
<1>3. Live(members)' \subseteq Slots(size) /\ Cardinality(Live(members)') \in Nat
  BY LiveFinite
<1>4. Pending' = Live(members)'
  BY <1>3 DEF Pending, ResizeStarted, Slots
<1>5. Cardinality(Live(nmembers)') = 0
  BY EmptyTable DEF ResizeStarted
<1>6. CountInv'
  BY <1>3, <1>4, <1>5 DEF CountInv, ResizeStarted
<1> QED BY <1>2, <1>6 DEF Core, ResizeStarted

\* An operation that changes nothing but its answer.
LEMMA AnswerCore ==
  ASSUME Core, UNCHANGED <<set, new_st, cursor, pc>>,
         NEW op \in {"add", "rem", "ismember"}, NEW k \in Keys, NEW ok \in BOOLEAN,
         Answer(op, k, ok)
  PROVE  Core'
<1>1. TypeOK'
  BY AnswerType DEF Core, TypeOK, set, new_st
<1>2. ResizeInv' /\ CountInv'
  BY DEF Core, set, new_st, ResizeInv, IdleInv, RehashInv, CountInv, Pending
<1> QED BY <1>1, <1>2 DEF Core

\* set_add preserves the invariant.
LEMMA AddCore ==
  ASSUME Core, NEW k \in Keys, set_add(k)
  PROVE  Core'
<1>0. /\ size \in Nat \ {0, 1} /\ used \in Nat /\ ResizeInv /\ CountInv
      /\ members \in [Slots(size) -> Keys \cup {NULL, DELETED}]
  BY DEF Core, TypeOK
<1>1. ASSUME NEW p \in Slots(size), AddsAt(members, size, k, p), StoreMember(p, k),
             set_resize_up, Answer("add", k, TRUE), pc = "idle"
      PROVE  Core'
  <2>0. /\ members[p] \notin Keys /\ members' = [members EXCEPT ![p] = k]
        /\ used' = used + 1 /\ size' = size
    BY <1>1 DEF AddsAt, StoreMember
  <2>1. ResizeStarted
    BY <1>1, <2>0, ResizeUpInv DEF Core, ResizeInv
  <2>2. Cardinality(Live(members')) = Cardinality(Live(members)) + 1
    <3>1. Cardinality(Live([members EXCEPT ![p] = k])) = Cardinality(Live(members)) + 1
      BY <1>0, <2>0, LiveAdd
    <3> QED BY <2>0, <3>1
  <2>3. Cardinality(Live(members)) \in Nat /\ Cardinality(Live(members)) <= used
    BY <1>0, LiveFinite DEF CountInv
  <2>4. Cardinality(Live(members')) <= used'
    BY <1>0, <2>0, <2>2, <2>3
  <2>5. members' \in [Slots(size) -> Keys \cup {NULL, DELETED}] /\ used' \in Nat
    BY <1>0, <2>0
  <2> QED BY <1>0, <1>1, <2>0, <2>1, <2>4, <2>5, AfterOperation
<1>2. CASE UNCHANGED <<set, new_st, cursor, pc>> /\ Answer("add", k, FALSE)
  BY <1>2, AnswerCore
<1> QED BY <1>1, <1>2 DEF set_add

\* set_rem preserves the invariant.
LEMMA RemCore ==
  ASSUME Core, NEW k \in Keys, set_rem(k)
  PROVE  Core'
<1>0. /\ size \in Nat \ {0, 1} /\ used \in Nat /\ ResizeInv /\ CountInv
      /\ members \in [Slots(size) -> Keys \cup {NULL, DELETED}]
  BY DEF Core, TypeOK
<1>1. ASSUME NEW p \in Slots(size), FoundAt(members, size, k, p), DropMember(p),
             set_resize_down, Answer("rem", k, TRUE), pc = "idle"
      PROVE  Core'
  <2>0. /\ members[p] \in Keys /\ members' = [members EXCEPT ![p] = DELETED]
        /\ used' = used - 1 /\ size' = size
    BY <1>1 DEF FoundAt, DropMember
  <2>1. members' \in [Slots(size) -> Keys \cup {NULL, DELETED}]
    BY <1>0, <2>0
  <2>2. /\ Cardinality(Live(members')) = Cardinality(Live(members)) - 1
        /\ Cardinality(Live(members')) \in Nat
    <3>1. DELETED \notin Keys
      BY SlotAssumption
    <3>2. Cardinality(Live(members')) = Cardinality(Live(members)) - 1
      <4>1. Cardinality(Live([members EXCEPT ![p] = DELETED]))
              = Cardinality(Live(members)) - 1
        BY <1>0, <2>0, <3>1, LiveRemove
      <4> QED BY <2>0, <4>1
    <3> QED BY <1>0, <2>1, <3>2, LiveFinite
  <2>3. Cardinality(Live(members)) \in Nat /\ Cardinality(Live(members)) <= used
    BY <1>0, LiveFinite DEF CountInv
  <2>4. used' \in Nat /\ used' <= used /\ Cardinality(Live(members')) <= used'
    BY <1>0, <2>0, <2>2, <2>3
  <2>5. ResizeStarted
    BY <1>1, <2>0, <2>4, ResizeDownInv DEF Core, ResizeInv
  <2> QED BY <1>0, <1>1, <2>0, <2>1, <2>4, <2>5, AfterOperation
<1>2. CASE UNCHANGED <<set, new_st, cursor, pc>> /\ Answer("rem", k, FALSE)
  BY <1>2, AnswerCore
<1> QED BY <1>1, <1>2 DEF set_rem

\* One iteration of the rehash preserves the invariant, also when it skips a
\* copy or a member without room.
LEMMA MoveCore ==
  ASSUME Core, MoveMember
  PROVE  Core'
<1> USE DEF Core, TypeOK
<1>0. /\ pc = "rehash" /\ cursor \in Slots(size) /\ cursor' = cursor + 1
      /\ UNCHANGED <<size, used, members, reply>> /\ RehashInv /\ cursor' \in 0 .. size'
  BY DEF MoveMember, ResizeInv, Slots, set
<1>1. Pending' = Pending \ {cursor}
  BY <1>0 DEF Pending, Live, Slots
<1>2. /\ IsFiniteSet(Pending) /\ Cardinality(Pending) \in Nat
      /\ Cardinality(Pending') \in Nat /\ Cardinality(Pending') <= Cardinality(Pending)
  <2>1. Pending \subseteq Live(members)
    BY DEF Pending
  <2>2. IsFiniteSet(Pending) /\ Pending' \subseteq Pending
    BY <1>1, <2>1, LiveFinite, FS_Subset
  <2> QED BY <2>2, FS_Subset, FS_CardinalityType
<1>3. /\ Cardinality(Live(members)) \in Nat /\ Cardinality(Live(members)) <= used
      /\ Cardinality(Live(members)') = Cardinality(Live(members))
  BY <1>0, LiveFinite DEF CountInv
<1>4. ASSUME members[cursor] \in Keys, NEW p \in Slots(nsize), nmembers[p] \notin Keys,
             nmembers' = [nmembers EXCEPT ![p] = members[cursor]],
             nused' = nused + 1, nsize' = nsize,
             pc' = IF load(nused', nsize) > 70 THEN "nested" ELSE "rehash"
      PROVE  Core'
  <2>1. cursor \in Pending
    BY <1>0, <1>4 DEF Pending, Live
  <2>2. Cardinality(Pending') = Cardinality(Pending) - 1
    BY <1>1, <1>2, <2>1, FS_RemoveElement
  <2>3. Cardinality(Live(nmembers)') = nused'
    <3>1. PICK k \in Keys : k = members[cursor]
      BY <1>4
    <3>2. /\ nsize \in Nat /\ nmembers \in [Slots(nsize) -> Keys \cup {NULL}]
          /\ p \in Slots(nsize) /\ nmembers[p] \notin Keys
          /\ nmembers' = [nmembers EXCEPT ![p] = k]
      BY <1>4, <3>1
    <3>3. nused' = nused + 1 /\ Cardinality(Live(nmembers)) = nused
      BY <1>4 DEF CountInv
    <3> HIDE DEF Core
    <3>4. Cardinality(Live(nmembers')) = Cardinality(Live(nmembers)) + 1
      BY <3>2, LiveAdd
    <3> QED BY <3>3, <3>4
  <2>4. nused' + Cardinality(Pending') <= Cardinality(Live(members)')
    BY <1>2, <1>3, <1>4, <2>2 DEF CountInv
  <2>5. nused' \in Nat /\ nused' <= used /\ nsize \in Nat \ {0}
    BY <1>0, <1>2, <1>3, <1>4, <2>4 DEF RehashInv, HT_BASE_SIZE
  <2>6. load(nused', nsize) <= 70 /\ load(nused', nsize) \in Nat
    BY <1>0, <2>5, LoadMonotone, LoadRange DEF RehashInv
  <2>7. pc' = "rehash"
    BY <1>4, <2>6
  <2>8. RehashInv'
    BY <1>0, <1>4 DEF RehashInv
  <2>9. nmembers' \in [Slots(nsize) -> Keys \cup {NULL}]
    BY <1>0, <1>4
  <2> QED BY <1>0, <1>3, <1>4, <2>3, <2>4, <2>5, <2>7, <2>8, <2>9 DEF ResizeInv, CountInv
<1>5. CASE UNCHANGED <<new_st, pc>>
  <2>1. nused + Cardinality(Pending') <= Cardinality(Live(members)')
    BY <1>2, <1>3 DEF CountInv
  <2> QED BY <1>0, <1>3, <1>5, <2>1 DEF new_st, ResizeInv, RehashInv, CountInv
<1> QED BY <1>4, <1>5 DEF MoveMember, AddsAt

\* The end of a rehash preserves the invariant: the new table is the table.
LEMMA FinishCore ==
  ASSUME Core, FinishResize
  PROVE  Core'
<1> USE DEF Core, TypeOK
<1>1. /\ size' = nsize /\ members' = nmembers /\ used' = used /\ reply' = reply
      /\ nsize' = 0 /\ nused' = 0 /\ cursor' = 0 /\ pc' = "idle"
      /\ nmembers' = EmptySlots(0)
  BY DEF FinishResize
<1>2. RehashInv
  BY DEF FinishResize, ResizeInv
<1>3. TypeOK'
  BY <1>1, <1>2, EmptyTable DEF RehashInv, HT_BASE_SIZE
<1>4. ResizeInv'
  BY <1>1, <1>2 DEF ResizeInv, IdleInv, RehashInv
<1>5. Pending' = Live(members)' /\ Cardinality(Live(nmembers)') = 0
  <2>1. Live(nmembers) \subseteq Slots(nsize)
    BY LiveFinite
  <2>2. Pending' = Live(members)'
    BY <1>1, <2>1 DEF Pending, Slots
  <2>3. Live(nmembers)' = Live(EmptySlots(0))
    BY <1>1 DEF Live
  <2> QED BY <2>2, <2>3, EmptyTable
<1>6. /\ Cardinality(Live(nmembers)) \in Nat /\ Cardinality(Live(members)) \in Nat
      /\ Cardinality(Pending) \in Nat
  <2>1. Pending \subseteq Live(members)
    BY DEF Pending
  <2> QED BY <2>1, LiveFinite, FS_Subset, FS_CardinalityType
<1>7. CountInv'
  BY <1>1, <1>5, <1>6 DEF CountInv
<1> QED BY <1>3, <1>4, <1>7

\* Every step preserves the invariant.
LEMMA StepCore == Core /\ [Next]_vars => Core'
<1> SUFFICES ASSUME Core, [Next]_vars PROVE Core'
  OBVIOUS
<1>1. ASSUME NEW k \in Keys, set_add(k) \/ set_rem(k) PROVE Core'
  BY <1>1, AddCore, RemCore
<1>2. ASSUME NEW k \in Keys, set_ismember(k) PROVE Core'
  <2>1. (~Missing(members, size, k)) \in BOOLEAN
    BY DEF Missing
  <2> QED BY <1>2, <2>1, AnswerCore DEF set_ismember
<1>3. CASE MoveMember
  BY <1>3, MoveCore
<1>4. CASE FinishResize
  BY <1>4, FinishCore
<1>5. CASE UNCHANGED vars
  BY <1>5 DEF vars, set, new_st, Core, TypeOK, ResizeInv, IdleInv, RehashInv,
              CountInv, Pending
<1> QED BY <1>1, <1>2, <1>3, <1>4, <1>5 DEF Next

\* The invariant holds in every reachable state.
LEMMA CoreInvariant == Spec => []Core
<1> QED BY InitCore, StepCore, PTL DEF Spec

\* Every variable keeps its type, and Set.used never goes below 0.
THEOREM TypeCorrect == Spec => []TypeOK
<1>1. Core => TypeOK
  BY DEF Core
<1> QED BY <1>1, CoreInvariant, PTL

\* Set.used is never below the number of stored copies: htable_srem does not
\* delete the key of a set that has members left.
THEOREM CountNeverShort == Spec => []CountBound
<1>1. Core => CountBound
  BY DEF Core, CountInv, CountBound
<1> QED BY <1>1, CoreInvariant, PTL

\* The additions of a rehash never start a rehash of the new table.
THEOREM ResizeNeverNests == Spec => []NeverNested
<1>1. Core => NeverNested
  BY DEF Core, ResizeInv, NeverNested
<1> QED BY <1>1, CoreInvariant, PTL

-----------------------------------------------------------------------------
(* Probe paths *)

\* set_add stores its string on its path.
LEMMA AddsOnPath ==
  ASSUME NEW t, NEW s \in Nat, NEW k \in Keys, NEW p \in Slots(s), AddsAt(t, s, k, p)
  PROVE  PathTo(t, s, k, p)
<1>1. PICK j \in Slots(s) :
        /\ p = hash_func(k, s, j)
        /\ \A m \in Slots(j) : t[hash_func(k, s, m)] \in Keys \ {k}
  BY DEF AddsAt
<1> QED BY <1>1, SlotAssumption DEF PathTo

\* A string is added to a slot that is no tombstone only where no copy of it is
\* stored.
LEMMA AddsNew ==
  ASSUME NEW s \in Nat, NEW t \in [Slots(s) -> Keys \cup {NULL, DELETED}], OnPath(t, s),
         NEW k \in Keys, NEW p \in Slots(s), AddsAt(t, s, k, p), t[p] # DELETED
  PROVE  \A q \in Live(t) : t[q] # k
<1> SUFFICES ASSUME NEW q \in Live(t), t[q] = k PROVE FALSE
  OBVIOUS
<1>1. PICK i \in Slots(s) :
        /\ p = hash_func(k, s, i) /\ t[p] \notin Keys
        /\ \A m \in Slots(i) : t[hash_func(k, s, m)] \in Keys \ {k}
  BY DEF AddsAt
<1>2. PICK j \in Slots(s) :
        /\ q = hash_func(k, s, j)
        /\ \A m \in Slots(j) : t[hash_func(k, s, m)] # NULL
  BY DEF OnPath, PathTo
<1>3. t[p] = NULL
  BY <1>1
<1>4. ~(j < i)
  BY <1>1, <1>2 DEF Slots
<1>5. ~(i < j)
  BY <1>1, <1>2, <1>3 DEF Slots
<1>6. i # j
  BY <1>1, <1>2
<1> QED BY <1>4, <1>5, <1>6 DEF Slots


\* In both tables every string is on its path, and the new one merges copies.
PathInv ==
  /\ OnPath(members, size)
  /\ OnPath(nmembers, nsize)
  /\ RehashMerges

\* An empty table has nothing to merge.
LEMMA NewTableEmpty ==
  ASSUME nsize \in Nat, nmembers = EmptySlots(nsize)
  PROVE  OnPath(nmembers, nsize) /\ RehashMerges
BY EmptyOnPath, EmptyTable DEF RehashMerges

\* An operation leaves the new table alone or finds it fresh from calloc.
LEMMA ResizePath ==
  ASSUME Core', PathInv, set_resize_up \/ set_resize_down \/ UNCHANGED new_st
  PROVE  OnPath(nmembers, nsize)' /\ RehashMerges'
<1>1. nsize' \in Nat
  BY DEF Core, TypeOK
<1>2. UNCHANGED new_st \/ nmembers' = EmptySlots(nsize')
  BY DEF set_resize_up, set_resize_down, set_resize, NoResize, StartResize
<1>3. CASE UNCHANGED new_st
  BY <1>3 DEF PathInv, new_st, OnPath, PathTo, RehashMerges, Live
<1>4. CASE nmembers' = EmptySlots(nsize')
  <2>1. OnPath(nmembers', nsize')
    BY <1>1, <1>4, EmptyOnPath
  <2>2. Live(nmembers') = {}
    BY <1>1, <1>4, EmptyTable
  <2> QED BY <2>1, <2>2 DEF OnPath, RehashMerges, Live
<1> QED BY <1>2, <1>3, <1>4

\* set_init establishes the paths.
LEMMA InitPath == Init => PathInv
<1> SUFFICES ASSUME Init PROVE PathInv
  OBVIOUS
<1>1. size \in Nat
  BY InitCore DEF Core, TypeOK
<1>2. OnPath(members, size)
  BY <1>1, EmptyOnPath DEF Init
<1>3. OnPath(nmembers, nsize) /\ RehashMerges
  BY NewTableEmpty DEF Init
<1> QED BY <1>2, <1>3 DEF PathInv

\* A step that changes no table keeps the paths.
LEMMA SamePath ==
  ASSUME PathInv, UNCHANGED <<set, new_st>>
  PROVE  PathInv'
BY DEF PathInv, set, new_st, OnPath, PathTo, RehashMerges, Live

\* set_add and set_rem keep the paths.
LEMMA OperationPath ==
  ASSUME Core, Core', PathInv, NEW k \in Keys, set_add(k) \/ set_rem(k)
  PROVE  PathInv'
<1>0. /\ size \in Nat \ {0} /\ OnPath(members, size)
      /\ members \in [Slots(size) -> Keys \cup {NULL, DELETED}]
  BY DEF Core, TypeOK, PathInv
<1>1. CASE UNCHANGED <<set, new_st, cursor, pc>>
  BY <1>1, SamePath
<1>2. ASSUME NEW p \in Slots(size), AddsAt(members, size, k, p), StoreMember(p, k),
             set_resize_up
      PROVE  PathInv'
  <2>1. PathTo(members, size, k, p)
    BY <1>0, <1>2, AddsOnPath
  <2>2. OnPath([members EXCEPT ![p] = k], size)
    BY <1>0, <2>1, StoreOnPath, SlotAssumption
  <2>3. members' = [members EXCEPT ![p] = k] /\ size' = size
    BY <1>2 DEF StoreMember
  <2> QED BY <1>2, <2>2, <2>3, ResizePath DEF PathInv
<1>3. ASSUME NEW p \in Slots(size), DropMember(p), set_resize_down
      PROVE  PathInv'
  <2>1. OnPath([members EXCEPT ![p] = DELETED], size)
    BY <1>0, StoreOnPath, SlotAssumption
  <2>2. members' = [members EXCEPT ![p] = DELETED] /\ size' = size
    BY <1>3 DEF DropMember
  <2> QED BY <1>3, <2>1, <2>2, ResizePath DEF PathInv
<1> QED BY <1>1, <1>2, <1>3 DEF set_add, set_rem

\* One iteration of the rehash keeps the paths and stores no second copy.
LEMMA MovePath ==
  ASSUME Core, PathInv, MoveMember
  PROVE  PathInv'
<1>0. /\ nsize \in Nat /\ nmembers \in [Slots(nsize) -> Keys \cup {NULL}]
      /\ OnPath(nmembers, nsize) /\ OnPath(members, size) /\ RehashMerges
      /\ members' = members /\ size' = size
  BY DEF Core, TypeOK, PathInv, MoveMember, set
<1>1. CASE UNCHANGED new_st
  BY <1>0, <1>1, SamePath DEF MoveMember
<1>2. ASSUME NEW k \in Keys, NEW p \in Slots(nsize), AddsAt(nmembers, nsize, k, p),
             nmembers' = [nmembers EXCEPT ![p] = k], nsize' = nsize
      PROVE  PathInv'
  <2>0. nsize \in Nat \ {0}
    BY <1>0 DEF Slots
  <2>1. PathTo(nmembers, nsize, k, p)
    BY <1>0, <1>2, AddsOnPath
  <2>2. OnPath([nmembers EXCEPT ![p] = k], nsize)
    BY <1>0, <2>0, <2>1, StoreOnPath, SlotAssumption
  <2>3. \A q \in Live(nmembers) : nmembers[q] # k
    <3>1. nmembers[p] # DELETED /\ nmembers \in [Slots(nsize) -> Keys \cup {NULL, DELETED}]
      BY <1>0, SlotAssumption
    <3> QED BY <1>0, <1>2, <3>1, AddsNew
  <2>4. RehashMerges'
    BY <1>0, <1>2, <2>3 DEF RehashMerges, Live
  <2> QED BY <1>0, <1>2, <2>2, <2>4 DEF PathInv
<1> QED BY <1>1, <1>2 DEF MoveMember

\* The end of a rehash keeps the paths.
LEMMA FinishPath ==
  ASSUME PathInv, FinishResize
  PROVE  PathInv'
<1>1. OnPath(members, size)'
  BY DEF PathInv, FinishResize
<1>2. nsize' = 0 /\ nmembers' = EmptySlots(0)
  BY DEF FinishResize
<1>3. OnPath(nmembers', nsize')
  BY <1>2, EmptyOnPath
<1>4. Live(nmembers') = {}
  BY <1>2, EmptyTable
<1> QED BY <1>1, <1>3, <1>4 DEF PathInv, RehashMerges, Live

\* Every step keeps the paths.
LEMMA StepPath ==
  ASSUME Core, PathInv, [Next]_vars
  PROVE  PathInv'
<1>1. ASSUME NEW k \in Keys, set_add(k) \/ set_rem(k) PROVE PathInv'
  BY <1>1, StepCore, OperationPath
<1>2. ASSUME NEW k \in Keys, set_ismember(k) PROVE PathInv'
  BY <1>2, SamePath DEF set_ismember
<1>3. CASE MoveMember
  BY <1>3, MovePath
<1>4. CASE FinishResize
  BY <1>4, FinishPath
<1>5. CASE UNCHANGED vars
  BY <1>5, SamePath DEF vars
<1> QED BY <1>1, <1>2, <1>3, <1>4, <1>5 DEF Next

\* Both invariants hold in every reachable state.
LEMMA PathInvariant == Spec => [](Core /\ PathInv)
<1>1. Core /\ PathInv /\ [Next]_vars => (Core /\ PathInv)'
  BY StepCore, StepPath
<1> QED BY <1>1, InitCore, InitPath, PTL DEF Spec

\* A rehash leaves at most one copy of every string.
THEOREM ResizeMerges == Spec => []RehashMerges
<1>1. PathInv => RehashMerges
  BY DEF PathInv
<1> QED BY <1>1, PathInvariant, PTL

\* No stored string is hidden: whatever was deleted or moved before it,
\* set_ismember finds it or a copy of it.
THEOREM NothingHidden == Spec => []Reachable
<1>1. Core /\ PathInv => Reachable
  <2> SUFFICES ASSUME Core, PathInv PROVE Reachable
    OBVIOUS
  <2>1. ASSUME NEW p \in Live(members) PROVE ~Missing(members, size, members[p])
    BY OnPathFound DEF Core, TypeOK, PathInv
  <2>2. ASSUME NEW p \in Live(nmembers) PROVE ~Missing(nmembers, nsize, nmembers[p])
    <3>1. nsize \in Nat \ {0}
      BY DEF Core, TypeOK, Live, Slots
    <3> QED BY <3>1, OnPathFound DEF PathInv
  <2> QED BY <2>1, <2>2 DEF Reachable
<1> QED BY <1>1, PathInvariant, PTL

-----------------------------------------------------------------------------
(***************************************************************************)
(* set.c implements the bag of LooseSet. "used" counts every copy, if not  *)
(* exactly, so that the load limit leaves a slot without a member in every *)
(* table. An addition and each move of a rehash find one, or a copy, unless *)
(* the string is of Shaky; then the one slot it can go to holds another    *)
(* string. A copy is stored beside another only over a tombstone, and a    *)
(* rehash leaves neither.                                                  *)
(***************************************************************************)

-----------------------------------------------------------------------------
(* Copies *)

\* The slots of a table that hold k.
Held(t, k) == {p \in Live(t) : t[p] = k}

\* Those of the old table that the rehash has yet to reach.
Waits(k) == {p \in Pending : members[p] = k}

\* There are finitely many.
LEMMA HeldFinite ==
  ASSUME NEW n \in Nat, NEW t \in [Slots(n) -> Keys \cup {NULL, DELETED}], NEW k
  PROVE  /\ IsFiniteSet(Held(t, k)) /\ Cardinality(Held(t, k)) \in Nat
         /\ Cardinality(Held(t, k)) = 0 <=> Held(t, k) = {}
<1>1. Held(t, k) \subseteq Live(t) /\ IsFiniteSet(Live(t))
  BY LiveFinite DEF Held
<1>2. IsFiniteSet(Held(t, k))
  BY <1>1, FS_Subset
<1> QED BY <1>2, FS_CardinalityType, FS_EmptySet

\* A string stored in a slot without one is one more copy.
LEMMA HeldAdd ==
  ASSUME NEW n \in Nat, NEW t \in [Slots(n) -> Keys \cup {NULL, DELETED}],
         NEW p \in Slots(n), t[p] \notin Keys, NEW k \in Keys,
         NEW u, u = [t EXCEPT ![p] = k]
  PROVE  Cardinality(Held(u, k)) = Cardinality(Held(t, k)) + 1
<1>1. Held(u, k) = Held(t, k) \cup {p} /\ p \notin Held(t, k)
  BY DEF Held, Live
<1> QED BY <1>1, HeldFinite, FS_AddElement

\* A tombstone in place of a string is one copy less.
LEMMA HeldRemove ==
  ASSUME NEW n \in Nat, NEW t \in [Slots(n) -> Keys \cup {NULL, DELETED}],
         NEW p \in Slots(n), NEW k \in Keys, t[p] = k,
         NEW u, u = [t EXCEPT ![p] = DELETED]
  PROVE  Cardinality(Held(u, k)) = Cardinality(Held(t, k)) - 1
<1>1. Held(u, k) = Held(t, k) \ {p} /\ p \in Held(t, k)
  BY SlotAssumption DEF Held, Live
<1>2. IsFiniteSet(Held(t, k))
  BY HeldFinite
<1> QED BY <1>1, <1>2, FS_RemoveElement

\* What Copies counts.
AllCounted ==
  Copies = [k \in Keys |-> Cardinality(Held(nmembers, k)) + Cardinality(Waits(k))]

\* What it counts while no string has been moved.
MembersCounted == Copies = [k \in Keys |-> Cardinality(Held(members, k))]

\* The copies are those of the new table and those that wait.
LEMMA CopiesCounted == AllCounted
BY DEF AllCounted, Copies, Held, Waits

\* Without a new table, or with an empty one, the members count.
LEMMA FreshCopies ==
  TypeOK /\ cursor = 0 /\ nmembers = EmptySlots(nsize) => MembersCounted
<1> SUFFICES ASSUME TypeOK, cursor = 0, nmembers = EmptySlots(nsize)
             PROVE  MembersCounted
  OBVIOUS
<1>1. Live(nmembers) = {}
  BY EmptyTable DEF TypeOK
<1>2. Live(members) \subseteq Slots(size)
  BY LiveFinite DEF TypeOK
<1>3. Pending = Live(members)
  BY <1>2 DEF Pending, Slots
<1>4. \A k \in Keys : /\ Cardinality(Held(nmembers, k)) = 0
                      /\ Waits(k) = Held(members, k)
                      /\ Cardinality(Held(members, k)) \in Nat
  <2> TAKE k \in Keys
  <2>1. Held(nmembers, k) = {}
    BY <1>1 DEF Held
  <2>2. Waits(k) = Held(members, k)
    BY <1>3 DEF Waits, Held
  <2> QED BY <2>1, <2>2, FS_EmptySet, HeldFinite DEF TypeOK
<1> QED BY <1>4, CopiesCounted DEF AllCounted, MembersCounted

-----------------------------------------------------------------------------
(* Room *)

\* A string that finds room and is refused is stored already.
LEMMA RefusesStored ==
  ASSUME NEW s \in Nat, NEW t, NEW k \in Keys, ~NoRoom(t, s, k), Refuses(t, s, k),
         Live(t) \subseteq Slots(s), \A q \in Slots(s) : t[q] \in Keys => q \in Live(t),
         \A j \in Slots(s) : hash_func(k, s, j) \in Slots(s)
  PROVE  Held(t, k) # {}
<1> SUFFICES ASSUME \A q \in Live(t) : t[q] # k PROVE FALSE
  BY DEF Held
<1>1. PICK p \in Slots(s) : AvailableAt(t, s, k, p)
  BY DEF NoRoom
<1>2. PICK j \in Slots(s) :
        /\ p = hash_func(k, s, j) /\ t[p] \notin Keys
        /\ \A m \in Slots(j) : t[hash_func(k, s, m)] \in Keys
  BY <1>1 DEF AvailableAt
<1>3. ASSUME NEW m \in Slots(j) PROVE t[hash_func(k, s, m)] \in Keys \ {k}
  <2>1. m \in Slots(s)
    BY DEF Slots
  <2> QED BY <1>2, <2>1
<1>4. AddsAt(t, s, k, p)
  BY <1>2, <1>3 DEF AddsAt
<1> QED BY <1>4 DEF Refuses

\* What a table under the load limit refuses is stored in it, or of Shaky with
\* another string in its way.
LEMMA RefusedWhy ==
  ASSUME NEW s \in TableSizes, NEW t \in [Slots(s) -> Keys \cup {NULL, DELETED}],
         NEW k \in Keys, NEW u \in Nat, load(u, s) <= 70, Cardinality(Live(t)) <= u,
         Refuses(t, s, k), Held(t, k) = {}
  PROVE  k \in Shaky /\ \E d \in Keys \ {k} : Held(t, d) # {}
<1>1. s \in Nat \ {0}
  BY HashAssumption DEF TableSizes
<1>2. NoRoom(t, s, k)
  BY <1>1, RefusesStored, HashRange DEF Live
<1>3. k \in Shaky
  BY <1>2, NoRoomShaky
<1>4. PICK q \in Slots(s) : t[q] \in Keys
  BY <1>1, <1>2, NoRoomTaken
<1>5. q \in Held(t, t[q]) /\ t[q] # k
  BY <1>4 DEF Held, Live
<1> QED BY <1>3, <1>4, <1>5

\* The tables have the sizes next_prime returns.
SizeInv == size \in TableSizes /\ (pc = "rehash" => nsize \in TableSizes)

\* In an idle set, what is refused is a member, or has one in its way.
LEMMA IdleRefuses ==
  ASSUME SizeInv, Core, pc = "idle", NEW k \in Keys, Refuses(members, size, k)
  PROVE  \/ Held(members, k) # {}
         \/ k \in Shaky /\ \E d \in Keys \ {k} : Held(members, d) # {}
<1>1. /\ size \in TableSizes /\ used \in Nat /\ load(used, size) <= 70
      /\ members \in [Slots(size) -> Keys \cup {NULL, DELETED}]
      /\ Cardinality(Live(members)) <= used
  BY DEF Core, TypeOK, ResizeInv, IdleInv, CountInv, SizeInv
<1> QED BY <1>1, RefusedWhy

\* So it is in the new table of a rehash.
LEMMA RehashRefuses ==
  ASSUME SizeInv, Core, pc = "rehash", NEW k \in Keys, Refuses(nmembers, nsize, k)
  PROVE  \/ Held(nmembers, k) # {}
         \/ k \in Shaky /\ \E d \in Keys \ {k} : Held(nmembers, d) # {}
<1>1. /\ nsize \in TableSizes /\ used \in Nat /\ load(used, nsize) <= 70
      /\ nmembers \in [Slots(nsize) -> Keys \cup {NULL, DELETED}]
  BY DEF Core, TypeOK, ResizeInv, RehashInv, SizeInv
<1>2. Cardinality(Live(nmembers)) <= used
  <2>1. Pending \subseteq Live(members)
    BY DEF Pending
  <2>2. /\ nused \in Nat /\ Cardinality(Pending) \in Nat
        /\ Cardinality(Live(members)) \in Nat
    BY <2>1, LiveFinite, FS_Subset, FS_CardinalityType DEF Core, TypeOK
  <2> QED BY <1>1, <2>2 DEF Core, CountInv
<1> QED BY <1>1, <1>2, RefusedWhy

\* set_init starts with the first size.
LEMMA InitSize == Init => SizeInv
BY TableSizesClosed DEF Init, SizesClosed, SizeInv

\* Every step keeps the sizes.
LEMMA StepSize ==
  ASSUME SizeInv, Core, Core', [Next]_vars
  PROVE  SizeInv'
<1>1. size \in Nat /\ size \in TableSizes /\ size \div 2 \in Nat /\ SizesClosed(TableSizes)
  BY Half, TableSizesClosed DEF SizeInv, Core, TypeOK
<1>2. ASSUME size' = size, pc = "idle",
             set_resize_up \/ set_resize_down \/ UNCHANGED <<new_st, cursor, pc>>
      PROVE  SizeInv'
  <2>1. CASE UNCHANGED pc
    BY <1>1, <1>2, <2>1 DEF SizeInv
  <2>2. CASE StartResize(size * 2)
    BY <1>1, <1>2, <2>2 DEF StartResize, SizesClosed, SizeInv
  <2>3. CASE StartResize(size \div 2) /\ size \div 2 >= HT_BASE_SIZE
    BY <1>1, <1>2, <2>3 DEF StartResize, SizesClosed, SizeInv
  <2> QED BY <1>1, <1>2, <2>1, <2>2, <2>3
          DEF set_resize_up, set_resize_down, set_resize, NoResize, HT_BASE_SIZE
<1>3. ASSUME NEW k \in Keys, set_add(k) \/ set_rem(k) \/ set_ismember(k)
      PROVE  SizeInv'
  BY <1>2, <1>3 DEF set_add, set_rem, set_ismember, StoreMember, DropMember, set
<1>4. CASE MoveMember
  BY <1>4 DEF MoveMember, SizeInv, set, new_st
<1>5. CASE FinishResize
  BY <1>5 DEF FinishResize, SizeInv
<1>6. CASE UNCHANGED vars
  BY <1>6 DEF vars, set, new_st, SizeInv
<1> QED BY <1>3, <1>4, <1>5, <1>6 DEF Next

-----------------------------------------------------------------------------
(* Every step is one of the bag *)

\* An idle set holds what its slots hold.
LEMMA IdleCopies ==
  Core /\ pc = "idle" => MembersCounted
BY FreshCopies DEF Core, ResizeInv, IdleInv

\* So does the set after an operation, when a rehash has begun or not.
LEMMA OperationCopies ==
  ASSUME Core, Core', pc = "idle",
         set_resize_up \/ set_resize_down \/ UNCHANGED <<new_st, cursor, pc>>
  PROVE  MembersCounted'
<1>1. cursor' = 0 /\ nmembers' = EmptySlots(nsize')
  BY DEF Core, ResizeInv, IdleInv, set_resize_up, set_resize_down, set_resize, NoResize,
         StartResize, new_st
<1>2. (TypeOK /\ cursor = 0 /\ nmembers = EmptySlots(nsize))'
  BY <1>1 DEF Core
<1> QED BY <1>2, FreshCopies, PTL

\* calloc gives an empty bag.
LEMMA InitBag == Init => Bag!Init
<1> SUFFICES ASSUME Init PROVE Bag!Init
  OBVIOUS
<1>1. Copies = [k \in Keys |-> Cardinality(Held(members, k))]
  BY InitCore, IdleCopies DEF Init, MembersCounted
<1>2. Live(members) = {}
  BY InitCore, EmptyTable DEF Init, Core, TypeOK
<1>3. \A k \in Keys : Cardinality(Held(members, k)) = 0
  BY <1>2, FS_EmptySet DEF Held
<1>4. Copies = [k \in Keys |-> 0]
  BY <1>1, <1>3
<1>5. \A p \in Slots(size) : members[p] # DELETED
  BY SlotAssumption DEF Init, EmptySlots
<1> QED BY <1>4, <1>5 DEF Init, Bag!Init

\* Whether there are tombstones.
Stones == \E p \in Slots(size) : members[p] = DELETED

\* A string whose copies are 0 has none.
LEMMA HeldCopies ==
  ASSUME Core, pc = "idle", NEW d \in Keys
  PROVE  Copies[d] > 0 <=> Held(members, d) # {}
<1>1. Copies = [e \in Keys |-> Cardinality(Held(members, e))]
  BY IdleCopies DEF MembersCounted
<1>2. /\ Cardinality(Held(members, d)) \in Nat
      /\ Cardinality(Held(members, d)) = 0 <=> Held(members, d) = {}
  BY HeldFinite DEF Core, TypeOK
<1> QED BY <1>1, <1>2

\* set_add adds a copy, finds one, or has no room.
LEMMA AddBag ==
  ASSUME SizeInv, Core, Core', PathInv, NEW k \in Keys, set_add(k)
  PROVE  Bag!Add(k)
<1>0. /\ pc = "idle" /\ size \in Nat
      /\ members \in [Slots(size) -> Keys \cup {NULL, DELETED}]
  BY DEF set_add, Core, TypeOK
<1>1. Copies = [d \in Keys |-> Cardinality(Held(members, d))]
  BY <1>0, IdleCopies DEF MembersCounted
<1>2. ASSUME NEW p \in Slots(size), AddsAt(members, size, k, p), StoreMember(p, k),
             set_resize_up, Answer("add", k, TRUE)
      PROVE  Bag!Add(k)
  <2>1. members[p] \notin Keys /\ members' = [members EXCEPT ![p] = k]
    BY <1>2 DEF AddsAt, StoreMember
  <2>2. Cardinality(Held(members', k)) = Cardinality(Held(members, k)) + 1
    BY <1>0, <2>1, HeldAdd
  <2>3. ASSUME NEW d \in Keys \ {k} PROVE Held(members', d) = Held(members, d)
    BY <1>0, <2>1 DEF Held, Live
  <2>4. Copies' = [d \in Keys |-> Cardinality(Held(members', d))]
    BY <1>0, <1>2, OperationCopies DEF MembersCounted, Held, Live
  <2>5. Copies' = [Copies EXCEPT ![k] = @ + 1]
    BY <1>1, <2>2, <2>3, <2>4
  <2>6. Copies[k] > 0 => Stones
    <3> SUFFICES ASSUME Held(members, k) # {}, ~Stones  PROVE FALSE
      BY <1>0, HeldCopies
    <3>1. members[p] # DELETED
      BY DEF Stones
    <3>2. \A q \in Live(members) : members[q] # k
      BY <1>0, <1>2, <3>1, AddsNew DEF PathInv
    <3> QED BY <3>2 DEF Held
  <2>7. Stones' => Stones
    <3>1. \A q \in Slots(size) : members'[q] = DELETED => members[q] = DELETED
      BY <1>0, <2>1, SlotAssumption
    <3>2. size' = size
      BY <1>2 DEF StoreMember
    <3> QED BY <3>1, <3>2 DEF Stones
  <2>8. Stones' \in {Stones, FALSE}
    <3>1. CASE Stones'
      <4>1. Stones' = Stones
        BY <2>7, <3>1, Zenon DEF Stones
      <4> QED BY <4>1, Zenon
    <3>2. CASE ~Stones'
      <4>1. Stones' = FALSE
        BY <3>2, Zenon DEF Stones
      <4> QED BY <4>1, Zenon
    <3> QED BY <3>1, <3>2, Zenon
  <2>9. used' = used + 1
    BY <1>2 DEF StoreMember
  <2> QED BY <1>2, <2>5, <2>6, <2>8, <2>9, Zenon DEF Answer, Bag!Add, Bag!Answer, Stones
<1>3. ASSUME Refuses(members, size, k), Answer("add", k, FALSE),
             UNCHANGED <<set, new_st, cursor, pc>>
      PROVE  Bag!Add(k)
  <2>1. \/ Held(members, k) # {}
        \/ k \in Shaky /\ \E d \in Keys \ {k} : Held(members, d) # {}
    BY <1>0, <1>3, IdleRefuses
  <2>2. Copies[k] > 0 \/ Bag!InTheWay(k)
    BY <1>0, <2>1, HeldCopies DEF Bag!InTheWay
  <2>3. Copies' = Copies /\ UNCHANGED <<used, size, members>>
    BY <1>3 DEF Copies, Pending, Live, set, new_st
  <2>4. Stones' = Stones
    BY <2>3 DEF Stones
  <2> QED BY <1>3, <2>2, <2>3, <2>4, Zenon DEF Answer, Bag!Add, Bag!Answer, Stones
<1> QED BY <1>2, <1>3 DEF set_add

\* A string that a search misses is not stored.
LEMMA MissingHeld ==
  ASSUME Core, PathInv, NEW k \in Keys
  PROVE  Missing(members, size, k) <=> Held(members, k) = {}
<1>1. size \in Nat \ {0} /\ OnPath(members, size)
  BY DEF Core, TypeOK, PathInv
<1>2. ASSUME NEW p \in Held(members, k) PROVE ~Missing(members, size, k)
  BY <1>1, <1>2, OnPathFound DEF Held
<1>3. ASSUME NEW p \in Slots(size), FoundAt(members, size, k, p)
      PROVE  p \in Held(members, k)
  <2>1. p \in DOMAIN members /\ members[p] = k
    BY <1>3 DEF FoundAt, Core, TypeOK
  <2> QED BY <2>1 DEF Held, Live
<1> QED BY <1>2, <1>3 DEF Missing

\* set_rem takes one copy, or finds none.
LEMMA RemBag ==
  ASSUME Core, Core', PathInv, NEW k \in Keys, set_rem(k)
  PROVE  Bag!Rem(k)
<1>0. /\ pc = "idle" /\ size \in Nat
      /\ members \in [Slots(size) -> Keys \cup {NULL, DELETED}]
  BY DEF set_rem, Core, TypeOK
<1>1. Copies = [d \in Keys |-> Cardinality(Held(members, d))]
  BY <1>0, IdleCopies DEF MembersCounted
<1>2. ASSUME NEW p \in Slots(size), FoundAt(members, size, k, p), DropMember(p),
             set_resize_down, Answer("rem", k, TRUE)
      PROVE  Bag!Rem(k)
  <2>1. members[p] = k /\ members' = [members EXCEPT ![p] = DELETED]
    BY <1>2 DEF FoundAt, DropMember
  <2>2. Cardinality(Held(members', k)) = Cardinality(Held(members, k)) - 1
    BY <1>0, <2>1, HeldRemove
  <2>3. ASSUME NEW d \in Keys \ {k} PROVE Held(members', d) = Held(members, d)
    <3>1. members[p] # d /\ DELETED # d
      BY <2>1, SlotAssumption
    <3> QED BY <1>0, <2>1, <3>1 DEF Held, Live
  <2>4. Copies' = [d \in Keys |-> Cardinality(Held(members', d))]
    BY <1>0, <1>2, OperationCopies DEF MembersCounted, Held, Live
  <2>5. Copies' = [Copies EXCEPT ![k] = @ - 1]
    BY <1>1, <2>2, <2>3, <2>4
  <2>6. Held(members, k) # {}
    BY <1>2, MissingHeld DEF Missing
  <2>7. Cardinality(Held(members, k)) \in Nat /\ Cardinality(Held(members, k)) # 0
    BY <1>0, <2>6, HeldFinite
  <2>8. Copies[k] > 0
    BY <1>1, <2>7
  <2>9. Stones' = TRUE
    <3>1. size' = size /\ members'[p] = DELETED
      BY <1>0, <1>2, <2>1 DEF DropMember
    <3>2. Stones'
      BY <3>1 DEF Stones
    <3> QED BY <3>2, Zenon DEF Stones
  <2>10. used' = used - 1
    BY <1>2 DEF DropMember
  <2> QED BY <1>2, <2>5, <2>8, <2>9, <2>10, Zenon DEF Answer, Bag!Rem, Bag!Answer, Stones
<1>3. ASSUME Missing(members, size, k), Answer("rem", k, FALSE),
             UNCHANGED <<set, new_st, cursor, pc>>
      PROVE  Bag!Rem(k)
  <2>1. Copies[k] = 0
    BY <1>1, <1>3, MissingHeld, FS_EmptySet
  <2>2. Copies' = Copies /\ UNCHANGED <<used, size, members>>
    BY <1>3 DEF Copies, Pending, Live, set, new_st
  <2>3. Stones' = Stones
    BY <2>2 DEF Stones
  <2> QED BY <1>3, <2>1, <2>2, <2>3, Zenon DEF Answer, Bag!Rem, Bag!Answer, Stones
<1> QED BY <1>2, <1>3 DEF set_rem

\* set_ismember tells whether there is a copy.
LEMMA IsMemberBag ==
  ASSUME Core, PathInv, NEW k \in Keys, set_ismember(k)
  PROVE  Bag!IsMember(k)
<1>0. /\ pc = "idle" /\ size \in Nat
      /\ members \in [Slots(size) -> Keys \cup {NULL, DELETED}]
  BY DEF set_ismember, Core, TypeOK
<1>1. Copies = [d \in Keys |-> Cardinality(Held(members, d))]
  BY <1>0, IdleCopies DEF MembersCounted
<1>2. /\ Cardinality(Held(members, k)) \in Nat
      /\ Cardinality(Held(members, k)) = 0 <=> Missing(members, size, k)
  BY <1>0, HeldFinite, MissingHeld
<1>3. Copies' = Copies /\ UNCHANGED <<used, size, members>>
  BY DEF set_ismember, Copies, Pending, Live, set, new_st
<1>4. Copies[k] > 0 <=> ~Missing(members, size, k)
  BY <1>1, <1>2
<1>5. (Copies[k] > 0) = (~Missing(members, size, k))
  BY <1>4 DEF Missing
<1>6. Stones' = Stones
  BY <1>3 DEF Stones
<1> QED BY <1>3, <1>5, <1>6, Zenon
        DEF set_ismember, Answer, Bag!IsMember, Bag!Answer, Stones

\* One iteration of the rehash moves the last copy in sight, merges one, or has
\* no room for it.
LEMMA MoveBag ==
  ASSUME SizeInv, Core, PathInv, MoveMember
  PROVE  UNCHANGED Copies \/ \E k \in Keys : Bag!Merge(k)
<1>1. /\ size \in Nat /\ cursor \in Slots(size) /\ pc = "rehash" /\ nsize \in Nat
      /\ members \in [Slots(size) -> Keys \cup {NULL, DELETED}]
      /\ nmembers \in [Slots(nsize) -> Keys \cup {NULL}]
      /\ UNCHANGED <<members, size, reply>> /\ cursor' = cursor + 1
  BY DEF MoveMember, Core, TypeOK, set, Slots
<1>2. Pending' = Pending \ {cursor}
  <2>1. Live(members) \subseteq Slots(size) /\ Live(members)' = Live(members)
    BY <1>1, LiveFinite DEF Live
  <2> QED BY <1>1, <2>1 DEF Pending, Slots
<1>3. /\ Copies = [d \in Keys |-> Cardinality(Held(nmembers, d)) + Cardinality(Waits(d))]
      /\ Copies' = [d \in Keys |-> Cardinality(Held(nmembers', d)) + Cardinality(Waits(d)')]
  <2>1. AllCounted'
    BY CopiesCounted, PTL
  <2> QED BY <2>1, CopiesCounted DEF AllCounted, Held, Live
<1>4. \A d \in Keys : /\ Waits(d)' = Waits(d) \ {cursor} /\ Waits(d) = {p \in Pending : members[p] = d}
                      /\ IsFiniteSet(Waits(d)) /\ Cardinality(Waits(d)) \in Nat
                      /\ Cardinality(Held(nmembers, d)) \in Nat
  <2> TAKE d \in Keys
  <2>1. Waits(d) \subseteq Live(members)
    BY DEF Waits, Pending
  <2>2. IsFiniteSet(Waits(d))
    BY <1>1, <2>1, LiveFinite, FS_Subset
  <2> QED BY <1>1, <1>2, <2>2, FS_CardinalityType, HeldFinite DEF Waits
<1>5. ASSUME NEW k \in Keys, k = members[cursor]
      PROVE  /\ Cardinality(Waits(k)') = Cardinality(Waits(k)) - 1
             /\ \A d \in Keys \ {k} : Waits(d)' = Waits(d)
  <2>1. cursor \in Pending
    BY <1>1, <1>5 DEF Pending, Live, Slots
  <2>2. cursor \in Waits(k) /\ \A d \in Keys \ {k} : cursor \notin Waits(d)
    BY <1>4, <1>5, <2>1
  <2>3. \A d \in Keys \ {k} : Waits(d)' = Waits(d)
    BY <1>4, <2>2
  <2>4. Cardinality(Waits(k) \ {cursor}) = Cardinality(Waits(k)) - 1
    BY <1>4, <2>2, FS_RemoveElement
  <2>5. Waits(k)' = Waits(k) \ {cursor}
    BY <1>4
  <2> QED BY <2>3, <2>4, <2>5
<1>6. ASSUME NEW k \in Keys, k = members[cursor],
             NEW p \in Slots(nsize), AddsAt(nmembers, nsize, k, p),
             nmembers' = [nmembers EXCEPT ![p] = k]
      PROVE  UNCHANGED Copies
  <2>1. nmembers[p] \notin Keys
    BY <1>6 DEF AddsAt
  <2>2. nmembers \in [Slots(nsize) -> Keys \cup {NULL, DELETED}]
    BY <1>1
  <2>3. Cardinality(Held(nmembers', k)) = Cardinality(Held(nmembers, k)) + 1
    <3>1. PICK u : u = [nmembers EXCEPT ![p] = k]
      OBVIOUS
    <3>2. nsize \in Nat
      BY <1>1
    <3>3. Cardinality(Held(u, k)) = Cardinality(Held(nmembers, k)) + 1
      BY <2>1, <2>2, <3>1, <3>2, HeldAdd
    <3> QED BY <1>6, <3>1, <3>3, Zenon
  <2>4. ASSUME NEW d \in Keys \ {k} PROVE Held(nmembers', d) = Held(nmembers, d)
    BY <1>6, <2>1, <2>2 DEF Held, Live
  <2>5. ASSUME NEW d \in Keys
        PROVE  Cardinality(Held(nmembers', d)) + Cardinality(Waits(d)')
                 = Cardinality(Held(nmembers, d)) + Cardinality(Waits(d))
    <3>1. CASE d = k
      <4>1. Cardinality(Waits(k)') = Cardinality(Waits(k)) - 1
        BY <1>5, <1>6
      <4> QED BY <1>4, <2>3, <3>1, <4>1
    <3>2. CASE d # k
      <4>1. Waits(d)' = Waits(d)
        BY <1>5, <1>6, <3>2
      <4> QED BY <2>4, <3>2, <4>1
    <3> QED BY <3>1, <3>2
  <2> QED BY <1>3, <2>5
<1>7. ASSUME NEW k \in Keys, k = members[cursor],
             Refuses(nmembers, nsize, k), UNCHANGED new_st
      PROVE  Bag!Merge(k)
  <2>1. \/ Held(nmembers, k) # {}
        \/ k \in Shaky /\ \E d \in Keys \ {k} : Held(nmembers, d) # {}
    BY <1>1, <1>7, RehashRefuses
  <2>2. \A d \in Keys : Held(nmembers, d) # {} => Cardinality(Held(nmembers, d)) > 0
    <3> TAKE d \in Keys
    <3>1. nmembers \in [Slots(nsize) -> Keys \cup {NULL, DELETED}]
      BY <1>1
    <3>2. Cardinality(Held(nmembers, d)) = 0 <=> Held(nmembers, d) = {}
      BY <1>1, <3>1, HeldFinite
    <3> QED BY <1>4, <3>2
  <2>3. nmembers' = nmembers
    BY <1>7 DEF new_st
  <2> DEFINE n == Cardinality(Held(nmembers, k)) + Cardinality(Waits(k)) - 1
  <2>4. \A d \in Keys : Copies[d] = Cardinality(Held(nmembers, d)) + Cardinality(Waits(d))
    BY <1>3
  <2>5. Cardinality(Waits(k)') = Cardinality(Waits(k)) - 1 /\ Cardinality(Waits(k)') \in Nat
    <3>1. Cardinality(Waits(k)') = Cardinality(Waits(k)) - 1
      BY <1>5, <1>7
    <3>2. Waits(k)' = Waits(k) \ {cursor}
      BY <1>4
    <3>3. Cardinality(Waits(k) \ {cursor}) \in Nat
      BY <1>4, FS_RemoveElement, FS_CardinalityType
    <3> QED BY <3>1, <3>2, <3>3
  <2>6. n = Copies[k] - 1 /\ Copies[k] > 0
    BY <1>4, <2>4, <2>5
  <2>7. Copies' = [Copies EXCEPT ![k] = n]
    <3>1. \A d \in Keys : Cardinality(Held(nmembers', d)) + Cardinality(Waits(d)')
                           = IF d = k THEN n ELSE Cardinality(Held(nmembers, d)) + Cardinality(Waits(d))
      BY <1>4, <1>5, <1>7, <2>3
    <3> HIDE DEF n
    <3> QED BY <1>3, <3>1
  <2>8. Copies[k] > 1 \/ Bag!InTheWay(k)
    <3>1. CASE Held(nmembers, k) # {}
      <4>1. Cardinality(Held(nmembers, k)) > 0
        BY <2>2, <3>1
      <4> QED BY <1>4, <2>4, <2>5, <4>1
    <3>2. ASSUME k \in Shaky, NEW d \in Keys \ {k}, Held(nmembers, d) # {}
          PROVE  Bag!InTheWay(k)
      <4>1. Copies[d] > 0
        <5>1. /\ Cardinality(Held(nmembers, d)) > 0 /\ Cardinality(Held(nmembers, d)) \in Nat
              /\ Cardinality(Waits(d)) \in Nat
              /\ Copies[d] = Cardinality(Held(nmembers, d)) + Cardinality(Waits(d))
          BY <1>4, <2>2, <2>4, <3>2
        <5> QED BY <5>1
      <4> QED BY <3>2, <4>1 DEF Bag!InTheWay
    <3> QED BY <2>1, <3>1, <3>2
  <2>9. Copies' = [Copies EXCEPT ![k] = @ - 1]
    <3>1. n = Copies[k] - 1
      BY <2>6
    <3> HIDE DEF n
    <3> QED BY <2>7, <3>1
  <2>10. UNCHANGED <<used, reply>> /\ Stones' = Stones
    BY <1>1 DEF MoveMember, set, Stones
  <2> QED BY <2>6, <2>8, <2>9, <2>10, Zenon DEF Bag!Merge, Stones
<1>8. ASSUME members[cursor] \notin Keys, UNCHANGED new_st
      PROVE  UNCHANGED Copies
  <2>1. \A d \in Keys : cursor \notin Waits(d)
    BY <1>4, <1>8
  <2>2. nmembers' = nmembers /\ \A d \in Keys : Waits(d)' = Waits(d)
    BY <1>4, <1>8, <2>1 DEF new_st
  <2> QED BY <1>3, <2>2
<1> QED BY <1>1, <1>6, <1>7, <1>8 DEF MoveMember

\* The end of a rehash sweeps: whatever waited has arrived.
LEMMA FinishBag ==
  ASSUME Core, Core', PathInv, FinishResize
  PROVE  Bag!Sweep
<1>1. /\ Copies = [d \in Keys |-> Cardinality(Held(nmembers, d)) + Cardinality(Waits(d))]
      /\ nmembers \in [Slots(nsize) -> Keys \cup {NULL}] /\ nsize \in Nat
  BY CopiesCounted DEF AllCounted, Core, TypeOK
<1>2. Copies' = [d \in Keys |-> Cardinality(Held(members', d))]
  <2>1. (Core /\ pc = "idle")'
    BY DEF FinishResize
  <2>2. MembersCounted'
    BY <2>1, IdleCopies, PTL
  <2> QED BY <2>2 DEF MembersCounted, Held, Live
<1>3. \A d \in Keys : Waits(d) = {}
  <2>1. Live(members) \subseteq Slots(size) /\ cursor = size
    BY LiveFinite DEF Core, TypeOK, FinishResize, LoopDone
  <2>2. Pending = {}
    BY <2>1 DEF Pending, Slots, Core, TypeOK
  <2> QED BY <2>2 DEF Waits
<1>4. \A d \in Keys : Cardinality(Held(nmembers, d)) \in Nat /\ Cardinality(Waits(d)) = 0
  <2>1. nmembers \in [Slots(nsize) -> Keys \cup {NULL, DELETED}] /\ nsize \in Nat
    BY <1>1
  <2> QED BY <1>3, <2>1, HeldFinite, FS_EmptySet
<1>5. members' = nmembers /\ size' = nsize /\ UNCHANGED <<used, reply>>
  BY DEF FinishResize
<1>6. Copies' = Copies
  BY <1>1, <1>2, <1>4, <1>5
<1>7. \A d \in Keys : Copies[d] <= 1
  <2> TAKE d \in Keys
  <2>1. \A p, q \in Held(nmembers, d) : p = q
    BY DEF Held, PathInv, RehashMerges
  <2>2. CASE Held(nmembers, d) = {}
    <3>1. Cardinality(Held(nmembers, d)) = 0
      BY <2>2, FS_EmptySet
    <3> QED BY <1>1, <1>4, <3>1
  <2>3. ASSUME NEW p \in Held(nmembers, d)  PROVE Copies[d] <= 1
    <3>1. Held(nmembers, d) = {p}
      BY <2>1, <2>3
    <3>2. Cardinality(Held(nmembers, d)) = 1
      BY <3>1, FS_Singleton
    <3> QED BY <1>1, <1>4, <3>2
  <2> QED BY <2>2, <2>3
<1>8. Stones' = FALSE
  <2>1. ~Stones'
    BY <1>1, <1>5, SlotAssumption DEF Stones
  <2> QED BY <2>1, Zenon DEF Stones
<1> QED BY <1>5, <1>6, <1>7, <1>8, Zenon DEF Bag!Sweep, Stones

\* Every step is one of the bag, or unseen by it.
LEMMA StepBag ==
  ASSUME SizeInv, Core, Core', PathInv, [Next]_vars
  PROVE  [Bag!Next]_(Bag!vars)
<1>1. ASSUME NEW k \in Keys, set_add(k) \/ set_rem(k) \/ set_ismember(k)
      PROVE  Bag!Next
  BY <1>1, AddBag, RemBag, IsMemberBag DEF Bag!Next
<1>2. CASE MoveMember
  <2>1. UNCHANGED <<used, reply, size, members>>
    BY <1>2 DEF MoveMember, set
  <2>2. Stones' = Stones
    BY <2>1 DEF Stones
  <2>3. CASE UNCHANGED Copies
    BY <2>1, <2>2, <2>3, Zenon DEF Bag!vars, Stones
  <2>4. CASE \E k \in Keys : Bag!Merge(k)
    BY <2>4 DEF Bag!Next
  <2> QED BY <1>2, <2>3, <2>4, MoveBag
<1>3. CASE FinishResize
  BY <1>3, FinishBag DEF Bag!Next
<1>4. CASE UNCHANGED vars
  <2>1. UNCHANGED <<Copies, used, reply, size, members>>
    BY <1>4 DEF vars, set, new_st, Copies, Pending, Live
  <2>2. Stones' = Stones
    BY <2>1 DEF Stones
  <2> QED BY <2>1, <2>2, Zenon DEF Bag!vars, Stones
<1> QED BY <1>1, <1>2, <1>3, <1>4 DEF Next

\* The set is a bag, for any strings and hash functions: an addition refuses
\* only a member or a string of Shaky, stores a copy only where there are
\* tombstones, a removal takes one copy, a rehash merges copies and loses none
\* but the last of a string of Shaky, and every answer is about what is held.
THEOREM ImplementsBag == Spec => IsBag
<1> DEFINE Inv == Core /\ PathInv /\ SizeInv
<1>1. Init => Inv
  BY InitCore, InitPath, InitSize
<1>2. Inv /\ [Next]_vars => Inv'
  BY StepCore, StepPath, StepSize
<1>3. Inv /\ Inv' /\ [Next]_vars => [Bag!Next]_(Bag!vars)
  BY StepBag
<1>4. Spec => Bag!Spec
  BY <1>1, <1>2, <1>3, InitBag, PTL DEF Spec, Bag!Spec
<1> QED BY <1>4 DEF IsBag
=============================================================================
