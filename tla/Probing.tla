------------------------------ MODULE Probing ------------------------------
(***************************************************************************)
(* The probe loops that htable.c and set.c share. A table is a function    *)
(* from its slots to the key stored there, NULL for a slot calloc left     *)
(* unused, or DELETED for the tombstone (HT_DELETED, SET_DELETED).         *)
(***************************************************************************)
EXTENDS Hashing, FiniteSets

CONSTANTS NULL, DELETED,
          Sizes  \* the sizes a table can have

ASSUME SlotAssumption == NULL \notin Keys /\ DELETED \notin Keys \cup {NULL}

Slots(n) == 0 .. (n - 1)
EmptySlots(n) == [p \in Slots(n) |-> NULL]
Live(t) == {p \in DOMAIN t : t[p] \in Keys}

\* The percentage that htable_resize_up and htable_resize_down look at.
load(u, s) == (u * 100) \div s

\* Mutant of FoundAt: the search takes a tombstone for an unused slot.
FoundBeforeTombstone(t, s, k, p) ==
  \E j \in Slots(s) :
    /\ p = hash_func(k, s, j) /\ t[p] = k
    /\ \A m \in Slots(j) : t[hash_func(k, s, m)] \notin {NULL, DELETED, k}

\* The search for k stops at slot p with success: attempt j is the first to
\* meet k or an unused slot, and meets k.
FoundAt(t, s, k, p) ==
  \E j \in Slots(s) :
    /\ p = hash_func(k, s, j) /\ t[p] = k
    /\ \A m \in Slots(j) : t[hash_func(k, s, m)] \notin {NULL, k}

Missing(t, s, k) == \A p \in Slots(s) : ~FoundAt(t, s, k, p)

\* An insertion of k uses slot p: attempt j is the first to meet no live item.
AvailableAt(t, s, k, p) ==
  \E j \in Slots(s) :
    /\ p = hash_func(k, s, j) /\ t[p] \notin Keys
    /\ \A m \in Slots(j) : t[hash_func(k, s, m)] \in Keys

NoRoom(t, s, k) == \A p \in Slots(s) : ~AvailableAt(t, s, k, p)
-----------------------------------------------------------------------------
\* S holds the first size, and with a size those the two resizes make of it.
SizesClosed(S) ==
  /\ next_prime(HT_BASE_SIZE) \in S
  /\ \A s \in S : /\ s * 2 <= MaxRequest => next_prime(s * 2) \in S
                  /\ s \div 2 >= HT_BASE_SIZE => next_prime(s \div 2) \in S

ASSUME SizesAssumption == SizesClosed(Sizes)

\* The strings that probe some table with step 0, and see one slot of it only.
\* No other string can be refused by a table, or get lost in a rehash.
Shaky == {k \in Keys : \E s \in Sizes : Sdbm[k] % s = 0}

\* In a table of s slots, the probe sequence of k visits every slot.
Covers(k, s) == \A p \in Slots(s) : \E j \in Slots(s) : p = hash_func(k, s, j)
=============================================================================
