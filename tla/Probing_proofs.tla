--------------------------- MODULE Probing_proofs ---------------------------
(***************************************************************************)
(* Facts about tables of slots, loads and probe sequences that the proofs  *)
(* about HTable and OpenSet share; that hash_func of src/helper.c does not *)
(* overflow an int in tables of s slots with s * (s - 1) <= INT_MAX; and   *)
(* that next_prime returns primes, in tables of which a probe sequence     *)
(* visits every slot unless its step is 0.                                 *)
(***************************************************************************)
EXTENDS Probing, FiniteSetTheorems, TLAPS

-----------------------------------------------------------------------------
(* Arithmetic of slots and loads *)

\* A remainder is a slot number.
LEMMA ModRange ==
  ASSUME NEW a \in Nat, NEW b \in Nat \ {0}
  PROVE  a % b \in Slots(b)
BY DEF Slots

\* A load is a natural number.
LEMMA LoadRange ==
  ASSUME NEW u \in Nat, NEW s \in Nat \ {0}
  PROVE  load(u, s) \in Nat
BY DEF load

\* The limit of htable_resize_down, without the division.
LEMMA LoadUpper9 ==
  ASSUME NEW u \in Nat, NEW s \in Nat \ {0}
  PROVE  load(u, s) <= 9 <=> u * 100 < 10 * s
BY DEF load

\* The limit of htable_resize_up, without the division.
LEMMA LoadUpper70 ==
  ASSUME NEW u \in Nat, NEW s \in Nat \ {0}
  PROVE  load(u, s) <= 70 <=> u * 100 < 71 * s
BY DEF load

\* What "size / 2" loses.
LEMMA Half ==
  ASSUME NEW s \in Nat \ {0}
  PROVE  s \div 2 \in Nat /\ s <= 2 * (s \div 2) + 1
OBVIOUS

\* Fewer items load a table less.
LEMMA LoadMonotone ==
  ASSUME NEW s \in Nat \ {0}, NEW u \in Nat, NEW v \in Nat, v <= u,
         load(u, s) <= 70
  PROVE  load(v, s) <= 70
<1>1. u * 100 < 71 * s
  BY LoadUpper70
<1> QED BY <1>1, LoadUpper70

\* One more item after doubling.
LEMMA LoadGrow ==
  ASSUME NEW s \in Nat \ {0, 1}, NEW u \in Nat, load(u, s) <= 70,
         NEW t \in Nat, s * 2 <= t
  PROVE  load(u + 1, t) <= 70
<1>1. u * 100 < 71 * s
  BY LoadUpper70
<1>2. (u + 1) * 100 < 71 * t
  BY <1>1
<1> QED BY <1>2, LoadUpper70

\* A table under 10 per cent fits in one of half the slots.
LEMMA LoadShrink ==
  ASSUME NEW s \in Nat \ {0, 1}, NEW u \in Nat, load(u, s) < 10,
         NEW t \in Nat, HT_BASE_SIZE <= t, s \div 2 <= t
  PROVE  load(u, t) <= 70
<1>1. load(u, s) <= 9
  BY LoadRange
<1>2. u * 100 < 10 * s
  BY <1>1, LoadUpper9
<1>3. s <= 2 * t + 1 /\ t >= 2
  BY Half DEF HT_BASE_SIZE
<1>4. u * 100 < 71 * t
  BY <1>2, <1>3
<1> QED BY <1>3, <1>4, LoadUpper70

\* next_prime never returns less than it was asked for.
LEMMA NextPrime ==
  ASSUME NEW x \in 2 .. MaxRequest
  PROVE  next_prime(x) \in Nat /\ x <= next_prime(x)
<1>1. \E y \in x .. 2 * x : FirstPrimeFrom(x, y)
  BY PrimesAssumption
<1>2. next_prime(x) = CHOOSE y \in x .. 2 * x : FirstPrimeFrom(x, y)
  BY HashAssumption DEF next_prime
<1>3. next_prime(x) \in x .. 2 * x
  BY <1>1, <1>2
<1> QED BY <1>3, HashAssumption

\* Every attempt of a probe visits a slot of the table.
LEMMA HashRange ==
  ASSUME NEW k \in Keys, NEW s \in Nat \ {0}, NEW i \in Slots(s)
  PROVE  hash_func(k, s, i) \in Slots(s)
<1>1. Djb2[k] \in Nat /\ Sdbm[k] \in Nat
  BY HashAssumption
<1>2. Djb2[k] % s \in Nat
  <2>1. Djb2[k] % s \in Slots(s)
    BY <1>1, ModRange
  <2> QED BY <2>1 DEF Slots
<1>2a. Sdbm[k] % s \in Nat
  <2>1. Sdbm[k] % s \in Slots(s)
    BY <1>1, ModRange
  <2> QED BY <2>1 DEF Slots
<1>3. i \in Nat
  BY DEF Slots
<1>4. (Djb2[k] % s) + i * (Sdbm[k] % s) \in Nat
  BY <1>2, <1>2a, <1>3
<1> QED BY <1>4, ModRange DEF hash_func

-----------------------------------------------------------------------------
(* Counting items *)

\* The live slots of a table can be counted.
LEMMA LiveFinite ==
  ASSUME NEW n \in Nat, NEW V, NEW t \in [Slots(n) -> V]
  PROVE  /\ Live(t) \subseteq Slots(n)
         /\ IsFiniteSet(Live(t)) /\ Cardinality(Live(t)) \in Nat
<1>1. Live(t) \subseteq Slots(n)
  BY DEF Live
<1>2. IsFiniteSet(Slots(n))
  BY FS_Interval, 0 \in Int, n - 1 \in Int DEF Slots
<1> QED BY <1>1, <1>2, FS_Subset, FS_CardinalityType

\* Storing a key in a slot without one adds one item.
LEMMA LiveAdd ==
  ASSUME NEW n \in Nat, NEW V, NEW t \in [Slots(n) -> V],
         NEW p \in Slots(n), t[p] \notin Keys, NEW k \in Keys
  PROVE  /\ Live([t EXCEPT ![p] = k]) = Live(t) \cup {p}
         /\ Cardinality(Live([t EXCEPT ![p] = k])) = Cardinality(Live(t)) + 1
<1>1. Live([t EXCEPT ![p] = k]) = Live(t) \cup {p}
  BY DEF Live
<1>2. p \notin Live(t)
  BY DEF Live
<1> QED BY <1>1, <1>2, LiveFinite, FS_AddElement

\* Overwriting a key with no key removes one item.
LEMMA LiveRemove ==
  ASSUME NEW n \in Nat, NEW V, NEW t \in [Slots(n) -> V],
         NEW p \in Slots(n), t[p] \in Keys, NEW d, d \notin Keys
  PROVE  /\ Live([t EXCEPT ![p] = d]) = Live(t) \ {p}
         /\ Cardinality(Live([t EXCEPT ![p] = d])) = Cardinality(Live(t)) - 1
<1>1. Live([t EXCEPT ![p] = d]) = Live(t) \ {p}
  BY DEF Live
<1>2. p \in Live(t)
  BY DEF Live
<1> QED BY <1>1, <1>2, LiveFinite, FS_RemoveElement

\* A table fresh from calloc holds no item.
LEMMA EmptyTable ==
  ASSUME NEW n \in Nat
  PROVE  /\ EmptySlots(n) \in [Slots(n) -> {NULL}]
         /\ Live(EmptySlots(n)) = {}
         /\ Cardinality(Live(EmptySlots(n))) = 0
<1>1. EmptySlots(n) \in [Slots(n) -> {NULL}]
  BY DEF EmptySlots
<1>2. Live(EmptySlots(n)) = {}
  BY SlotAssumption DEF EmptySlots, Live
<1> QED BY <1>1, <1>2, FS_EmptySet

-----------------------------------------------------------------------------
(* Probe paths *)

\* No unused slot comes before slot p on the probe path of k.
PathTo(t, s, k, p) ==
  \E j \in Slots(s) :
    /\ p = hash_func(k, s, j)
    /\ \A m \in Slots(j) : t[hash_func(k, s, m)] # NULL

\* Every key of a table is on its probe path.
OnPath(t, s) == \A p \in Live(t) : PathTo(t, s, t[p], p)

\* Storing a key on its path, or a tombstone anywhere, leaves every key on its
\* path.
LEMMA StoreOnPath ==
  ASSUME NEW s \in Nat \ {0}, NEW V, NEW t \in [Slots(s) -> V], OnPath(t, s),
         NEW p \in Slots(s), NEW v, v # NULL, v \in Keys => PathTo(t, s, v, p)
  PROVE  OnPath([t EXCEPT ![p] = v], s)
<1> DEFINE u == [t EXCEPT ![p] = v]
<1>1. \A x \in Slots(s) : t[x] # NULL => u[x] # NULL
  OBVIOUS
<1>2. ASSUME NEW k \in Keys, NEW q \in Slots(s), PathTo(t, s, k, q)
      PROVE  PathTo(u, s, k, q)
  <2>1. PICK j \in Slots(s) : /\ q = hash_func(k, s, j)
                              /\ \A m \in Slots(j) : t[hash_func(k, s, m)] # NULL
    BY <1>2 DEF PathTo
  <2>2. ASSUME NEW m \in Slots(j) PROVE u[hash_func(k, s, m)] # NULL
    <3>1. m \in Slots(s)
      BY DEF Slots
    <3>2. hash_func(k, s, m) \in Slots(s)
      BY <3>1, HashRange
    <3> QED BY <1>1, <2>1, <3>2
  <2> QED BY <2>1, <2>2 DEF PathTo
<1>3. ASSUME NEW q \in Live(u) PROVE PathTo(u, s, u[q], q)
  <2>1. q \in Slots(s) /\ u[q] \in Keys
    BY DEF Live
  <2>2. CASE q = p
    BY <1>2, <2>1, <2>2
  <2>3. CASE q # p
    <3>1. u[q] = t[q] /\ q \in Live(t)
      BY <2>1, <2>3 DEF Live
    <3> QED BY <1>2, <2>1, <3>1 DEF OnPath
  <2> QED BY <2>2, <2>3
<1> QED BY <1>3 DEF OnPath

\* A key on its path is found: the search meets it or another copy.
LEMMA OnPathFound ==
  ASSUME NEW s \in Nat \ {0}, NEW t, OnPath(t, s), NEW p \in Live(t)
  PROVE  ~Missing(t, s, t[p])
<1> DEFINE k == t[p]
           T == {j \in Slots(s) : t[hash_func(k, s, j)] = k}
<1>0. k \in Keys
  BY DEF Live
<1>1. PICK j \in Slots(s) : /\ p = hash_func(k, s, j)
                            /\ \A m \in Slots(j) : t[hash_func(k, s, m)] # NULL
  BY DEF OnPath, PathTo
<1>2. T \subseteq Nat /\ j \in T
  BY <1>1 DEF Slots
<1>3. PICK i \in T : \A m \in T : ~(<<m, i>> \in OpToRel(<, Nat))
  BY <1>2, NatLessThanWellFounded, WFMin
<1>4. \A m \in T : ~(m < i)
  BY <1>2, <1>3 DEF OpToRel
<1>5. hash_func(k, s, i) \in Slots(s)
  BY <1>0, HashRange
<1>6. ASSUME NEW m \in Slots(i) PROVE t[hash_func(k, s, m)] \notin {NULL, k}
  <2>1. m \in Slots(s) /\ m < i /\ i <= j /\ m \in Slots(j)
    BY <1>2, <1>4 DEF Slots
  <2> QED BY <1>1, <1>4, <2>1
<1>7. FoundAt(t, s, k, hash_func(k, s, i))
  BY <1>6 DEF FoundAt
<1> QED BY <1>5, <1>7 DEF Missing

\* A table fresh from calloc has every key, that is none, on its path.
LEMMA EmptyOnPath ==
  ASSUME NEW n \in Nat
  PROVE  OnPath(EmptySlots(n), n)
BY EmptyTable DEF OnPath
-----------------------------------------------------------------------------
(* Room *)

\* As many items as slots are a load of 100 per cent.
LEMMA LoadFull ==
  ASSUME NEW s \in Nat \ {0}, NEW u \in Nat, load(u, s) <= 70
  PROVE  u < s
<1>1. u * 100 < 71 * s
  BY LoadUpper70
<1> QED BY <1>1

\* A table under the load limit has room for a key whose probe sequence visits
\* every slot.
LEMMA RoomLeft ==
  ASSUME NEW s \in Nat \ {0}, NEW V, NEW t \in [Slots(s) -> V], NEW k \in Keys,
         \A p \in Slots(s) : \E j \in Slots(s) : p = hash_func(k, s, j),
         NEW u \in Nat, load(u, s) <= 70, Cardinality(Live(t)) <= u
  PROVE  ~NoRoom(t, s, k)
<1> DEFINE T == {j \in Slots(s) : t[hash_func(k, s, j)] \notin Keys}
<1>1. PICK p \in Slots(s) : t[p] \notin Keys
  <2> SUFFICES ASSUME \A p \in Slots(s) : t[p] \in Keys PROVE FALSE
    OBVIOUS
  <2>1. Live(t) = Slots(s)
    BY DEF Live
  <2>2. Cardinality(Slots(s)) = s
    BY FS_Interval, 0 \in Int, s - 1 \in Int DEF Slots
  <2> QED BY <2>1, <2>2, LoadFull
<1>2. PICK j \in Slots(s) : p = hash_func(k, s, j)
  OBVIOUS
<1>3. T \subseteq Nat /\ j \in T
  BY <1>1, <1>2 DEF Slots
<1>4. PICK i \in T : \A m \in T : ~(<<m, i>> \in OpToRel(<, Nat))
  BY <1>3, NatLessThanWellFounded, WFMin
<1>5. \A m \in T : ~(m < i)
  BY <1>3, <1>4 DEF OpToRel
<1>6. hash_func(k, s, i) \in Slots(s)
  BY HashRange
<1>7. ASSUME NEW m \in Slots(i) PROVE t[hash_func(k, s, m)] \in Keys
  <2>1. m \in Slots(s) /\ m < i
    BY <1>3 DEF Slots
  <2> QED BY <1>5, <2>1
<1>8. AvailableAt(t, s, k, hash_func(k, s, i))
  BY <1>7 DEF AvailableAt
<1> QED BY <1>6, <1>8 DEF NoRoom

-----------------------------------------------------------------------------
(* Slots in int arithmetic *)

\* The hash functions over ints of a width.
Ints(IntMax) == INSTANCE HashWidth

\* A remainder is below its divisor, and remainders of products of an attempt
\* number and a probe step stay below the square of the largest slot number.
LEMMA ProbeRange ==
  ASSUME NEW s \in Nat \ {0}, NEW d \in 0 .. s - 1, NEW st \in 0 .. s - 1,
         NEW j \in 0 .. s - 1
  PROVE  /\ j * st \in Nat /\ d + j * st \in Nat
         /\ j * st <= d + j * st
         /\ d + j * st <= s * (s - 1)
<1>1. j * st \in Nat /\ (s - 1) * st \in Nat /\ (s - 1) * (s - 1) \in Nat
  OBVIOUS
<1>2. j * st <= (s - 1) * st
  OBVIOUS
<1>3. (s - 1) * st <= (s - 1) * (s - 1)
  OBVIOUS
<1>4. s * (s - 1) = (s - 1) + (s - 1) * (s - 1)
  OBVIOUS
<1> QED  BY <1>1, <1>2, <1>3, <1>4

\* hash_func of helper.c, whose sum and product are ints up to max, gives what
\* hash_func of Hashing gives, and a slot of the table, in each table small
\* enough for such ints.
THEOREM HashFits ==
  ASSUME NEW max \in Nat \ {0}, NEW k \in Keys, NEW s \in Nat \ {0}, s * (s - 1) <= max,
         NEW j \in 0 .. s - 1
  PROVE  /\ Ints(max)!hash_func_int(k, s, j) = hash_func(k, s, j)
         /\ Ints(max)!hash_func_int(k, s, j) \in 0 .. s - 1
<1> DEFINE d == Djb2[k] % s
           st == Sdbm[k] % s
<1>1. d \in 0 .. s - 1 /\ st \in 0 .. s - 1
  BY HashAssumption
<1> HIDE DEF d, st
<1>2. /\ j * st \in Nat /\ d + j * st \in Nat
      /\ j * st <= max /\ d + j * st <= max
  BY <1>1, ProbeRange
<1>3. Ints(max)!AsInt(j * st) = j * st
  BY <1>2 DEF Ints!AsInt, Ints!IntRange
<1>4. Ints(max)!AsInt(d + j * st) = d + j * st
  BY <1>2 DEF Ints!AsInt, Ints!IntRange
<1>5. Ints(max)!Remainder(d + j * st, s) = (d + j * st) % s
  BY <1>2 DEF Ints!Remainder
<1>6. (d + j * st) % s \in 0 .. s - 1
  BY <1>2
<1>7. Ints(max)!hash_func_int(k, s, j) =
        Ints(max)!Remainder(Ints(max)!AsInt(d + Ints(max)!AsInt(j * st)), s)
  BY DEF Ints!hash_func_int, d, st
<1>8. hash_func(k, s, j) = (d + j * st) % s
  BY DEF hash_func, d, st
<1> QED  BY <1>3, <1>4, <1>5, <1>6, <1>7, <1>8

-----------------------------------------------------------------------------
(* Probe sequences of prime length *)

\* b divides a.
Multiple(a, b) == \E q \in Int : a = q * b

\* The remainder, by its quotient.
LEMMA DivMod ==
  ASSUME NEW a \in Int, NEW b \in Nat \ {0}
  PROVE  /\ a % b \in 0 .. b - 1
         /\ \E q \in Int : a = q * b + (a % b)
<1>1. a % b \in 0 .. b - 1
  OBVIOUS
<1>2. a \div b \in Int /\ a = (a \div b) * b + (a % b)
  OBVIOUS
<1> QED BY <1>1, <1>2

\* A multiple is what leaves no remainder.
LEMMA MultipleMod ==
  ASSUME NEW a \in Int, NEW b \in Nat \ {0}
  PROVE  Multiple(a, b) <=> a % b = 0
<1>1. PICK r \in 0 .. b - 1 : r = a % b
  BY DivMod
<1>2. PICK q \in Int : a = q * b + r
  BY <1>1, DivMod
<1>3. r = 0 => Multiple(a, b)
  BY <1>2 DEF Multiple
<1>4. ASSUME NEW p \in Int, a = p * b  PROVE r = 0
  <2>1. (p - q) * b = r
    BY <1>2, <1>4
  <2>2. CASE p - q >= 1
    <3>1. (p - q) * b >= b
      BY <2>2
    <3> QED BY <2>1, <3>1
  <2>3. CASE p - q <= -1
    <3>1. (p - q) * b <= -b
      BY <2>3
    <3> QED BY <2>1, <3>1
  <2>4. CASE p - q = 0
    BY <2>1, <2>4
  <2> QED BY <2>2, <2>3, <2>4
<1> QED BY <1>1, <1>3, <1>4 DEF Multiple

\* Trial division by the odd numbers up to the root finds a divisor if there is
\* one.
LEMMA PrimeHasNoDivisor ==
  ASSUME NEW s \in Nat, is_prime(s), NEW n \in 2 .. s - 1
  PROVE  ~Multiple(s, n)
<1> SUFFICES ASSUME NEW q \in Int, s = q * n  PROVE FALSE
  BY DEF Multiple
<1>1. s % 2 # 0 /\ \A d \in 3 .. s : (d % 2 = 1 /\ d * d <= s) => s % d # 0
  BY DEF is_prime
<1>2. q >= 2 /\ q < s
  <2>1. q <= 1 => q * n <= n
    OBVIOUS
  <2>2. q >= s => q * n >= s * n
    OBVIOUS
  <2>3. s * n > s
    OBVIOUS
  <2> QED BY <2>1, <2>2, <2>3
<1>3. ASSUME NEW m \in 2 .. s - 1, NEW p \in Int, s = p * m, m * m <= s  PROVE FALSE
  <2>1. s % m = 0
    <3>1. Multiple(s, m) /\ s \in Int /\ m \in Nat \ {0}
      BY <1>3 DEF Multiple
    <3> QED BY <3>1, MultipleMod
  <2>2. CASE m % 2 = 0
    <3>1. PICK h \in Int : m = h * 2
      BY <2>2, MultipleMod DEF Multiple
    <3>2. s = (p * h) * 2 /\ p * h \in Int
      BY <1>3, <3>1
    <3>3. s % 2 = 0
      BY <3>2, MultipleMod DEF Multiple
    <3> QED BY <1>1, <3>3
  <2>3. CASE m % 2 # 0
    <3>1. m % 2 = 1 /\ m \in 3 .. s
      BY <2>3
    <3> QED BY <1>1, <1>3, <2>1, <3>1
  <2> QED BY <2>2, <2>3
<1>4. CASE n <= q
  <2>1. n * n <= q * n
    BY <1>4
  <2> QED BY <1>3, <2>1
<1>5. CASE q <= n
  <2>1. q * q <= n * q /\ n * q = q * n
    BY <1>2, <1>5
  <2>2. q \in 2 .. s - 1 /\ s = n * q
    BY <1>2
  <2> QED BY <1>3, <2>1, <2>2
<1> QED BY <1>2, <1>4, <1>5

\* A prime that divides a product divides a factor: no multiple of a step below
\* the prime is one of the prime before the prime's own.
LEMMA NoEarlyReturn ==
  ASSUME NEW s \in Nat, is_prime(s), NEW d \in 1 .. s - 1, NEW j \in 1 .. s - 1
  PROVE  ~Multiple(j * d, s)
<1> SUFFICES ASSUME Multiple(j * d, s)  PROVE FALSE
  OBVIOUS
<1> DEFINE Back == {m \in 1 .. s - 1 : Multiple(m * d, s)}
<1>1. Back # {} /\ Back \subseteq Nat
  <2>1. j \in Back
    BY Zenon
  <2>2. Back \subseteq Nat
    OBVIOUS
  <2> QED BY <2>1, <2>2, Zenon
<1>2. PICK n \in Back : \A m \in Back : ~(<<m, n>> \in OpToRel(<, Nat))
  BY <1>1, NatLessThanWellFounded, WFMin
<1>3. n \in 1 .. s - 1 /\ \A m \in Back : ~(m < n)
  BY <1>1, <1>2 DEF OpToRel
<1>4. PICK c \in Int : n * d = c * s
  BY <1>2 DEF Multiple
<1>5. PICK r \in 0 .. n - 1 : \E q \in Int : s = q * n + r
  <2>1. s \in Int /\ n \in Nat \ {0}
    BY <1>3
  <2>2. /\ s % n \in 0 .. n - 1
        /\ \E q \in Int : s = q * n + (s % n)
    BY <2>1, DivMod
  <2> QED BY <2>2, Zenon
<1>6. PICK q \in Int : s = q * n + r
  BY <1>5
<1>7. CASE r = 0
  <2>1. n \in 2 .. s - 1
    <3> SUFFICES ASSUME n = 1 PROVE FALSE
      BY <1>3
    <3>1. d = c * s
      BY <1>4
    <3>2. c >= 1 => c * s >= s
      OBVIOUS
    <3>3. c <= 0 => c * s <= 0
      OBVIOUS
    <3> QED BY <3>1, <3>2, <3>3
  <2>2. Multiple(s, n)
    BY <1>3, <1>6, <1>7 DEF Multiple
  <2> QED BY <2>1, <2>2, PrimeHasNoDivisor
<1>8. CASE r # 0
  <2>1. q * (n * d) = q * (c * s)
    BY <1>4
  <2>2. s * d = q * (n * d) + r * d
    BY <1>3, <1>6
  <2>3. r * d = (d - q * c) * s /\ d - q * c \in Int
    <3>1. q * (c * s) = (q * c) * s /\ (d - q * c) * s = d * s - (q * c) * s
      OBVIOUS
    <3> QED BY <1>3, <2>1, <2>2, <3>1
  <2>4. r \in Back
    <3>1. r \in 1 .. s - 1
      BY <1>3, <1>6, <1>8
    <3>2. Multiple(r * d, s)
      BY <2>3, Zenon DEF Multiple
    <3> QED BY <3>1, <3>2, Zenon
  <2> QED BY <1>3, <1>6, <2>4
<1> QED BY <1>7, <1>8

\* Two attempts of a probe do not meet, unless its step is 0.
LEMMA ProbesDiffer ==
  ASSUME NEW k \in Keys, NEW s \in Nat, is_prime(s), Sdbm[k] % s # 0,
         NEW i \in Slots(s), NEW j \in Slots(s), i < j
  PROVE  hash_func(k, s, i) # hash_func(k, s, j)
<1> SUFFICES ASSUME hash_func(k, s, i) = hash_func(k, s, j)  PROVE FALSE
  OBVIOUS
<1>1. s \in Nat \ {0}
  BY DEF is_prime
<1>2. PICK x \in Int : x = Djb2[k] % s
  BY <1>1, HashAssumption
<1>3. PICK d \in 1 .. s - 1 : d = Sdbm[k] % s
  BY <1>1, HashAssumption
<1>4. i \in 0 .. s - 1 /\ j \in 0 .. s - 1
  BY DEF Slots
<1>5. hash_func(k, s, i) = (x + i * d) % s /\ hash_func(k, s, j) = (x + j * d) % s
  BY <1>2, <1>3 DEF hash_func
<1>6. PICK a \in Int : a = x + i * d
  BY <1>4
<1>7. PICK b \in Int : b = x + j * d
  BY <1>4
<1>8. PICK h \in 0 .. s - 1 : h = a % s /\ h = b % s
  BY <1>1, <1>5, <1>6, <1>7, DivMod
<1>9. PICK p \in Int : a = p * s + h
  BY <1>1, <1>8, DivMod
<1>10. PICK q \in Int : b = q * s + h
  BY <1>1, <1>8, DivMod
<1>11. PICK n \in 1 .. s - 1 : n = j - i
  BY <1>4
<1>12. n * d = (q - p) * s
  <2>1. n * d = j * d - i * d
    BY <1>4, <1>11
  <2>2. (q - p) * s = q * s - p * s
    OBVIOUS
  <2>3. j * d \in Int /\ i * d \in Int /\ q * s \in Int /\ p * s \in Int
    BY <1>4
  <2> QED BY <1>6, <1>7, <1>9, <1>10, <2>1, <2>2, <2>3
<1>13. Multiple(n * d, s)
  BY <1>12 DEF Multiple
<1> QED BY <1>13, NoEarlyReturn

\* In a table whose size is prime, the probe sequence of a key visits every slot
\* if its step is not 0: no string that hash_func takes to another step can miss
\* a free slot.
THEOREM PrimesCover ==
  ASSUME NEW k \in Keys, NEW s \in Nat, is_prime(s), Sdbm[k] % s # 0, NEW p \in Slots(s)
  PROVE  \E j \in Slots(s) : p = hash_func(k, s, j)
<1> SUFFICES ASSUME \A j \in Slots(s) : hash_func(k, s, j) # p  PROVE FALSE
  OBVIOUS
<1> DEFINE f == [j \in Slots(s) |-> hash_func(k, s, j)]
<1>1. s \in Nat \ {0}
  BY DEF is_prime
<1>2. f \in [Slots(s) -> Slots(s) \ {p}]
  BY <1>1, HashRange
<1>3. IsFiniteSet(Slots(s)) /\ IsFiniteSet(Slots(s) \ {p}) /\ Cardinality(Slots(s) \ {p}) < Cardinality(Slots(s))
  <2>1. IsFiniteSet(Slots(s))
    BY FS_Interval, 0 \in Int, s - 1 \in Int DEF Slots
  <2>2. /\ IsFiniteSet(Slots(s) \ {p})
        /\ Cardinality(Slots(s) \ {p}) = Cardinality(Slots(s)) - 1
    BY <2>1, FS_RemoveElement
  <2> QED BY <2>1, <2>2, FS_CardinalityType
<1>4. PICK i \in Slots(s), j \in Slots(s) : i # j /\ f[i] = f[j]
  <2> HIDE DEF f
  <2>1. \E i, j \in Slots(s) : i # j /\ f[i] = f[j]
    BY <1>2, <1>3, FS_PigeonHole
  <2> QED BY <2>1
<1>5. i < j \/ j < i
  BY <1>4 DEF Slots
<1> QED BY <1>4, <1>5, ProbesDiffer

\* With step 0 it visits one slot.
LEMMA StepZeroStays ==
  ASSUME NEW k \in Keys, NEW s \in Nat \ {0}, Sdbm[k] % s = 0, NEW j \in Slots(s)
  PROVE  hash_func(k, s, j) = Djb2[k] % s
<1>1. PICK x \in 0 .. s - 1 : x = Djb2[k] % s
  BY HashAssumption
<1>2. j * 0 = 0
  BY DEF Slots
<1>3. hash_func(k, s, j) = x % s
  BY <1>1, <1>2 DEF hash_func
<1> QED BY <1>1, <1>3

\* In a table whose size is prime, a probe sequence visits every slot exactly
\* if sdbm is no multiple of the size: Shaky names all strings that can miss a
\* free slot of a table, and no other.
THEOREM CoveredUnlessStepZero ==
  ASSUME NEW k \in Keys, NEW s \in Nat, is_prime(s)
  PROVE  Covers(k, s) <=> Sdbm[k] % s # 0
<1>1. ASSUME Sdbm[k] % s # 0  PROVE Covers(k, s)
  BY <1>1, PrimesCover DEF Covers
<1>2. ASSUME Covers(k, s), Sdbm[k] % s = 0  PROVE FALSE
  <2>1. s \in Nat \ {0} /\ 0 \in Slots(s) /\ 1 \in Slots(s)
    BY DEF is_prime, Slots
  <2>2. \A p \in Slots(s) : p = Djb2[k] % s
    BY <1>2, <2>1, StepZeroStays DEF Covers
  <2> QED BY <2>1, <2>2
<1> QED BY <1>1, <1>2

\* What next_prime finds is the first prime.
LEMMA NextIsPrime ==
  ASSUME NEW x \in 2 .. MaxRequest
  PROVE  next_prime(x) \in x .. 2 * x /\ FirstPrimeFrom(x, next_prime(x))
<1>1. \E y \in x .. 2 * x : FirstPrimeFrom(x, y)
  BY PrimesAssumption
<1>2. ~(x < 2)
  BY HashAssumption
<1> QED BY <1>1, <1>2 DEF next_prime

\* The sizes a table has: those of Sizes that next_prime can return.
TableSizes == {s \in Sizes : s \in 2 .. 2 * MaxRequest /\ is_prime(s)}

\* They hold the first size and what the two resizes make of them.
LEMMA TableSizesClosed == SizesClosed(TableSizes)
<1>1. MaxRequest \in Nat /\ MaxRequest >= 2
  BY HashAssumption
<1>2. ASSUME NEW x \in 2 .. MaxRequest, next_prime(x) \in Sizes
      PROVE  next_prime(x) \in TableSizes
  <2>1. next_prime(x) \in x .. 2 * x /\ is_prime(next_prime(x))
    BY NextIsPrime DEF FirstPrimeFrom
  <2>2. next_prime(x) \in 2 .. 2 * MaxRequest
    BY <1>1, <2>1
  <2> QED BY <1>2, <2>1, <2>2 DEF TableSizes
<1>3. next_prime(HT_BASE_SIZE) \in TableSizes
  BY <1>1, <1>2, SizesAssumption DEF SizesClosed, HT_BASE_SIZE
<1>4. ASSUME NEW s \in TableSizes, s * 2 <= MaxRequest  PROVE next_prime(s * 2) \in TableSizes
  <2>1. s \in Sizes /\ s \in 2 .. 2 * MaxRequest
    BY DEF TableSizes
  <2>2. s * 2 \in 2 .. MaxRequest /\ next_prime(s * 2) \in Sizes
    BY <1>1, <1>4, <2>1, SizesAssumption DEF SizesClosed
  <2> QED BY <1>2, <2>2
<1>5. ASSUME NEW s \in TableSizes, s \div 2 >= HT_BASE_SIZE
      PROVE  next_prime(s \div 2) \in TableSizes
  <2>1. s \in Sizes /\ s \in 2 .. 2 * MaxRequest
    BY DEF TableSizes
  <2>2. s \div 2 \in 2 .. MaxRequest /\ next_prime(s \div 2) \in Sizes
    BY <1>1, <1>5, <2>1, SizesAssumption DEF SizesClosed, HT_BASE_SIZE
  <2> QED BY <1>2, <2>2
<1> QED BY <1>3, <1>4, <1>5 DEF SizesClosed

\* What finds no room in a table under the load limit is of Shaky.
LEMMA NoRoomShaky ==
  ASSUME NEW s \in TableSizes, NEW V, NEW t \in [Slots(s) -> V], NEW k \in Keys,
         NEW u \in Nat, load(u, s) <= 70, Cardinality(Live(t)) <= u, NoRoom(t, s, k)
  PROVE  k \in Shaky
<1>1. s \in Nat \ {0} /\ is_prime(s) /\ s \in Sizes
  BY HashAssumption DEF TableSizes
<1>2. ~Covers(k, s)
  BY <1>1, RoomLeft DEF Covers
<1>3. Sdbm[k] % s = 0
  BY <1>1, <1>2, CoveredUnlessStepZero
<1> QED BY <1>1, <1>3 DEF Shaky

\* Its first attempt meets a string.
LEMMA NoRoomTaken ==
  ASSUME NEW s \in Nat \ {0}, NEW t, NEW k \in Keys, NoRoom(t, s, k)
  PROVE  hash_func(k, s, 0) \in Slots(s) /\ t[hash_func(k, s, 0)] \in Keys
<1>1. 0 \in Slots(s) /\ Slots(0) = {}
  BY DEF Slots
<1>2. hash_func(k, s, 0) \in Slots(s)
  BY <1>1, HashRange
<1>3. ~AvailableAt(t, s, k, hash_func(k, s, 0))
  BY <1>2 DEF NoRoom
<1> QED BY <1>1, <1>2, <1>3 DEF AvailableAt
=============================================================================
