--------------------------- MODULE ListOps_proofs ---------------------------
(***************************************************************************)
(* Facts about the places of a list and about removal, for the proofs of   *)
(* the list commands and of the linked list.                               *)
(***************************************************************************)
EXTENDS ListOps, FiniteSetTheorems, SequenceTheorems, WellFoundedInduction, TLAPS

\* The places of S up to j, and their number.
Upto(S, j) == S \cap (1 .. j)
Rank(S, j) == Cardinality(Upto(S, j))

\* A function on an initial segment is a sequence of that length.
LEMMA FunctionIsSeq ==
  ASSUME NEW S, NEW k \in Nat, NEW q \in [1 .. k -> S]
  PROVE  q \in Seq(S) /\ Len(q) = k
<1>1. q \in Seq(S)
  BY SeqDef
<1> QED BY <1>1, LenProperties

\* A set of natural numbers has a least element.
LEMMA LeastExists ==
  ASSUME NEW S \in SUBSET Nat, S # {}
  PROVE  \E m \in S : \A x \in S : m <= x
<1>1. IsWellFoundedOn(OpToRel(<, Nat), Nat)
  BY NatLessThanWellFounded
<1>2. PICK m \in S : \A x \in S : <<x, m>> \notin OpToRel(<, Nat)
  BY <1>1, WFMin
<1>3. \A x \in S : ~(x < m)
  BY <1>2 DEF OpToRel
<1> QED BY <1>3

\* The places up to one of them are finitely many, and their number grows by
\* one at each of them.
LEMMA RankStep ==
  ASSUME NEW n \in Nat, NEW S \in SUBSET (1 .. n), NEW j \in Nat
  PROVE  /\ IsFiniteSet(S) /\ IsFiniteSet(Upto(S, j))
         /\ Rank(S, j) \in 0 .. Cardinality(S)
         /\ Rank(S, 0) = 0 /\ Rank(S, n) = Cardinality(S)
         /\ Rank(S, j + 1) = Rank(S, j) + (IF j + 1 \in S THEN 1 ELSE 0)
<1>1. IsFiniteSet(1 .. n)
  BY FS_Interval
<1>2. IsFiniteSet(S)
  BY <1>1, FS_Subset
<1>3. ASSUME NEW m \in Nat
      PROVE  IsFiniteSet(Upto(S, m)) /\ Rank(S, m) \in 0 .. Cardinality(S)
  <2>1. Upto(S, m) \subseteq S
    BY DEF Upto
  <2> QED BY <2>1, <1>2, FS_Subset, FS_CardinalityType DEF Rank
<1>4. Rank(S, 0) = 0
  <2>1. Upto(S, 0) = {}
    BY DEF Upto
  <2> QED BY <2>1, FS_EmptySet DEF Rank
<1>5. Rank(S, n) = Cardinality(S)
  <2>1. Upto(S, n) = S
    BY DEF Upto
  <2> QED BY <2>1 DEF Rank
<1>6. Rank(S, j + 1) = Rank(S, j) + (IF j + 1 \in S THEN 1 ELSE 0)
  <2>1. CASE j + 1 \in S
    <3>1. Upto(S, j + 1) = Upto(S, j) \cup {j + 1}
      BY <2>1 DEF Upto
    <3>2. j + 1 \notin Upto(S, j)
      BY DEF Upto
    <3> QED BY <2>1, <3>1, <3>2, <1>3, FS_AddElement DEF Rank
  <2>2. CASE j + 1 \notin S
    <3>1. Upto(S, j + 1) = Upto(S, j)
      BY <2>2 DEF Upto
    <3> QED BY <2>2, <3>1, <1>3 DEF Rank
  <2> QED BY <2>1, <2>2
<1> QED BY <1>2, <1>3, <1>4, <1>5, <1>6

\* Each number up to that of the places is the rank of one.
LEMMA NthExists ==
  ASSUME NEW n \in Nat, NEW S \in SUBSET (1 .. n), NEW i \in 1 .. Cardinality(S)
  PROVE  Nth(S, i) \in S /\ Rank(S, Nth(S, i)) = i
<1> DEFINE D == {m \in Nat : Rank(S, m) >= i}
<1>1. /\ \A m \in Nat : Rank(S, m) \in Nat
      /\ \A m \in Nat : Rank(S, m + 1) = Rank(S, m) + (IF m + 1 \in S THEN 1 ELSE 0)
  BY RankStep
<1>2. Cardinality(S) \in Nat
  BY RankStep, FS_CardinalityType
<1>3. n \in D
  BY <1>2, RankStep
<1>4. PICK m \in D : \A x \in D : m <= x
  BY <1>3, LeastExists
<1>5. m # 0
  BY <1>2, RankStep
<1>6. PICK l \in Nat : m = l + 1
  BY <1>4, <1>5, m - 1 \in Nat
<1>7. l \notin D /\ Rank(S, m) = Rank(S, l) + (IF m \in S THEN 1 ELSE 0)
  <2>1. Rank(S, l + 1) = Rank(S, l) + (IF l + 1 \in S THEN 1 ELSE 0)
    BY <1>1, <1>6
  <2>2. ~(m <= l)
    BY <1>6
  <2> QED BY <1>4, <1>6, <2>1, <2>2
<1>8. m \in S /\ Rank(S, m) = i
  <2>1. PICK a : a = Rank(S, m)
    OBVIOUS
  <2>2. PICK b : b = Rank(S, l)
    OBVIOUS
  <2>3. a \in Nat /\ b \in Nat
    BY <1>1, <1>4, <2>1, <2>2
  <2>4. a >= i /\ ~(b >= i) /\ i \in Nat
    BY <1>2, <1>4, <1>7, <2>1, <2>2
  <2>5. CASE m \in S
    <3>1. a = b + 1
      BY <1>7, <2>1, <2>2, <2>5
    <3> QED BY <2>1, <2>3, <2>4, <2>5, <3>1
  <2>6. CASE m \notin S
    <3>1. a = b + 0
      BY <1>7, <2>1, <2>2, <2>6
    <3> QED BY <2>3, <2>4, <3>1
  <2> QED BY <2>5, <2>6
<1>9. \E j \in S : Rank(S, j) = i
  BY <1>8
<1> QED BY <1>9 DEF Nth, Rank, Upto

\* A later place has a greater rank.
LEMMA RankGrows ==
  ASSUME NEW n \in Nat, NEW S \in SUBSET (1 .. n), NEW j \in Nat, NEW k \in S, j < k
  PROVE  Rank(S, j) < Rank(S, k)
<1>1. Upto(S, j) \subseteq Upto(S, k) /\ k \in Upto(S, k)
  BY DEF Upto
<1>2. k \notin Upto(S, j)
  BY DEF Upto
<1>3. IsFiniteSet(Upto(S, j)) /\ IsFiniteSet(Upto(S, k))
  BY RankStep
<1>4. Rank(S, j) \in Nat /\ Rank(S, k) \in Nat
  BY <1>3, FS_CardinalityType DEF Rank
<1>5. Rank(S, j) <= Rank(S, k)
  BY <1>1, <1>3, FS_Subset DEF Rank
<1>6. Rank(S, j) # Rank(S, k)
  BY <1>1, <1>2, <1>3, FS_Subset DEF Rank
<1> QED BY <1>4, <1>5, <1>6

\* Each place is the one of its rank.
LEMMA NthOfRank ==
  ASSUME NEW n \in Nat, NEW S \in SUBSET (1 .. n), NEW j \in S
  PROVE  Rank(S, j) \in 1 .. Cardinality(S) /\ Nth(S, Rank(S, j)) = j
<1> DEFINE k == Nth(S, Rank(S, j))
<1>1. j \in Nat /\ 0 < j
  OBVIOUS
<1>2. Rank(S, 0) < Rank(S, j)
  BY <1>1, RankGrows
<1>3. Rank(S, j) \in 0 .. Cardinality(S) /\ Rank(S, 0) = 0 /\ Cardinality(S) \in Nat
  BY <1>1, RankStep, FS_CardinalityType
<1>4. Rank(S, j) \in 1 .. Cardinality(S)
  BY <1>2, <1>3
<1>5. k \in S /\ Rank(S, k) = Rank(S, j)
  BY <1>4, NthExists
<1> HIDE DEF k
<1>6. k \in Nat /\ (k < j => Rank(S, k) < Rank(S, j))
  <2>1. k \in Nat
    BY <1>5
  <2> QED BY <2>1, RankGrows
<1>7. j < k => Rank(S, j) < Rank(S, k)
  BY <1>1, <1>5, RankGrows
<1>8. k = j
  BY <1>1, <1>3, <1>5, <1>6, <1>7
<1> QED BY <1>4, <1>8 DEF k

\* What is left after a removal is a shorter list of the same strings.
LEMMA WithoutType ==
  ASSUME NEW V, NEW s \in Seq(V), NEW count \in Int, NEW v
  PROVE  /\ Without(s, count, v) \in Seq(V)
         /\ Len(Without(s, count, v)) <= Len(s)
<1> DEFINE kept == DOMAIN s \ Doomed(s, count, v)
<1>1. kept \in SUBSET (1 .. Len(s)) /\ Len(s) \in Nat
  OBVIOUS
<1>2. Without(s, count, v) = [i \in 1 .. Cardinality(kept) |-> s[Nth(kept, i)]]
  BY DEF Without
<1> HIDE DEF kept
<1>3. Cardinality(kept) \in Nat /\ Cardinality(kept) <= Len(s)
  <2>1. IsFiniteSet(1 .. Len(s)) /\ Cardinality(1 .. Len(s)) = Len(s)
    <3>1. PICK n \in Nat : n = Len(s)
      BY <1>1
    <3>2. /\ IsFiniteSet(1 .. n)
          /\ Cardinality(1 .. n) = IF 1 > n THEN 0 ELSE n - 1 + 1
      BY FS_Interval
    <3>3. (IF 1 > n THEN 0 ELSE n - 1 + 1) = n
      OBVIOUS
    <3> QED BY <3>1, <3>2, <3>3, Zenon
  <2> QED BY <1>1, <2>1, FS_Subset, FS_CardinalityType
<1>4. \A i \in 1 .. Cardinality(kept) : s[Nth(kept, i)] \in V
  <2> SUFFICES ASSUME NEW i \in 1 .. Cardinality(kept)  PROVE s[Nth(kept, i)] \in V
    OBVIOUS
  <2>1. Nth(kept, i) \in kept
    BY <1>1, NthExists
  <2>2. Nth(kept, i) \in 1 .. Len(s)
    BY <1>1, <2>1
  <2> QED BY <2>2, ElementOfSeq
<1>5. Without(s, count, v) \in [1 .. Cardinality(kept) -> V]
  BY <1>2, <1>4
<1> HIDE DEF Without
<1>6. Without(s, count, v) \in Seq(V)
  BY <1>3, <1>5, SeqDef
<1>7. Len(Without(s, count, v)) = Cardinality(kept)
  BY <1>3, <1>5, <1>6
<1> QED BY <1>3, <1>6, <1>7

\* How a sequence with one more in front is recognised.
LEMMA IsCons ==
  ASSUME NEW V, NEW s \in Seq(V), NEW v \in V, NEW t \in Seq(V), Len(t) = Len(s) + 1,
         t[1] = v, \A i \in 1 .. Len(s) : t[i + 1] = s[i]
  PROVE  t = <<v>> \o s
<1> DEFINE c == <<v>> \o s
<1>1. <<v>> \in Seq(V) /\ Len(<<v>>) = 1 /\ <<v>>[1] = v
  OBVIOUS
<1>2. /\ c \in Seq(V) /\ Len(c) = 1 + Len(s)
      /\ \A i \in 1 .. 1 + Len(s) : c[i] = IF i <= 1 THEN <<v>>[i] ELSE s[i - 1]
  BY <1>1, ConcatProperties
<1> HIDE DEF c
<1>3. Len(s) \in Nat
  BY LenProperties
<1>4. ASSUME NEW i \in 1 .. Len(t)  PROVE t[i] = c[i]
  <2>1. CASE i = 1
    BY <1>1, <1>2, <1>3, <2>1
  <2>2. CASE i # 1
    <3>1. i - 1 \in 1 .. Len(s) /\ i \in 1 .. 1 + Len(s) /\ ~(i <= 1)
      BY <1>3, <2>2
    <3>2. t[(i - 1) + 1] = s[i - 1]
      BY <3>1
    <3>3. c[i] = s[i - 1]
      BY <1>2, <3>1
    <3> QED BY <3>1, <3>2, <3>3
  <2> QED BY <2>1, <2>2
<1>5. t = c
  BY <1>2, <1>3, <1>4, SeqEqual
<1> QED BY <1>5 DEF c

\* How one with one more at the end is recognised,
LEMMA IsAppend ==
  ASSUME NEW V, NEW s \in Seq(V), NEW v \in V, NEW t \in Seq(V), Len(t) = Len(s) + 1,
         t[Len(s) + 1] = v, \A i \in 1 .. Len(s) : t[i] = s[i]
  PROVE  t = Append(s, v)
<1> DEFINE c == Append(s, v)
<1>1. /\ c \in Seq(V) /\ Len(c) = Len(s) + 1
      /\ \A i \in 1 .. Len(s) : c[i] = s[i]
      /\ c[Len(s) + 1] = v
  BY AppendProperties
<1> HIDE DEF c
<1>2. Len(s) \in Nat
  BY LenProperties
<1>3. \A i \in 1 .. Len(t) : t[i] = c[i]
  <2> TAKE i \in 1 .. Len(t)
  <2>1. i \in 1 .. Len(s) \/ i = Len(s) + 1
    BY <1>2
  <2> QED BY <1>1, <2>1
<1>4. t = c
  BY <1>1, <1>3, SeqEqual
<1> QED BY <1>4 DEF c

\* of one without its first,
LEMMA IsTail ==
  ASSUME NEW V, NEW s \in Seq(V), s # <<>>, NEW t \in Seq(V), Len(t) = Len(s) - 1,
         \A i \in 1 .. Len(t) : t[i] = s[i + 1]
  PROVE  t = Tail(s)
<1> DEFINE c == Tail(s)
<1>1. c \in Seq(V) /\ Len(c) = Len(s) - 1 /\ \A i \in 1 .. Len(c) : c[i] = s[i + 1]
  BY HeadTailProperties
<1> HIDE DEF c
<1>2. t = c
  BY <1>1, SeqEqual
<1> QED BY <1>2 DEF c

\* and of one without its last.
LEMMA IsFront ==
  ASSUME NEW V, NEW s \in Seq(V), s # <<>>, NEW t \in Seq(V), Len(t) = Len(s) - 1,
         \A i \in 1 .. Len(t) : t[i] = s[i]
  PROVE  t = SubSeq(s, 1, Len(s) - 1)
<1> DEFINE c == SubSeq(s, 1, Len(s) - 1)
<1>1. Len(s) \in Nat \ {0}
  BY LenProperties, EmptySeq
<1>2. \A i \in 1 .. Len(s) - 1 : s[i] \in V
  BY <1>1, ElementOfSeq
<1>3. /\ c \in Seq(V) /\ Len(c) = IF 1 <= Len(s) - 1 THEN (Len(s) - 1) - 1 + 1 ELSE 0
      /\ \A i \in 1 .. (Len(s) - 1) - 1 + 1 : c[i] = s[1 + i - 1]
  BY <1>1, <1>2, SubSeqProperties
<1> HIDE DEF c
<1>4. Len(c) = Len(t)
  BY <1>1, <1>3
<1>5. \A i \in 1 .. Len(t) : t[i] = c[i]
  BY <1>1, <1>3
<1>6. t = c
  BY <1>3, <1>4, <1>5, SeqEqual
<1> QED BY <1>6 DEF c

\* The ranks of an interval.
LEMMA RankAll ==
  ASSUME NEW n \in Nat, NEW j \in 0 .. n
  PROVE  Rank(1 .. n, j) = j /\ Cardinality(1 .. n) = n
<1>1. Upto(1 .. n, j) = 1 .. j
  BY DEF Upto
<1>2. Cardinality(1 .. j) = j /\ Cardinality(1 .. n) = n
  BY FS_Interval
<1> QED BY <1>1, <1>2 DEF Rank

\* Without one of its places, a set has smaller ranks above it.
LEMMA RankWithout ==
  ASSUME NEW n \in Nat, NEW S \in SUBSET (1 .. n), NEW k \in S, NEW j \in S \ {k}
  PROVE  Rank(S \ {k}, j) = IF j < k THEN Rank(S, j) ELSE Rank(S, j) - 1
<1>1. j \in Nat /\ k \in Nat
  OBVIOUS
<1>2. IsFiniteSet(Upto(S, j)) /\ Cardinality(Upto(S, j)) \in Nat
  BY <1>1, RankStep, FS_CardinalityType
<1>3. CASE j < k
  <2>1. Upto(S \ {k}, j) = Upto(S, j)
    BY <1>3 DEF Upto
  <2> QED BY <1>3, <2>1 DEF Rank
<1>4. CASE ~(j < k)
  <2>1. k \in Upto(S, j)
    BY <1>1, <1>4 DEF Upto
  <2>2. Upto(S \ {k}, j) = Upto(S, j) \ {k}
    BY DEF Upto
  <2>3. Cardinality(Upto(S, j) \ {k}) = Cardinality(Upto(S, j)) - 1
    BY <1>2, <2>1, FS_RemoveElement
  <2> QED BY <1>4, <2>2, <2>3 DEF Rank
<1> QED BY <1>3, <1>4

\* The ranks of neighbours.
LEMMA RankNeighbours ==
  ASSUME NEW n \in Nat, NEW S \in SUBSET (1 .. n), NEW c \in S
  PROVE  /\ Rank(S, c) \in 1 .. Cardinality(S)
         /\ c = n => Rank(S, c) = Cardinality(S)
         /\ c = 1 => Rank(S, c) = 1
         /\ c + 1 \in S => Rank(S, c + 1) = Rank(S, c) + 1 /\ Rank(S, c) # Cardinality(S)
         /\ c - 1 \in S => Rank(S, c - 1) = Rank(S, c) - 1 /\ Rank(S, c) # 1
<1>1. c \in Nat /\ c - 1 \in Nat /\ (c - 1) + 1 = c /\ Cardinality(S) \in Nat
  <2>1. IsFiniteSet(S)
    BY RankStep, 0 \in Nat
  <2> QED BY <2>1, FS_CardinalityType
<1>2. Rank(S, c) \in 1 .. Cardinality(S)
  BY NthOfRank
<1>3. c = n => Rank(S, c) = Cardinality(S)
  BY <1>1, RankStep
<1>4. c = 1 => Rank(S, c) = 1
  <2>1. Rank(S, 0 + 1) = Rank(S, 0) + (IF 0 + 1 \in S THEN 1 ELSE 0) /\ Rank(S, 0) = 0
    BY RankStep
  <2> QED BY <2>1
<1>5. ASSUME c + 1 \in S
      PROVE  Rank(S, c + 1) = Rank(S, c) + 1 /\ Rank(S, c) # Cardinality(S)
  <2>1. Rank(S, c + 1) = Rank(S, c) + 1
    BY <1>1, <1>5, RankStep
  <2>2. Rank(S, c + 1) \in 1 .. Cardinality(S)
    BY <1>5, NthOfRank
  <2> QED BY <1>1, <1>2, <2>1, <2>2
<1>6. ASSUME c - 1 \in S
      PROVE  Rank(S, c - 1) = Rank(S, c) - 1 /\ Rank(S, c) # 1
  <2>1. Rank(S, (c - 1) + 1) = Rank(S, c - 1) + (IF (c - 1) + 1 \in S THEN 1 ELSE 0)
    BY <1>1, RankStep
  <2>2. Rank(S, c - 1) \in 1 .. Cardinality(S)
    BY <1>6, NthOfRank
  <2> QED BY <1>1, <1>2, <2>1, <2>2
<1> QED BY <1>2, <1>3, <1>4, <1>5, <1>6

\* The first n of a set of places, and the last n.
Under(S, c) == {j \in S : j < c}
Over(S, c) == {j \in S : j > c}
FirstOnes(S, n) == {i \in S : Cardinality({j \in S : j <= i}) <= n}
LastOnes(S, n) == {i \in S : Cardinality({j \in S : j >= i}) <= n}

\* A walk from the front that stops after n of the places has passed the first n.
LEMMA TheFirst ==
  ASSUME NEW m \in Nat, NEW all \in SUBSET (1 .. m), NEW c \in Int, NEW n \in Nat,
         Cardinality(Under(all, c)) <= n, Cardinality(Under(all, c)) = n \/ Under(all, c) = all
  PROVE  Under(all, c) = FirstOnes(all, n)
<1> DEFINE gone == Under(all, c)
           Low(i) == {j \in all : j <= i}
<1>1. IsFiniteSet(1 .. m)
  BY FS_Interval
<1>2. IsFiniteSet(all)
  BY <1>1, FS_Subset
<1>3. gone \subseteq all /\ \A i \in all : i \in Int /\ (i \in gone <=> i < c)
  BY DEF Under
<1>4. Cardinality(gone) <= n /\ (Cardinality(gone) = n \/ gone = all)
  OBVIOUS
<1> HIDE DEF gone
<1>5. IsFiniteSet(gone) /\ Cardinality(gone) \in Nat
  BY <1>2, <1>3, FS_Subset, FS_CardinalityType
<1>6. ASSUME NEW i \in gone  PROVE Cardinality(Low(i)) <= n
  <2> DEFINE l == Low(i)
  <2>1. l \subseteq gone
    <3>1. i \in all /\ i \in Int /\ i < c
      BY <1>3, <1>6
    <3>2. \A j \in all : j <= i => j \in gone
      BY <1>3, <3>1
    <3> QED BY <3>2
  <2> HIDE DEF l
  <2>2. IsFiniteSet(l) /\ Cardinality(l) \in Nat /\ Cardinality(l) <= Cardinality(gone)
    BY <1>5, <2>1, FS_Subset, FS_CardinalityType
  <2> QED BY <1>4, <1>5, <2>2 DEF l
<1>7. ASSUME NEW i \in all, i \notin gone  PROVE ~(Cardinality(Low(i)) <= n)
  <2> DEFINE l == Low(i)
             more == gone \cup {i}
  <2>1. l \subseteq all /\ more \subseteq l
    BY <1>3, <1>7
  <2>2. Cardinality(more) = Cardinality(gone) + 1
    BY <1>5, <1>7, FS_AddElement
  <2>3. Cardinality(gone) = n
    BY <1>4, <1>7
  <2> HIDE DEF l, more
  <2>4. IsFiniteSet(l) /\ Cardinality(l) \in Nat
    BY <1>2, <2>1, FS_Subset, FS_CardinalityType
  <2>5. Cardinality(more) <= Cardinality(l)
    BY <2>1, <2>4, FS_Subset
  <2> QED BY <2>2, <2>3, <2>4, <2>5 DEF l
<1>8. gone = FirstOnes(all, n)
  BY <1>3, <1>6, <1>7 DEF FirstOnes
<1> QED BY <1>8 DEF gone

\* A walk from the back has passed the last n.
LEMMA TheLast ==
  ASSUME NEW m \in Nat, NEW all \in SUBSET (1 .. m), NEW c \in Int, NEW n \in Nat,
         Cardinality(Over(all, c)) <= n, Cardinality(Over(all, c)) = n \/ Over(all, c) = all
  PROVE  Over(all, c) = LastOnes(all, n)
<1> DEFINE gone == Over(all, c)
           High(i) == {j \in all : j >= i}
<1>1. IsFiniteSet(1 .. m)
  BY FS_Interval
<1>2. IsFiniteSet(all)
  BY <1>1, FS_Subset
<1>3. gone \subseteq all /\ \A i \in all : i \in Int /\ (i \in gone <=> i > c)
  BY DEF Over
<1>4. Cardinality(gone) <= n /\ (Cardinality(gone) = n \/ gone = all)
  OBVIOUS
<1> HIDE DEF gone
<1>5. IsFiniteSet(gone) /\ Cardinality(gone) \in Nat
  BY <1>2, <1>3, FS_Subset, FS_CardinalityType
<1>6. ASSUME NEW i \in gone  PROVE Cardinality(High(i)) <= n
  <2> DEFINE l == High(i)
  <2>1. l \subseteq gone
    <3>1. i \in all /\ i \in Int /\ i > c
      BY <1>3, <1>6
    <3>2. \A j \in all : j >= i => j \in gone
      BY <1>3, <3>1
    <3> QED BY <3>2
  <2> HIDE DEF l
  <2>2. IsFiniteSet(l) /\ Cardinality(l) \in Nat /\ Cardinality(l) <= Cardinality(gone)
    BY <1>5, <2>1, FS_Subset, FS_CardinalityType
  <2> QED BY <1>4, <1>5, <2>2 DEF l
<1>7. ASSUME NEW i \in all, i \notin gone  PROVE ~(Cardinality(High(i)) <= n)
  <2> DEFINE l == High(i)
             more == gone \cup {i}
  <2>1. l \subseteq all /\ more \subseteq l
    BY <1>3, <1>7
  <2>2. Cardinality(more) = Cardinality(gone) + 1
    BY <1>5, <1>7, FS_AddElement
  <2>3. Cardinality(gone) = n
    BY <1>4, <1>7
  <2> HIDE DEF l, more
  <2>4. IsFiniteSet(l) /\ Cardinality(l) \in Nat
    BY <1>2, <2>1, FS_Subset, FS_CardinalityType
  <2>5. Cardinality(more) <= Cardinality(l)
    BY <2>1, <2>4, FS_Subset
  <2> QED BY <2>2, <2>3, <2>4, <2>5 DEF l
<1>8. gone = LastOnes(all, n)
  BY <1>3, <1>6, <1>7 DEF LastOnes
<1> QED BY <1>8 DEF gone

\* The number of the places that are not in a set.
LEMMA Others ==
  ASSUME NEW n \in Nat, NEW S \in SUBSET (1 .. n)
  PROVE  Cardinality((1 .. n) \ S) = n - Cardinality(S)
<1> DEFINE both == (1 .. n) \cap S
<1>1. IsFiniteSet(1 .. n) /\ Cardinality(1 .. n) = n
  BY FS_Interval
<1>2. Cardinality((1 .. n) \ S) = Cardinality(1 .. n) - Cardinality(both)
  BY <1>1, FS_Difference
<1>3. both = S
  OBVIOUS
<1>4. Cardinality(both) = Cardinality(S)
  BY <1>3, Zenon
<1> HIDE DEF both
<1> QED BY <1>1, <1>2, <1>4
=============================================================================
