------------------------- MODULE Interpreter_proofs -------------------------
(***************************************************************************)
(* What src/interpreter.c keeps true of the keyspace, for every set of     *)
(* keys, strings and commands, and whichever keys and strings of Shaky the *)
(* tables lose.                                                            *)
(***************************************************************************)
EXTENDS Interpreter, ListOps_proofs

-----------------------------------------------------------------------------
(* Values *)

\* The fields of a hash, and the copies of a set, are no more than it counts.
HashFits(h) == IsFiniteSet(DOMAIN h.fields) /\ Cardinality(DOMAIN h.fields) <= h.used
Copies(s) == UNION {{m} \X (1 .. s.copies[m]) : m \in Data}
SetFits(s) == IsFiniteSet(Copies(s)) /\ Cardinality(Copies(s)) <= s.used

\* What CountedContainers asks of a value, and that the items are finitely many.
Fits(c) ==
  /\ c.type = "hash" => HashFits(c.val)
  /\ c.type = "set" => SetFits(c.val)
Counted(c) ==
  /\ c.type = "list" => c.val # <<>>
  /\ c.type \in {"hash", "set"} => c.val.used > 0
  /\ Fits(c)

AllCounted == \A k \in Keys : db[k] # NULL => Counted(db[k])

\* What may be put under k: absence, or a value of the type k has, if it has
\* one, that counts something.
Legal(k, c) ==
  /\ c \in Contents \cup {NULL}
  /\ c # NULL => is_type(k, c.type) /\ Counted(c)

\* d is the keyspace, or the keyspace after a legal change of one key.
Written(d) == d = db \/ \E k \in Keys : \E c : Legal(k, c) /\ d = [db EXCEPT ![k] = c]

DbOK == db \in [Keys -> Contents \cup {NULL}]

\* The four types.
LEMMA ContentsShape ==
  ASSUME NEW c \in Contents
  PROVE  /\ c = [type |-> c.type, val |-> c.val]
         /\ c.type \in {"string", "hash", "list", "set"}
         /\ c.type = "string" => c.val \in Strings
         /\ c.type = "hash" => c.val \in Hashes
         /\ c.type = "list" => c.val \in Lists
         /\ c.type = "set" => c.val \in Sets
BY DEF Contents

\* The values of each type.
LEMMA ContentsOf ==
  /\ \A s \in Strings : [type |-> "string", val |-> s] \in Contents
  /\ \A h \in Hashes : [type |-> "hash", val |-> h] \in Contents
  /\ \A s \in Lists : [type |-> "list", val |-> s] \in Contents
  /\ \A S \in Sets : [type |-> "set", val |-> S] \in Contents
BY DEF Contents

\* A list is a sequence of at most MaxLen strings.
LEMMA ListIsSeq ==
  ASSUME NEW s
  PROVE  s \in Lists <=> s \in Seq(Data) /\ Len(s) \in 0 .. MaxLen
<1> USE InterpreterAssumption
<1>1. ASSUME s \in Lists
      PROVE  s \in Seq(Data) /\ Len(s) \in 0 .. MaxLen
  BY <1>1 DEF Lists
<1>2. ASSUME s \in Seq(Data), Len(s) \in 0 .. MaxLen
      PROVE  s \in Lists
  BY <1>2 DEF Lists
<1> QED BY <1>1, <1>2

\* The values that absence is read as.
LEMMA EmptyOnes ==
  /\ EmptyHash \in Hashes /\ DOMAIN EmptyHash.fields = {} /\ EmptyHash.used = 0
  /\ HashFits(EmptyHash)
  /\ <<>> \in Lists
  /\ EmptySet \in Sets /\ EmptySet.used = 0 /\ EmptySet.stones = FALSE
  /\ \A m \in Data : EmptySet.copies[m] = 0
  /\ SetFits(EmptySet)
<1>1. EmptyHash \in Hashes /\ DOMAIN EmptyHash.fields = {} /\ EmptyHash.used = 0
  <2>1. NoFields \in [{} -> Data] /\ DOMAIN NoFields = {}
    BY DEF NoFields
  <2>2. NoFields \in UNION {[F -> Data] : F \in SUBSET Data}
    BY <2>1
  <2> QED BY <2>1, <2>2 DEF EmptyHash, Hashes
<1>2. HashFits(EmptyHash)
  BY <1>1, FS_EmptySet DEF HashFits
<1>3. <<>> \in Lists
  <2>1. <<>> \in [1 .. 0 -> Data] /\ 0 \in 0 .. MaxLen
    BY InterpreterAssumption
  <2> QED BY <2>1 DEF Lists
<1>4. /\ EmptySet \in Sets /\ EmptySet.used = 0 /\ EmptySet.stones = FALSE
      /\ \A m \in Data : EmptySet.copies[m] = 0
  BY DEF EmptySet, Sets
<1>5. SetFits(EmptySet)
  <2>1. Copies(EmptySet) = {}
    BY <1>4 DEF Copies
  <2> QED BY <1>4, <2>1, FS_EmptySet DEF SetFits
<1> QED BY <1>1, <1>2, <1>3, <1>4, <1>5

\* Key k of d holds a value of type t or nothing.
HasType(d, k, t) == d[k] = NULL \/ d[k].type = t

\* is_type of the keyspace, as HasType says it.
LEMMA IsTypeHasType ==
  ASSUME DbOK, NEW k \in Keys, NEW t \in {"string", "hash", "list", "set"}
  PROVE  is_type(k, t) <=> HasType(db, k, t)
BY ContentsShape DEF DbOK, is_type, htable_type, HasType

\* What a key holds, when it holds a value of the type asked for or none.
LEMMA HeldOf ==
  ASSUME NEW c \in Contents \cup {NULL}
  PROVE  /\ c = NULL \/ c.type = "hash" => Held(c, EmptyHash) \in Hashes
         /\ c = NULL \/ c.type = "list" => Held(c, <<>>) \in Lists
         /\ c = NULL \/ c.type = "set" => Held(c, EmptySet) \in Sets
<1>1. CASE c = NULL
  BY <1>1, EmptyOnes DEF Held
<1>2. CASE c # NULL
  <2>1. Held(c, EmptyHash) = c.val /\ Held(c, <<>>) = c.val /\ Held(c, EmptySet) = c.val
    BY <1>2 DEF Held
  <2> QED BY <1>2, <2>1, ContentsShape
<1> QED BY <1>1, <1>2

\* So for the keyspace, where the counts are right.
LEMMA ValOf ==
  ASSUME DbOK, AllCounted, NEW k \in Keys
  PROVE  /\ is_type(k, "string") /\ db[k] # NULL => db[k].val \in Strings
         /\ is_type(k, "hash") => val(k, EmptyHash) \in Hashes /\ HashFits(val(k, EmptyHash))
         /\ is_type(k, "list") => val(k, <<>>) \in Lists
         /\ is_type(k, "set") => val(k, EmptySet) \in Sets /\ SetFits(val(k, EmptySet))
<1>1. db[k] \in Contents \cup {NULL}
  BY DEF DbOK
<1>2. \A t \in {"string", "hash", "list", "set"} : is_type(k, t) => db[k] = NULL \/ db[k].type = t
  BY IsTypeHasType DEF HasType
<1>3. /\ is_type(k, "hash") => val(k, EmptyHash) \in Hashes
      /\ is_type(k, "list") => val(k, <<>>) \in Lists
      /\ is_type(k, "set") => val(k, EmptySet) \in Sets
  BY <1>1, <1>2, HeldOf DEF val
<1>4. CASE db[k] = NULL
  BY <1>3, <1>4, EmptyOnes DEF val, Held
<1>5. CASE db[k] # NULL
  <2>1. val(k, EmptyHash) = db[k].val /\ val(k, EmptySet) = db[k].val
    BY <1>5 DEF val, Held
  <2>2. Fits(db[k])
    BY <1>5 DEF AllCounted, Counted
  <2>3. is_type(k, "string") => db[k].val \in Strings
    BY <1>1, <1>2, <1>5, ContentsShape
  <2> QED BY <1>2, <1>3, <1>5, <2>1, <2>2, <2>3 DEF Fits
<1> QED BY <1>4, <1>5

-----------------------------------------------------------------------------
(* Changes of the keyspace *)

\* A string goes under a key that holds a string or nothing.
LEMMA SetWrites ==
  ASSUME DbOK, NEW k \in Keys, NEW v \in Strings
  PROVE  Written(htable_set(db, k, v))
<1>1. CASE db[k] = NULL \/ db[k].type = "string"
  <2>1. Legal(k, Str(v))
    BY <1>1, ContentsOf DEF Legal, Counted, Fits, Str, is_type, htable_type
  <2> QED BY <1>1, <2>1 DEF htable_set, Written
<1>2. CASE ~(db[k] = NULL \/ db[k].type = "string")
  BY <1>2 DEF htable_set, Written
<1> QED BY <1>1, <1>2

\* Removal.
LEMMA DelWrites ==
  ASSUME DbOK, NEW k \in Keys
  PROVE  Written([db EXCEPT ![k] = NULL])
<1>1. Legal(k, NULL)
  BY DEF Legal
<1> QED BY <1>1 DEF Written

\* A container that counts something goes under a key of its type.
LEMMA ContainerWrites ==
  ASSUME DbOK, NEW k \in Keys, NEW t \in {"hash", "list", "set"}, NEW v,
         [type |-> t, val |-> v] \in Contents, is_type(k, t),
         Counted([type |-> t, val |-> v])
  PROVE  Written([db EXCEPT ![k] = [type |-> t, val |-> v]])
<1>1. Legal(k, [type |-> t, val |-> v])
  BY DEF Legal
<1> QED BY <1>1 DEF Written

\* Any container, when an empty one takes its key with it.
LEMMA StoredWrites ==
  ASSUME DbOK, NEW k \in Keys, NEW t \in {"hash", "list", "set"}, NEW v,
         [type |-> t, val |-> v] \in Contents, is_type(k, t), Fits([type |-> t, val |-> v])
  PROVE  Written(Stored(db, k, t, v))
<1> DEFINE empty == IF t = "list" THEN Len(v) = 0 ELSE v.used = 0
<1>1. CASE empty
  BY <1>1, DelWrites DEF Stored
<1>2. CASE ~empty
  <2>1. t = "list" => v # <<>>
    BY <1>2
  <2>2. t # "list" => v.used \in Nat /\ v.used # 0
    <3>1. /\ t = "hash" => v \in Hashes
          /\ t = "set" => v \in Sets
      BY ContentsShape
    <3> QED BY <1>2, <3>1 DEF Hashes, Sets
  <2>3. Counted([type |-> t, val |-> v])
    BY <2>1, <2>2 DEF Counted
  <2> QED BY <1>2, <2>3, ContainerWrites DEF Stored
<1> QED BY <1>1, <1>2

\* What a rehash may do to the keyspace.
LEMMA OutcomeIs ==
  ASSUME NEW d \in [Keys -> Contents \cup {NULL}], NEW e \in Outcomes(d)
  PROVE  /\ e \in [Keys -> Contents \cup {NULL}]
         /\ \A k \in Keys : SameOrLost(k, d, e)
         /\ Present(d) = Present(db) => e = d
<1>1. CASE Present(d) = Present(db)
  BY <1>1 DEF Outcomes, SameOrLost
<1>2. CASE Present(d) # Present(db)
  <2>1. PICK F \in Kept(Present(d)) : e = [k \in Keys |-> IF k \in F THEN d[k] ELSE NULL]
    BY <1>2 DEF Outcomes
  <2>2. \A k \in Keys : d[k] # NULL /\ k \notin F => k \in Shaky
    BY DEF Kept, Present
  <2>3. ASSUME NEW k \in Keys  PROVE SameOrLost(k, d, e)
    BY <2>1, <2>2 DEF SameOrLost
  <2> QED BY <1>2, <2>1, <2>3
<1> QED BY <1>1, <1>2

\* A legal change is of the keyspace's type.
LEMMA WrittenType ==
  ASSUME DbOK, NEW d, Written(d)
  PROVE  d \in [Keys -> Contents \cup {NULL}]
BY DEF DbOK, Written, Legal

\* What a legal change keeps, also when a rehash comes with it.
LEMMA WrittenKeeps ==
  ASSUME DbOK, AllCounted, NEW d, Written(d), db' \in Outcomes(d)
  PROVE  /\ DbOK' /\ AllCounted'
         /\ \A k \in Keys : db[k] # NULL /\ db'[k] # NULL => db'[k].type = db[k].type
<1>1. /\ db' \in [Keys -> Contents \cup {NULL}]
      /\ \A k \in Keys : db'[k] = d[k] \/ db'[k] = NULL
  BY WrittenType, OutcomeIs DEF SameOrLost
<1>2. \A k \in Keys : /\ d[k] # NULL => Counted(d[k])
                      /\ db[k] # NULL /\ d[k] # NULL => d[k].type = db[k].type
  <2>1. CASE d = db
    BY <2>1 DEF AllCounted
  <2>2. ASSUME NEW j \in Keys, NEW c, Legal(j, c), d = [db EXCEPT ![j] = c]
        PROVE  \A k \in Keys : /\ d[k] # NULL => Counted(d[k])
                               /\ db[k] # NULL /\ d[k] # NULL => d[k].type = db[k].type
    <3>1. d[j] = c /\ \A k \in Keys \ {j} : d[k] = db[k]
      BY <2>2 DEF DbOK
    <3>2. c # NULL => Counted(c)
      BY <2>2 DEF Legal
    <3>3. c # NULL /\ db[j] # NULL => c.type = db[j].type
      <4>1. c # NULL /\ db[j] # NULL
              => c \in Contents /\ db[j].type \in {c.type, "none"} /\ db[j] \in Contents
        BY <2>2 DEF Legal, is_type, htable_type, DbOK
      <4> QED BY <4>1, ContentsShape
    <3> QED BY <3>1, <3>2, <3>3 DEF AllCounted
  <2> QED BY <2>1, <2>2 DEF Written
<1>3. ASSUME NEW k \in Keys, db'[k] # NULL
      PROVE  Counted(db'[k])
  <2>1. db'[k] = d[k]
    BY <1>1, <1>3
  <2>2. Counted(d[k])
    BY <1>2, <1>3, <2>1
  <2> QED BY <2>1, <2>2
<1>4. AllCounted'
  <2>1. \A k \in Keys : db'[k] # NULL => Counted(db'[k])
    BY <1>3
  <2> QED BY <2>1, Zenon DEF AllCounted, Counted
<1> QED BY <1>1, <1>2, <1>4 DEF DbOK

-----------------------------------------------------------------------------
(* What tables may lose *)

\* One item more, and one that was not there before.
LEMMA OneMore ==
  ASSUME NEW X, IsFiniteSet(X), NEW x
  PROVE  /\ IsFiniteSet(X \cup {x}) /\ Cardinality(X) \in Nat /\ Cardinality(X \cup {x}) \in Nat
         /\ x \notin X => Cardinality(X \cup {x}) = Cardinality(X) + 1
         /\ Cardinality(X) <= Cardinality(X \cup {x})
         /\ Cardinality(X \cup {x}) <= Cardinality(X) + 1
<1>1. Cardinality(X) \in Nat
  BY FS_CardinalityType
<1>2. IsFiniteSet(X \cup {x})
  BY FS_AddElement
<1>3. Cardinality(X \cup {x}) = IF x \in X THEN Cardinality(X) ELSE Cardinality(X) + 1
  BY FS_AddElement
<1> QED BY <1>1, <1>2, <1>3

\* A hash without fields is one that counts nothing, or has lost what it counts.
LEMMA HashPlus ==
  ASSUME NEW h \in Hashes, NEW f \in DOMAIN h.fields, HashFits(h)
  PROVE  /\ h.used \in Nat /\ h.used > 0 /\ h.used - 1 \in Nat
         /\ IsFiniteSet(DOMAIN h.fields \ {f})
         /\ Cardinality(DOMAIN h.fields \ {f}) <= h.used - 1
<1>1. IsFiniteSet(DOMAIN h.fields) /\ Cardinality(DOMAIN h.fields) <= h.used /\ h.used \in Nat
  BY DEF HashFits, Hashes
<1>2. Cardinality(DOMAIN h.fields) \in Nat
  BY <1>1, FS_CardinalityType
<1>3. Cardinality(DOMAIN h.fields \ {f}) = Cardinality(DOMAIN h.fields) - 1
      /\ IsFiniteSet(DOMAIN h.fields \ {f})
  BY <1>1, FS_RemoveElement
<1>4. Cardinality(DOMAIN h.fields \ {f}) \in Nat
  BY <1>3, FS_CardinalityType
<1> QED BY <1>1, <1>2, <1>3, <1>4

\* The functions of a hash.
LEMMA FieldsShape ==
  ASSUME NEW h \in Hashes
  PROVE  /\ h = [fields |-> h.fields, used |-> h.used] /\ h.used \in Nat
         /\ DOMAIN h.fields \subseteq Data /\ h.fields \in [DOMAIN h.fields -> Data]
<1>1. h = [fields |-> h.fields, used |-> h.used] /\ h.used \in Nat
      /\ h.fields \in UNION {[F -> Data] : F \in SUBSET Data}
  BY DEF Hashes
<1>2. PICK F \in SUBSET Data : h.fields \in [F -> Data]
  BY <1>1
<1> QED BY <1>1, <1>2

\* A part of the fields of a hash, when it counts enough, is a hash.
LEMMA HashPart ==
  ASSUME NEW D \in SUBSET Data, NEW g \in [D -> Data], NEW n \in Nat,
         IsFiniteSet(D), Cardinality(D) <= n, NEW F \in Kept(D), NEW t,
         t = [fields |-> Restrict(g, F), used |-> n]
  PROVE  /\ t \in Hashes /\ HashFits(t) /\ Remains(DOMAIN t.fields, D) /\ t.used = n
         /\ \A f \in DOMAIN t.fields : t.fields[f] = g[f]
<1>1. F \subseteq D /\ D \ Shaky \subseteq F
  BY DEF Kept
<1>2. /\ t.fields = [f \in F |-> g[f]] /\ t.used = n
      /\ t = [fields |-> t.fields, used |-> t.used]
  BY DEF Restrict
<1>3. t.fields \in [F -> Data] /\ F \in SUBSET Data
  BY <1>1, <1>2
<1>4. t \in Hashes
  BY <1>2, <1>3 DEF Hashes
<1>5. HashFits(t)
  <2>1. IsFiniteSet(F) /\ Cardinality(F) <= Cardinality(D)
    BY <1>1, FS_Subset
  <2>2. Cardinality(F) \in Nat /\ Cardinality(D) \in Nat
    BY <2>1, FS_CardinalityType
  <2> QED BY <1>2, <1>3, <2>1, <2>2 DEF HashFits
<1> QED BY <1>1, <1>2, <1>3, <1>4, <1>5 DEF Remains

\* t is what h becomes when f is set to v, but for what a table may lose.
HashWith(h, f, v, t) ==
  /\ t.used \in {h.used, h.used + 1}
  /\ Remains(DOMAIN t.fields, DOMAIN h.fields \cup {f})
  /\ \A g \in DOMAIN t.fields : t.fields[g] = IF g = f THEN v ELSE h.fields[g]

\* htable_set of a field.
LEMMA HashPut ==
  ASSUME NEW h \in Hashes, HashFits(h), NEW f \in Data, NEW v \in Data,
         NEW t \in htable_update_hash(h, f, v)
  PROVE  t \in Hashes /\ HashFits(t) /\ t.used > 0 /\ HashWith(h, f, v, t)
<1> DEFINE D == DOMAIN h.fields
           with == [g \in D \cup {f} |-> IF g = f THEN v ELSE h.fields[g]]
<1>1. /\ h = [fields |-> h.fields, used |-> h.used] /\ h.used \in Nat
      /\ D \subseteq Data /\ h.fields \in [D -> Data]
  BY FieldsShape
<1>2. IsFiniteSet(D) /\ Cardinality(D) <= h.used
  BY DEF HashFits
<1>3. with \in [D \cup {f} -> Data] /\ D \cup {f} \in SUBSET Data
  BY <1>1
<1>4. CASE f \in D
  <2>1. t = [h EXCEPT !.fields = with]
    BY <1>4 DEF htable_update_hash
  <2>2. t = [fields |-> with, used |-> h.used] /\ D \cup {f} = D
    BY <1>1, <1>4, <2>1
  <2>3. DOMAIN t.fields = D /\ t.used = h.used /\ t.fields = with
    BY <2>2
  <2>4. h.used > 0
    <3>1. f \in DOMAIN h.fields
      BY <1>4
    <3> QED BY <3>1, HashPlus
  <2> HIDE DEF D
  <2>5. t \in Hashes
    BY <1>1, <1>3, <2>2 DEF Hashes
  <2> QED BY <1>2, <1>4, <2>3, <2>4, <2>5 DEF HashFits, HashWith, Remains, D
<1>5. ASSUME f \notin D, NEW F \in Kept(DOMAIN with),
             t = [fields |-> Restrict(with, F), used |-> h.used + 1]
      PROVE  /\ t \in Hashes /\ HashFits(t) /\ t.used > 0
             /\ t.used \in {h.used, h.used + 1}
             /\ Remains(DOMAIN t.fields, DOMAIN h.fields \cup {f})
             /\ \A g \in DOMAIN t.fields : t.fields[g] = IF g = f THEN v ELSE h.fields[g]
  <2>1. DOMAIN with = D \cup {f}
    OBVIOUS
  <2>2. IsFiniteSet(D \cup {f}) /\ Cardinality(D \cup {f}) <= h.used + 1 /\ h.used + 1 \in Nat
    <3>1. Cardinality(D) \in Nat /\ Cardinality(D \cup {f}) \in Nat
          /\ Cardinality(D \cup {f}) <= Cardinality(D) + 1 /\ IsFiniteSet(D \cup {f})
      BY <1>2, OneMore
    <3> QED BY <1>1, <1>2, <3>1
  <2> HIDE DEF with, D
  <2>3. /\ t \in Hashes /\ HashFits(t) /\ Remains(DOMAIN t.fields, D \cup {f})
        /\ t.used = h.used + 1
        /\ \A g \in DOMAIN t.fields : t.fields[g] = with[g]
    BY <1>3, <1>5, <2>1, <2>2, HashPart
  <2>4. \A g \in DOMAIN t.fields : t.fields[g] = IF g = f THEN v ELSE h.fields[g]
    BY <2>3 DEF Remains, with
  <2> QED BY <1>1, <2>3, <2>4 DEF D
<1>6. CASE t = h /\ f \in Shaky /\ D # {} /\ f \notin D
  <2>1. h.used > 0
    <3>1. PICK g : g \in DOMAIN h.fields
      BY <1>6
    <3> QED BY <3>1, HashPlus
  <2>2. D \subseteq D \cup {f} /\ (D \cup {f}) \ Shaky \subseteq D
    BY <1>6
  <2> QED BY <1>6, <2>1, <2>2 DEF HashWith, Remains
<1>7. f \notin D => \/ \E F \in Kept(DOMAIN with) : t = [fields |-> Restrict(with, F), used |-> h.used + 1]
                    \/ t = h /\ f \in Shaky /\ D # {}
  BY DEF htable_update_hash
<1> QED BY <1>4, <1>5, <1>6, <1>7 DEF HashWith

\* htable_del of a field.
LEMMA HashTake ==
  ASSUME NEW h \in Hashes, HashFits(h), NEW f \in DOMAIN h.fields,
         NEW F \in Kept(DOMAIN h.fields \ {f}), NEW t,
         t = [fields |-> Restrict(h.fields, F), used |-> h.used - 1]
  PROVE  /\ t \in Hashes /\ HashFits(t) /\ t.used = h.used - 1
         /\ Remains(DOMAIN t.fields, DOMAIN h.fields \ {f})
         /\ \A g \in DOMAIN t.fields : t.fields[g] = h.fields[g]
<1> DEFINE D == DOMAIN h.fields \ {f}
           r == [g \in D |-> h.fields[g]]
<1>1. DOMAIN h.fields \subseteq Data /\ h.fields \in [DOMAIN h.fields -> Data]
  BY FieldsShape
<1>2. h.used - 1 \in Nat /\ IsFiniteSet(D) /\ Cardinality(D) <= h.used - 1
  BY HashPlus
<1>3. r \in [D -> Data] /\ D \in SUBSET Data
  BY <1>1
<1>4. F \subseteq D
  BY DEF Kept
<1>5. Restrict(h.fields, F) = Restrict(r, F)
  BY <1>4 DEF Restrict
<1>6. \A g \in D : r[g] = h.fields[g]
  OBVIOUS
<1> HIDE DEF D, r
<1>7. /\ t \in Hashes /\ HashFits(t) /\ Remains(DOMAIN t.fields, D) /\ t.used = h.used - 1
      /\ \A g \in DOMAIN t.fields : t.fields[g] = r[g]
  <2>1. F \in Kept(D)
    BY DEF D
  <2> QED BY <1>2, <1>3, <1>5, <2>1, HashPart
<1> QED BY <1>6, <1>7 DEF Remains, D


\* What a set is made of.
LEMMA SetShape ==
  ASSUME NEW s \in Sets
  PROVE  /\ s = [copies |-> s.copies, used |-> s.used, stones |-> s.stones]
         /\ s.copies \in [Data -> Nat] /\ s.used \in Nat /\ s.stones \in BOOLEAN
         /\ \A m \in Data : m \in Members(s) <=> s.copies[m] # 0
BY DEF Sets, Members

\* A copy is one of those its member has.
LEMMA CopiesOf ==
  ASSUME NEW s, NEW m, NEW c
  PROVE  <<m, c>> \in Copies(s) <=> m \in Data /\ c \in 1 .. s.copies[m]
BY DEF Copies

\* And there are no others.
LEMMA CopyIs ==
  ASSUME NEW s, NEW x \in Copies(s)
  PROVE  \E m \in Data : \E c \in 1 .. s.copies[m] : x = <<m, c>>
<1>1. PICK m \in Data : x \in {m} \X (1 .. s.copies[m])
  BY DEF Copies
<1>2. PICK p \in {m}, c \in 1 .. s.copies[m] : x = <<p, c>>
  BY <1>1
<1> QED BY <1>2

\* What a rehash does to a set.
LEMMA ResizedFits ==
  ASSUME NEW s \in Sets, SetFits(s), NEW t \in Resized(s)
  PROVE  /\ t \in Sets /\ SetFits(t) /\ t.used = s.used
         /\ t.stones => s.stones
         /\ \A m \in Data : t.copies[m] <= s.copies[m]
         /\ Remains(Members(t), Members(s))
<1>1. /\ s.copies \in [Data -> Nat] /\ s.used \in Nat /\ s.stones \in BOOLEAN
      /\ \A m \in Data : m \in Members(s) <=> s.copies[m] # 0
  BY SetShape
<1>2. CASE t = s
  BY <1>1, <1>2 DEF Remains
<1>3. ASSUME NEW F \in Kept(Members(s)),
             t = [copies |-> [m \in Data |-> IF m \in F THEN 1 ELSE 0],
                  used |-> s.used, stones |-> FALSE]
      PROVE  /\ t \in Sets /\ SetFits(t) /\ t.used = s.used
             /\ t.stones => s.stones
             /\ \A m \in Data : t.copies[m] <= s.copies[m]
             /\ Remains(Members(t), Members(s))
  <2>1. F \subseteq Members(s) /\ Members(s) \ Shaky \subseteq F /\ F \subseteq Data
    BY DEF Kept, Members
  <2>2. /\ t.used = s.used /\ t.stones = FALSE
        /\ t.copies = [m \in Data |-> IF m \in F THEN 1 ELSE 0]
    BY <1>3
  <2>3. t \in Sets
    BY <1>1, <1>3 DEF Sets
  <2>4. \A m \in Data : t.copies[m] = IF m \in F THEN 1 ELSE 0
    BY <2>2
  <2>5. Members(t) = F
    BY <2>1, <2>4 DEF Members
  <2>6. \A m \in Data : t.copies[m] <= s.copies[m]
    BY <1>1, <2>1, <2>4
  <2>7. Copies(t) \subseteq Copies(s)
    <3>1. ASSUME NEW x \in Copies(t)  PROVE x \in Copies(s)
      <4>1. PICK m \in Data : \E c \in 1 .. t.copies[m] : x = <<m, c>>
        BY CopyIs, Zenon
      <4>2. PICK c \in 1 .. t.copies[m] : x = <<m, c>>
        BY <4>1
      <4>3. c \in 1 .. s.copies[m]
        BY <1>1, <2>3, <2>6, <4>1, <4>2 DEF Sets
      <4> QED BY <4>1, <4>2, <4>3, CopiesOf
    <3> QED BY <3>1
  <2>8. SetFits(t)
    <3>1. IsFiniteSet(Copies(s)) /\ Cardinality(Copies(s)) <= s.used
      BY DEF SetFits
    <3>2. /\ IsFiniteSet(Copies(t)) /\ Cardinality(Copies(t)) <= Cardinality(Copies(s))
      BY <2>7, <3>1, FS_Subset
    <3>3. Cardinality(Copies(t)) \in Nat /\ Cardinality(Copies(s)) \in Nat
      BY <3>1, <3>2, FS_CardinalityType
    <3> QED BY <1>1, <2>2, <3>1, <3>2, <3>3 DEF SetFits
  <2> QED BY <2>1, <2>2, <2>3, <2>5, <2>6, <2>8 DEF Remains
<1> QED BY <1>2, <1>3 DEF Resized

\* One copy more.
LEMMA CopyPut ==
  ASSUME NEW s \in Sets, SetFits(s), NEW m \in Data, NEW t \in Sets,
         t.used = s.used + 1, t.copies[m] = s.copies[m] + 1,
         \A x \in Data \ {m} : t.copies[x] = s.copies[x]
  PROVE  SetFits(t) /\ Members(t) = Members(s) \cup {m}
<1>1. /\ s.copies \in [Data -> Nat] /\ s.used \in Nat
      /\ t.copies \in [Data -> Nat] /\ t.used \in Nat
  BY SetShape
<1>4. t.copies[m] = s.copies[m] + 1 /\ \A x \in Data \ {m} : t.copies[x] = s.copies[x]
  OBVIOUS
<1>6. Members(t) = Members(s) \cup {m}
  BY <1>1, <1>4 DEF Members
<1>7. Copies(t) = Copies(s) \cup {<<m, s.copies[m] + 1>>}
  <2>1. ASSUME NEW x \in Copies(t)  PROVE x \in Copies(s) \cup {<<m, s.copies[m] + 1>>}
    <3>1. PICK y \in Data : \E c \in 1 .. t.copies[y] : x = <<y, c>>
      BY CopyIs, Zenon
    <3>2. PICK c \in 1 .. t.copies[y] : x = <<y, c>>
      BY <3>1
    <3>3. c \in 1 .. s.copies[y] \/ (y = m /\ c = s.copies[m] + 1)
      BY <1>1, <1>4, <3>1, <3>2
    <3> QED BY <3>1, <3>2, <3>3, CopiesOf
  <2>2. ASSUME NEW x \in Copies(s)  PROVE x \in Copies(t)
    <3>1. PICK y \in Data : \E c \in 1 .. s.copies[y] : x = <<y, c>>
      BY CopyIs, Zenon
    <3>2. PICK c \in 1 .. s.copies[y] : x = <<y, c>>
      BY <3>1
    <3>3. c \in 1 .. t.copies[y]
      BY <1>1, <1>4, <3>1, <3>2
    <3> QED BY <3>1, <3>2, <3>3, CopiesOf
  <2>3. <<m, s.copies[m] + 1>> \in Copies(t)
    <3>1. s.copies[m] + 1 \in 1 .. t.copies[m]
      BY <1>1, <1>4
    <3> QED BY <3>1, CopiesOf
  <2> QED BY <2>1, <2>2, <2>3
<1>8. SetFits(t)
  <2>1. IsFiniteSet(Copies(s)) /\ Cardinality(Copies(s)) <= s.used
    BY DEF SetFits
  <2>2. /\ IsFiniteSet(Copies(t)) /\ Cardinality(Copies(s)) \in Nat /\ Cardinality(Copies(t)) \in Nat
        /\ Cardinality(Copies(t)) <= Cardinality(Copies(s)) + 1
    BY <1>7, <2>1, OneMore
  <2> QED BY <1>1, <2>1, <2>2 DEF SetFits
<1> QED BY <1>6, <1>8

\* One copy less.
LEMMA CopyTake ==
  ASSUME NEW s \in Sets, SetFits(s), NEW m \in Members(s), NEW t,
         t.used = s.used - 1, t.copies \in [Data -> Nat],
         t.copies[m] = s.copies[m] - 1,
         \A x \in Data \ {m} : t.copies[x] = s.copies[x]
  PROVE  SetFits(t) /\ s.used - 1 \in Nat
<1>1. /\ s.copies \in [Data -> Nat] /\ s.used \in Nat /\ s.stones \in BOOLEAN
      /\ m \in Data /\ s.copies[m] # 0
  BY SetShape DEF Members
<1>2. t.used = s.used - 1
  OBVIOUS
<1>3. t.copies[m] = s.copies[m] - 1 /\ \A x \in Data \ {m} : t.copies[x] = s.copies[x]
  OBVIOUS
<1> DEFINE top == <<m, s.copies[m]>>
<1>4. top \in Copies(s)
  BY <1>1, CopiesOf
<1>5. Copies(t) \subseteq Copies(s) \ {top}
  <2>1. ASSUME NEW x \in Copies(t)  PROVE x \in Copies(s) /\ x # top
    <3>1. PICK y \in Data : \E c \in 1 .. t.copies[y] : x = <<y, c>>
      BY CopyIs, Zenon
    <3>2. PICK c \in 1 .. t.copies[y] : x = <<y, c>>
      BY <3>1
    <3>3. c \in 1 .. s.copies[y] /\ (y = m => c # s.copies[m])
      BY <1>1, <1>3, <3>1, <3>2
    <3> QED BY <3>1, <3>2, <3>3, CopiesOf
  <2> QED BY <2>1
<1> HIDE DEF top
<1>6. IsFiniteSet(Copies(s)) /\ Cardinality(Copies(s)) <= s.used
  BY DEF SetFits
<1>7. /\ IsFiniteSet(Copies(s) \ {top})
      /\ Cardinality(Copies(s) \ {top}) = Cardinality(Copies(s)) - 1
  BY <1>4, <1>6, FS_RemoveElement
<1>8. IsFiniteSet(Copies(t)) /\ Cardinality(Copies(t)) <= Cardinality(Copies(s) \ {top})
  BY <1>5, <1>7, FS_Subset
<1>9. /\ Cardinality(Copies(s)) \in Nat /\ Cardinality(Copies(t)) \in Nat
      /\ Cardinality(Copies(s) \ {top}) \in Nat
  BY <1>6, <1>7, <1>8, FS_CardinalityType
<1>10. s.used - 1 \in Nat
  BY <1>1, <1>6, <1>7, <1>9
<1>11. Cardinality(Copies(t)) <= t.used
  BY <1>1, <1>2, <1>6, <1>7, <1>8, <1>9
<1>12. SetFits(t)
  BY <1>8, <1>11 DEF SetFits
<1> QED BY <1>10, <1>12

\* t is what s becomes when m is stored, but for what a table may lose.
SetWith(s, m, t) ==
  /\ t.used = s.used + 1 /\ (t.stones => s.stones)
  /\ Remains(Members(t), Members(s) \cup {m})
  /\ m \in Members(s) => s.stones

\* set_add, when it finds a free slot.
LEMMA SetPut ==
  ASSUME NEW s \in Sets, SetFits(s), NEW m \in Data, NEW t \in htable_update_set(s, m)
  PROVE  t \in Sets /\ SetFits(t) /\ t.used > 0 /\ SetWith(s, m, t)
<1>1. PICK u : u = [s EXCEPT !.copies[m] = @ + 1, !.used = @ + 1] /\ t \in Resized(u)
  BY DEF htable_update_set
<1>2. /\ u \in Sets /\ SetFits(u) /\ u.used = s.used + 1 /\ u.stones = s.stones
      /\ Members(u) = Members(s) \cup {m}
  <2>1. /\ s = [copies |-> s.copies, used |-> s.used, stones |-> s.stones]
        /\ s.copies \in [Data -> Nat] /\ s.used \in Nat /\ s.stones \in BOOLEAN
    BY SetShape
  <2>2. u = [copies |-> [s.copies EXCEPT ![m] = @ + 1], used |-> s.used + 1, stones |-> s.stones]
    BY <1>1, <2>1
  <2>3. u.copies = [s.copies EXCEPT ![m] = @ + 1] /\ u.used = s.used + 1 /\ u.stones = s.stones
    BY <2>2
  <2>4. u.copies[m] = s.copies[m] + 1 /\ \A x \in Data \ {m} : u.copies[x] = s.copies[x]
    BY <2>1, <2>3
  <2>5. [s.copies EXCEPT ![m] = @ + 1] \in [Data -> Nat] /\ s.used + 1 \in Nat
    BY <2>1
  <2>6. u \in Sets
    BY <2>1, <2>2, <2>5 DEF Sets
  <2> QED BY <2>3, <2>4, <2>6, CopyPut
<1>3. s.used \in Nat
  BY SetShape
<1>4. /\ t \in Sets /\ SetFits(t) /\ t.used = u.used
      /\ t.stones => u.stones
      /\ Remains(Members(t), Members(u))
  BY <1>1, <1>2, ResizedFits
<1>5. m \in Members(s) => s.stones
  <2>1. s.copies[m] > 0 => s.stones
    BY Zenon DEF htable_update_set
  <2>2. m \in Members(s) => s.copies[m] > 0
    BY DEF Members
  <2> QED BY <2>1, <2>2
<1>6. t.used = s.used + 1 /\ t.used > 0
  BY <1>2, <1>3, <1>4
<1>7. t.stones => s.stones
  BY <1>2, <1>4, Zenon
<1>8. Remains(Members(t), Members(s) \cup {m})
  BY <1>2, <1>4
<1>9. SetWith(s, m, t)
  BY <1>5, <1>6, <1>7, <1>8, Zenon DEF SetWith
<1> QED BY <1>4, <1>6, <1>9

\* set_rem of a member.
LEMMA SetTake ==
  ASSUME NEW s \in Sets, SetFits(s), NEW m \in Members(s),
         NEW t \in Resized([copies |-> [s.copies EXCEPT ![m] = @ - 1],
                            used |-> s.used - 1, stones |-> TRUE])
  PROVE  /\ t \in Sets /\ SetFits(t) /\ t.used = s.used - 1
         /\ \A x \in Data : t.copies[x] <= s.copies[x]
         /\ t.copies[m] < s.copies[m]
         /\ Members(s) \ ({m} \cup Shaky) \subseteq Members(t)
<1> DEFINE c == [s.copies EXCEPT ![m] = @ - 1]
           u == [copies |-> c, used |-> s.used - 1, stones |-> TRUE]
<1>1. /\ u \in Sets /\ SetFits(u) /\ u.used = s.used - 1
      /\ u.copies[m] = s.copies[m] - 1
      /\ \A x \in Data \ {m} : u.copies[x] = s.copies[x]
  <2>1. s.copies \in [Data -> Nat] /\ s.used \in Nat /\ m \in Data /\ s.copies[m] # 0
    BY SetShape DEF Members
  <2>2. /\ c \in [Data -> Nat] /\ c[m] = s.copies[m] - 1
        /\ \A x \in Data \ {m} : c[x] = s.copies[x]
    BY <2>1
  <2> HIDE DEF c
  <2>3. u.copies = c /\ u.used = s.used - 1 /\ u.stones = TRUE
    OBVIOUS
  <2>4. s.used - 1 \in Nat => u \in Sets
    BY <2>2 DEF Sets
  <2> HIDE DEF u
  <2>5. SetFits(u) /\ s.used - 1 \in Nat
    BY <2>2, <2>3, CopyTake
  <2> QED BY <2>2, <2>3, <2>4, <2>5
<1> HIDE DEF u
<1>2. /\ t \in Sets /\ SetFits(t) /\ t.used = u.used
      /\ \A x \in Data : t.copies[x] <= u.copies[x]
      /\ Remains(Members(t), Members(u))
  <2>1. t \in Resized(u)
    BY DEF u
  <2> QED BY <1>1, <2>1, ResizedFits
<1>3. /\ s.copies \in [Data -> Nat] /\ u.copies \in [Data -> Nat] /\ t.copies \in [Data -> Nat]
      /\ m \in Data
  BY <1>1, <1>2, SetShape DEF Members
<1>4. \A x \in Data : t.copies[x] <= s.copies[x]
  <2> TAKE x \in Data
  <2>1. t.copies[x] <= u.copies[x] /\ u.copies[x] <= s.copies[x]
    BY <1>1, <1>2, <1>3
  <2> QED BY <1>3, <2>1
<1>5. t.copies[m] < s.copies[m]
  <2>1. t.copies[m] <= u.copies[m] /\ t.copies[m] \in Nat /\ u.copies[m] \in Nat /\ s.copies[m] \in Nat
    BY <1>2, <1>3
  <2> QED BY <1>1, <2>1
<1>6. Members(s) \ {m} \subseteq Members(u)
  BY <1>1 DEF Members
<1> QED BY <1>1, <1>2, <1>4, <1>5, <1>6 DEF Remains

-----------------------------------------------------------------------------
(* The inductive invariant *)

OnHash == {"hset", "hdel"}
OnList == {"lpush", "rpush"}
OnSet == {"sadd", "srem"}
Loops == {"del", "mset"} \cup OnHash \cup OnList \cup OnSet

ArgLists == Seq(Keys) \cup Seq(Keys \X Data) \cup Seq(Data \X Data) \cup Seq(Data)

\* The length of a list, absent or not.
ListLen(d, k) == IF d[k] = NULL THEN 0 ELSE Len(d[k].val)

\* A command under way is at one of its arguments, its key holds the type of
\* container it works on, and a list has room for what is still to be pushed.
RunFits(r, d) ==
  /\ DOMAIN r = {"op", "key", "args", "i", "result", "before"}
  /\ r.op \in Ops \cap Loops /\ r.args \in ArgLists /\ r.result \in Nat
  /\ r.before \in [Keys -> Contents \cup {NULL}]
  /\ r.i \in 1 .. Len(r.args)
  /\ r.op \in {"del", "mset"} => r.key = NULL
  /\ r.op = "del" => r.args \in Seq(Keys)
  /\ r.op = "mset" => r.args \in Seq(Keys \X Data)
  /\ r.op = "hset" => r.args \in Seq(Data \X Data)
  /\ r.op \in {"hdel"} \cup OnList \cup OnSet => r.args \in Seq(Data)
  /\ r.op \in OnHash => r.key \in Keys /\ HasType(d, r.key, "hash")
  /\ r.op \in OnSet => r.key \in Keys /\ HasType(d, r.key, "set")
  /\ r.op \in OnList => /\ r.key \in Keys /\ HasType(d, r.key, "list")
                        /\ ListLen(d, r.key) + Len(r.args) - r.i < MaxLen

RunOK == run # NULL => RunFits(run, db)

\* The inductive invariant.
IInv == TypeOK /\ AllCounted /\ RunOK

\* A step leaves all of it true when it leaves this true.
Fine ==
  /\ \E d : Written(d) /\ db' \in Outcomes(d)
  /\ RunOK'
  /\ status' \in {"up", "null number"} /\ reply'.op \in Ops \cup {"none"}

\* The arguments of a command are a list of one or more.
LEMMA SomeIsSeq ==
  ASSUME NEW S, NEW s \in Some(S)
  PROVE  s \in Seq(S) /\ Len(s) \in Nat \ {0}
<1>1. PICK n \in 1 .. MaxArgs : s \in [1 .. n -> S]
  BY DEF Some
<1>2. n \in Nat
  BY InterpreterAssumption
<1>3. s \in Seq(S)
  BY <1>1, <1>2, SeqDef
<1>4. Len(s) = n
  BY <1>1, <1>2, <1>3
<1> QED BY <1>1, <1>2, <1>3, <1>4

\* A key that is lost leaves a command as it is.
LEMMA LessFits ==
  ASSUME NEW r, NEW d \in [Keys -> Contents \cup {NULL}], NEW e, RunFits(r, d),
         \A k \in Keys : SameOrLost(k, d, e)
  PROVE  RunFits(r, e)
<1>1. r.op \in OnHash => r.key \in Keys /\ HasType(e, r.key, "hash")
  BY DEF RunFits, SameOrLost, HasType
<1>2. r.op \in OnSet => r.key \in Keys /\ HasType(e, r.key, "set")
  BY DEF RunFits, SameOrLost, HasType
<1>3. r.op \in OnList => /\ r.key \in Keys /\ HasType(e, r.key, "list")
                        /\ ListLen(e, r.key) + Len(r.args) - r.i < MaxLen
  <2> SUFFICES ASSUME r.op \in OnList
               PROVE  /\ r.key \in Keys /\ HasType(e, r.key, "list")
                      /\ ListLen(e, r.key) + Len(r.args) - r.i < MaxLen
    OBVIOUS
  <2>1. /\ r.key \in Keys /\ HasType(d, r.key, "list")
        /\ ListLen(d, r.key) + Len(r.args) - r.i < MaxLen
        /\ Len(r.args) \in Nat /\ r.i \in 1 .. Len(r.args)
    BY DEF RunFits, ArgLists
  <2>2. CASE e[r.key] = d[r.key]
    BY <2>1, <2>2 DEF HasType, ListLen
  <2>3. CASE e[r.key] = NULL
    <3>1. ListLen(d, r.key) \in Nat
      <4>1. CASE d[r.key] = NULL
        BY <4>1 DEF ListLen
      <4>2. CASE d[r.key] # NULL
        <5>1. d[r.key].val \in Lists
          BY <2>1, <4>2, ContentsShape DEF HasType
        <5> QED BY <4>2, <5>1, ListIsSeq DEF ListLen
      <4> QED BY <4>1, <4>2
    <3>2. ListLen(e, r.key) = 0
      BY <2>3 DEF ListLen
    <3> QED BY <2>1, <2>3, <3>1, <3>2, InterpreterAssumption DEF HasType
  <2> QED BY <2>1, <2>2, <2>3 DEF SameOrLost
<1> QED BY <1>1, <1>2, <1>3 DEF RunFits

\* A keyspace with the same keys comes out as it is.
LEMMA NothingLost == db \in Outcomes(db)
BY DEF Outcomes

\* A command that writes nothing, or that fails.
LEMMA QuietFine ==
  ASSUME IInv, UNCHANGED <<db, run>>, status' \in {"up", "null number"},
         reply'.op \in Ops \cup {"none"}
  PROVE  Fine
<1>1. Written(db) /\ db' \in Outcomes(db)
  BY NothingLost DEF Written
<1>2. RunOK'
  BY DEF IInv, RunOK
<1> QED BY <1>1, <1>2 DEF Fine

\* Answers that leave everything as it is.
LEMMA ReadFine ==
  ASSUME IInv, NEW op \in Ops, NEW ans, Read(op, ans)
  PROVE  Fine
<1>1. UNCHANGED <<db, run, status>> /\ reply'.op = op
  BY DEF Read, Reply
<1> QED BY <1>1, QuietFine DEF IInv, TypeOK

\* Answers to a command that wrote in one go.
LEMMA WriteFine ==
  ASSUME IInv, NEW op, Ready(op), NEW ans, NEW d, Write(op, d, ans), Written(d)
  PROVE  Fine
<1>1. UNCHANGED <<run, status>> /\ reply'.op = op /\ db' \in Outcomes(d) /\ run = NULL /\ op \in Ops
  BY DEF Write, Reply, Ready
<1> QED BY <1>1 DEF Fine, RunOK, IInv, TypeOK

\* The beginning of a loop.
LEMMA BeginFine ==
  ASSUME IInv, NEW op \in Ops, NEW k, NEW args, Begin(op, k, args),
         RunFits([op |-> op, key |-> k, args |-> args, i |-> 1, result |-> 0, before |-> db], db)
  PROVE  Fine
<1>1. /\ UNCHANGED <<db, status>> /\ reply'.op = op
      /\ run' = [op |-> op, key |-> k, args |-> args, i |-> 1, result |-> 0, before |-> db]
  BY DEF Begin, LoopFrom, Reply
<1>2. Written(db) /\ db' \in Outcomes(db)
  BY <1>1, NothingLost DEF Written
<1> QED BY <1>1, <1>2 DEF Fine, RunOK, IInv, TypeOK

\* An iteration of a loop.
LEMMA IterateFine ==
  ASSUME IInv, NEW op, Looping(op), NEW d, NEW result \in Nat, Iterate(d, result),
         Written(d), run.i < Len(run.args) => RunFits([run EXCEPT !.i = @ + 1, !.result = result], d)
  PROVE  Fine
<1>1. run # NULL /\ RunFits(run, db) /\ db' \in Outcomes(d) /\ UNCHANGED status
  BY DEF IInv, RunOK, Looping, Iterate
<1>2. run.op \in Ops
  BY <1>1 DEF RunFits
<1>3. reply'.op \in Ops \cup {"none"}
  <2>1. UNCHANGED reply \/ \E ans : reply' = [op |-> run.op, ans |-> ans]
    BY DEF Iterate, Reply
  <2>2. UNCHANGED reply \/ reply'.op = run.op
    BY <2>1
  <2> QED BY <1>2, <2>2 DEF IInv, TypeOK
<1>4. RunOK'
  <2>1. CASE run' = NULL
    BY <2>1 DEF RunOK
  <2>2. CASE /\ run.i < Len(run.args)
             /\ run' = [run EXCEPT !.i = @ + 1, !.result = result]
    <3>1. RunFits(run', d)
      BY <2>2
    <3>2. DbOK
      BY DEF IInv, TypeOK, DbOK
    <3>3. d \in [Keys -> Contents \cup {NULL}]
      BY <3>2, WrittenType
    <3>4. \A k \in Keys : SameOrLost(k, d, db')
      BY <1>1, <3>3, OutcomeIs
    <3>5. RunFits(run', db')
      BY <3>1, <3>3, <3>4, LessFits
    <3> QED BY <3>5 DEF RunOK
  <2> QED BY <2>1, <2>2 DEF Iterate
<1> QED BY <1>1, <1>3, <1>4 DEF Fine, IInv, TypeOK

-----------------------------------------------------------------------------
(* Commands that only answer *)

\* The command op answers, and does nothing else.
Answers(op) == Ready(op) /\ \E ans : Read(op, ans)

\* Commands on keys and strings that only answer.
LEMMA ReadStrings ==
  ASSUME NEW ks, NEW k
  PROVE  /\ exec_exists(ks) => Answers("exists")
         /\ exec_type(k) => Answers("type")
         /\ exec_set_nothing => Answers("set")
         /\ exec_get(k) => Answers("get")
         /\ exec_mget(ks) => Answers("mget")
         /\ exec_strlen(k) => Answers("strlen")
<1>1. exec_exists(ks) => Answers("exists")
  BY DEF exec_exists, Typed, Answers
<1>2. exec_type(k) => Answers("type")
  BY DEF exec_type, Typed, Answers
<1>3. exec_set_nothing => Answers("set")
  BY DEF exec_set_nothing, Typed, Answers
<1>4. exec_get(k) => Answers("get")
  BY DEF exec_get, Typed, Answers
<1>5. exec_mget(ks) => Answers("mget")
  BY DEF exec_mget, Typed, Answers
<1>6. exec_strlen(k) => Answers("strlen")
  BY DEF exec_strlen, Typed, Answers
<1> QED BY <1>1, <1>2, <1>3, <1>4, <1>5, <1>6

\* Commands on hashes that only answer.
LEMMA ReadHashes ==
  ASSUME NEW k, NEW f, NEW fs
  PROVE  /\ exec_hget(k, f) => Answers("hget")
         /\ exec_hexists(k, f) => Answers("hexists")
         /\ exec_hgetall(k) => Answers("hgetall")
         /\ exec_hkeys(k) => Answers("hkeys")
         /\ exec_hvals(k) => Answers("hvals")
         /\ exec_hlen(k) => Answers("hlen")
         /\ exec_hmget(k, fs) => Answers("hmget")
<1>1. exec_hget(k, f) => Answers("hget")
  BY DEF exec_hget, Typed, Answers
<1>2. exec_hexists(k, f) => Answers("hexists")
  BY DEF exec_hexists, Typed, Answers
<1>3. exec_hgetall(k) => Answers("hgetall")
  BY DEF exec_hgetall, Typed, Answers
<1>4. exec_hkeys(k) => Answers("hkeys")
  BY DEF exec_hkeys, Typed, Answers
<1>5. exec_hvals(k) => Answers("hvals")
  BY DEF exec_hvals, Typed, Answers
<1>6. exec_hlen(k) => Answers("hlen")
  BY DEF exec_hlen, Typed, Answers
<1>7. exec_hmget(k, fs) => Answers("hmget")
  BY DEF exec_hmget, Typed, Answers
<1> QED BY <1>1, <1>2, <1>3, <1>4, <1>5, <1>6, <1>7

\* Commands on lists that only answer.
LEMMA ReadLists ==
  ASSUME NEW k, NEW a, NEW b, NEW v
  PROVE  /\ exec_llen(k) => Answers("llen")
         /\ exec_lindex(k, a) => Answers("lindex")
         /\ exec_lrange(k, a, b) => Answers("lrange")
         /\ exec_lpos(k, v) => Answers("lpos")
<1>1. exec_llen(k) => Answers("llen")
  BY DEF exec_llen, Typed, Answers
<1>2. exec_lindex(k, a) => Answers("lindex")
  BY DEF exec_lindex, Typed, Answers
<1>3. exec_lrange(k, a, b) => Answers("lrange")
  BY DEF exec_lrange, Typed, Answers
<1>4. exec_lpos(k, v) => Answers("lpos")
  BY DEF exec_lpos, Typed, Answers
<1> QED BY <1>1, <1>2, <1>3, <1>4

\* Commands on sets that only answer.
LEMMA ReadSets ==
  ASSUME NEW k, NEW m, NEW ms
  PROVE  /\ exec_sismember(k, m) => Answers("sismember")
         /\ exec_smembers(k) => Answers("smembers")
         /\ exec_smismember(k, ms) => Answers("smismember")
<1>1. exec_sismember(k, m) => Answers("sismember")
  BY DEF exec_sismember, Typed, Answers
<1>2. exec_smembers(k) => Answers("smembers")
  BY DEF exec_smembers, Typed, Answers
<1>3. exec_smismember(k, ms) => Answers("smismember")
  BY DEF exec_smismember, Typed, Answers
<1> QED BY <1>1, <1>2, <1>3

-----------------------------------------------------------------------------
(* Commands that write in one go *)

\* Wrapped arithmetic stays an int.
LEMMA AsIntInRange ==
  ASSUME NEW n \in Int
  PROVE  AsInt(n) \in IntRange
<1>1. \A a \in Int : \A b \in Nat \ {0} : a % b \in 0 .. b - 1
  OBVIOUS
<1>2. 2 * (IntMax + 1) \in Nat \ {0} /\ n + IntMax + 1 \in Int
  BY WidthAssumption
<1>3. (n + IntMax + 1) % (2 * (IntMax + 1)) \in 0 .. 2 * (IntMax + 1) - 1
  BY <1>1, <1>2
<1> QED BY <1>3, WidthAssumption DEF AsInt, IntRange

\* A string that is_number lets through is read as an int.
LEMMA NumberIsInt ==
  ASSUME NEW s \in Strings, is_number(s)
  PROVE  strtoi(s) \in IntRange /\ strtoi(s) \in Int
<1>1. CASE s = EMPTY
  BY <1>1, WidthAssumption DEF strtoi, IntRange
<1>2. CASE s # EMPTY
  <2>1. s \in Int
    BY <1>2, InterpreterAssumption, WidthAssumption DEF is_number, Strings, IntRange
  <2>2. AsInt(s) \in IntRange
    BY <2>1, AsIntInRange
  <2> QED BY <1>2, <2>2, WidthAssumption DEF strtoi, IntRange
<1> QED BY <1>1, <1>2

\* set.
LEMMA SetFine ==
  ASSUME IInv, NEW k \in Keys, NEW v \in Data \cup {EMPTY}, exec_set(k, v)
  PROVE  Fine
<1>1. v \in Strings
  BY DEF Strings
<1>2. Written(htable_set(db, k, v))
  BY <1>1, SetWrites DEF IInv, TypeOK, DbOK
<1> QED BY <1>2, WriteFine DEF exec_set

\* incr and decr.
LEMMA AddConstantFine ==
  ASSUME IInv, NEW op, NEW k \in Keys, NEW n \in {1, -1}, AddConstant(op, k, n)
  PROVE  Fine
<1>1. DbOK /\ Ready(op) /\ op \in Ops
  BY DEF IInv, TypeOK, DbOK, AddConstant, Ready
<1>2. CASE \E ans : Read(op, ans)
  BY <1>1, <1>2, ReadFine
<1>3. CASE db[k] = NULL /\ Write(op, htable_set(db, k, n), Integer(n))
  <2>1. n \in Strings
    BY WidthAssumption DEF Strings, IntRange
  <2>2. Written(htable_set(db, k, n))
    BY <1>1, <2>1, SetWrites
  <2> QED BY <1>1, <1>3, <2>2, WriteFine
<1>4. ASSUME db[k] # NULL, is_number(db[k].val), is_type(k, "string"),
             NEW sum, sum = AsInt(strtoi(db[k].val) + n),
             Write(op, htable_set(db, k, sum), Integer(sum))
      PROVE  Fine
  <2>1. db[k].val \in Strings
    BY <1>1, <1>4, ValOf DEF IInv
  <2>2. strtoi(db[k].val) \in Int
    BY <1>4, <2>1, NumberIsInt
  <2>3. sum \in Strings
    BY <1>4, <2>2, AsIntInRange DEF Strings
  <2>4. Written(htable_set(db, k, sum))
    BY <1>1, <2>3, SetWrites
  <2> QED BY <1>1, <1>4, <2>4, WriteFine
<1> QED BY <1>2, <1>3, <1>4 DEF AddConstant, Typed

\* incrby and decrby, which may crash.
LEMMA AddOperandFine ==
  ASSUME IInv, NEW op, NEW k \in Keys, NEW a \in Numbers, NEW sign \in {1, -1},
         AddOperand(op, k, a, sign)
  PROVE  Fine
<1>1. DbOK /\ Ready(op) /\ op \in Ops /\ a \in Strings
  BY DEF IInv, TypeOK, DbOK, AddOperand, Ready, Strings
<1>2. CASE \E ans : Read(op, ans)
  BY <1>1, <1>2, ReadFine
<1>3. CASE Crash("null number")
  BY <1>3, QuietFine DEF Crash, IInv, TypeOK
<1>4. CASE is_number(a) /\ Write(op, htable_set(db, k, strtoi(a)), Integer(strtoi(a)))
  <2>1. strtoi(a) \in Strings
    BY <1>1, <1>4, NumberIsInt DEF Strings
  <2>2. Written(htable_set(db, k, strtoi(a)))
    BY <1>1, <2>1, SetWrites
  <2> QED BY <1>1, <1>4, <2>2, WriteFine
<1>5. ASSUME db[k] # NULL, is_number(db[k].val), is_number(a), is_type(k, "string"),
             NEW sum, sum = AsInt(strtoi(db[k].val) + sign * strtoi(a)),
             Write(op, htable_set(db, k, sum), Integer(sum))
      PROVE  Fine
  <2>1. db[k].val \in Strings
    BY <1>1, <1>5, ValOf DEF IInv
  <2>2. strtoi(db[k].val) \in Int /\ strtoi(a) \in Int
    BY <1>1, <1>5, <2>1, NumberIsInt
  <2>3. strtoi(db[k].val) + sign * strtoi(a) \in Int
    BY <2>2
  <2>4. sum \in Strings
    BY <1>5, <2>3, AsIntInRange DEF Strings
  <2>5. Written(htable_set(db, k, sum))
    BY <1>1, <2>4, SetWrites
  <2> QED BY <1>1, <1>5, <2>5, WriteFine
<1> QED BY <1>2, <1>3, <1>4, <1>5 DEF AddOperand, Typed

\* lpop and rpop.
LEMMA PopFine ==
  ASSUME IInv, NEW op, NEW k \in Keys, NEW dir, Pop(op, k, dir)
  PROVE  Fine
<1>1. DbOK /\ Ready(op) /\ op \in Ops
  BY DEF IInv, TypeOK, DbOK, Pop, Ready
<1>2. CASE \E ans : Read(op, ans)
  BY <1>1, <1>2, ReadFine
<1>3. ASSUME db[k] # NULL, is_type(k, "list"), NEW ans,
             Write(op, Stored(db, k, "list", IF dir = "LEFT" THEN Tail(db[k].val) ELSE Front(db[k].val)), ans)
      PROVE  Fine
  <2>1. db[k] \in Contents /\ db[k].type = "list"
    BY <1>1, <1>3, ContentsShape DEF DbOK, is_type, htable_type
  <2>2. db[k].val \in Lists /\ db[k].val # <<>>
    BY <1>3, <2>1, ContentsShape DEF IInv, AllCounted, Counted
  <2>3. db[k].val \in Seq(Data) /\ Len(db[k].val) \in 1 .. MaxLen
    BY <2>2, ListIsSeq, EmptySeq
  <2> DEFINE left == IF dir = "LEFT" THEN Tail(db[k].val) ELSE Front(db[k].val)
  <2>4. left \in Seq(Data) /\ Len(left) \in 0 .. MaxLen
    <3>1. Tail(db[k].val) \in Seq(Data) /\ Len(Tail(db[k].val)) \in 0 .. MaxLen
      BY <2>3, InterpreterAssumption
    <3>2. Front(db[k].val) \in Seq(Data) /\ Len(Front(db[k].val)) \in 0 .. MaxLen
      BY <2>3, InterpreterAssumption DEF Front
    <3> QED BY <3>1, <3>2
  <2>5. [type |-> "list", val |-> left] \in Contents
    BY <2>4, ListIsSeq, ContentsOf
  <2> HIDE DEF left
  <2>6. Written(Stored(db, k, "list", left))
    <3>1. Fits([type |-> "list", val |-> left])
      BY DEF Fits
    <3> QED BY <1>1, <1>3, <2>5, <3>1, StoredWrites
  <2> QED BY <1>1, <1>3, <2>6, WriteFine DEF left
<1> QED BY <1>2, <1>3 DEF Pop, Typed

\* lset.
LEMMA LSetFine ==
  ASSUME IInv, NEW k \in Keys, NEW a, NEW v \in Data, exec_lset(k, a, v)
  PROVE  Fine
<1>1. DbOK /\ Ready("lset") /\ "lset" \in Ops
  BY DEF IInv, TypeOK, DbOK, exec_lset, Ready
<1>2. CASE \E ans : Read("lset", ans)
  BY <1>1, <1>2, ReadFine
<1>3. ASSUME db[k] # NULL, is_type(k, "list"), InList(k, a), Write("lset", htable_lset(k, a, v), Ok)
      PROVE  Fine
  <2> DEFINE p == PlaceOf(k, a)
             s == [db[k].val EXCEPT ![p] = v]
  <2>1. db[k] \in Contents /\ db[k].type = "list"
    BY <1>1, <1>3, ContentsShape DEF DbOK, is_type, htable_type
  <2>2. db[k].val \in Lists
    BY <2>1, ContentsShape
  <2>3. p \in DOMAIN db[k].val
    BY <1>3 DEF InList
  <2>4. db[k].val \in Seq(Data) /\ Len(db[k].val) \in 0 .. MaxLen
    BY <2>2, ListIsSeq
  <2>5. s \in Seq(Data) /\ Len(s) = Len(db[k].val) /\ s # <<>>
    <3> HIDE DEF p
    <3>1. p \in 1 .. Len(db[k].val)
      BY <2>3, <2>4
    <3> QED BY <2>4, <3>1, ExceptSeq, EmptySeq
  <2>6. [type |-> "list", val |-> s] \in Contents
    <3> HIDE DEF s
    <3> QED BY <2>4, <2>5, ListIsSeq, ContentsOf
  <2>7. htable_lset(k, a, v) = [db EXCEPT ![k] = [type |-> "list", val |-> s]]
    <3>1. [db[k] EXCEPT !.val = s] = [type |-> "list", val |-> s]
      BY <2>1, ContentsShape
    <3> QED BY <3>1 DEF htable_lset
  <2> HIDE DEF s
  <2>8. Written(htable_lset(k, a, v))
    BY <1>1, <1>3, <2>5, <2>6, <2>7, ContainerWrites DEF Counted, Fits
  <2> QED BY <1>1, <1>3, <2>8, WriteFine
<1> QED BY <1>2, <1>3 DEF exec_lset, Typed

\* lrem.
LEMMA LRemFine ==
  ASSUME IInv, NEW k \in Keys, NEW a \in Numbers, NEW v \in Data, exec_lrem(k, a, v)
  PROVE  Fine
<1>1. DbOK /\ Ready("lrem") /\ "lrem" \in Ops
  BY DEF IInv, TypeOK, DbOK, exec_lrem, Ready
<1>2. CASE \E ans : Read("lrem", ans)
  BY <1>1, <1>2, ReadFine
<1>3. ASSUME db[k] # NULL, is_type(k, "list"), is_number(a), NEW ans,
             Write("lrem", htable_lrem(k, a, v), ans)
      PROVE  Fine
  <2> DEFINE s == Without(db[k].val, strtoi(a), v)
  <2>1. db[k] \in Contents /\ db[k].type = "list"
    BY <1>1, <1>3, ContentsShape DEF DbOK, is_type, htable_type
  <2>2. db[k].val \in Seq(Data) /\ Len(db[k].val) \in 0 .. MaxLen
    BY <2>1, ContentsShape, ListIsSeq
  <2>3. strtoi(a) \in Int
    BY <1>3, NumberIsInt DEF Strings
  <2>4. s \in Seq(Data) /\ Len(s) <= Len(db[k].val)
    BY <2>2, <2>3, WithoutType
  <2> HIDE DEF s
  <2>5. [type |-> "list", val |-> s] \in Contents
    <3>1. Len(s) \in 0 .. MaxLen
      BY <2>2, <2>4, InterpreterAssumption
    <3> QED BY <2>4, <3>1, ListIsSeq, ContentsOf
  <2>6. Written(Stored(db, k, "list", s))
    <3>1. Fits([type |-> "list", val |-> s])
      BY DEF Fits
    <3> QED BY <1>1, <1>3, <2>5, <3>1, StoredWrites
  <2> QED BY <1>1, <1>3, <2>6, WriteFine DEF s, htable_lrem
<1> QED BY <1>2, <1>3 DEF exec_lrem, Typed

-----------------------------------------------------------------------------
(* Loops begin and go round *)

\* del begins.
LEMMA BeginDel ==
  ASSUME IInv, NEW ks \in Some(Keys), exec_del(ks)
  PROVE  Fine
<1>1. DbOK /\ "del" \in Ops
  BY DEF IInv, TypeOK, DbOK, exec_del, Ready
<1>2. ks \in Seq(Keys) /\ Len(ks) \in Nat \ {0}
  BY SomeIsSeq
<1>3. Begin("del", NULL, ks)
  BY DEF exec_del
<1>4. RunFits([op |-> "del", key |-> NULL, args |-> ks, i |-> 1, result |-> 0, before |-> db], db)
  BY <1>1, <1>2 DEF RunFits, Loops, ArgLists, OnHash, OnList, OnSet, DbOK
<1> QED BY <1>1, <1>3, <1>4, BeginFine

\* mset begins.
LEMMA BeginMSet ==
  ASSUME IInv, NEW pairs \in Some(Keys \X Data), exec_mset(pairs)
  PROVE  Fine
<1>1. DbOK /\ "mset" \in Ops
  BY DEF IInv, TypeOK, DbOK, exec_mset, Ready
<1>2. pairs \in Seq(Keys \X Data) /\ Len(pairs) \in Nat \ {0}
  BY SomeIsSeq
<1>3. Begin("mset", NULL, pairs)
  BY DEF exec_mset
<1>4. RunFits([op |-> "mset", key |-> NULL, args |-> pairs, i |-> 1, result |-> 0, before |-> db], db)
  BY <1>1, <1>2 DEF RunFits, Loops, ArgLists, OnHash, OnList, OnSet, DbOK
<1> QED BY <1>1, <1>3, <1>4, BeginFine

\* hset begins, or answers with an error.
LEMMA BeginHSet ==
  ASSUME IInv, NEW k \in Keys, NEW pairs \in Some(Data \X Data), exec_hset(k, pairs)
  PROVE  Fine
<1>1. DbOK /\ "hset" \in Ops
  BY DEF IInv, TypeOK, DbOK, exec_hset, Ready
<1>2. pairs \in Seq(Data \X Data) /\ Len(pairs) \in Nat \ {0}
  BY SomeIsSeq
<1>3. CASE \E ans : Read("hset", ans)
  BY <1>1, <1>3, ReadFine
<1>4. CASE is_type(k, "hash") /\ Begin("hset", k, pairs)
  <2>1. RunFits([op |-> "hset", key |-> k, args |-> pairs, i |-> 1, result |-> 0, before |-> db], db)
    BY <1>1, <1>2, <1>4, IsTypeHasType DEF RunFits, Loops, ArgLists, OnHash, OnList, OnSet, DbOK
  <2> QED BY <1>1, <1>4, <2>1, BeginFine
<1> QED BY <1>3, <1>4 DEF exec_hset, Typed

\* hdel begins, or answers with an error.
LEMMA BeginHDel ==
  ASSUME IInv, NEW k \in Keys, NEW fs \in Some(Data), exec_hdel(k, fs)
  PROVE  Fine
<1>1. DbOK /\ "hdel" \in Ops
  BY DEF IInv, TypeOK, DbOK, exec_hdel, Ready
<1>2. fs \in Seq(Data) /\ Len(fs) \in Nat \ {0}
  BY SomeIsSeq
<1>3. CASE \E ans : Read("hdel", ans)
  BY <1>1, <1>3, ReadFine
<1>4. CASE is_type(k, "hash") /\ Begin("hdel", k, fs)
  <2>1. RunFits([op |-> "hdel", key |-> k, args |-> fs, i |-> 1, result |-> 0, before |-> db], db)
    BY <1>1, <1>2, <1>4, IsTypeHasType DEF RunFits, Loops, ArgLists, OnHash, OnList, OnSet, DbOK
  <2> QED BY <1>1, <1>4, <2>1, BeginFine
<1> QED BY <1>3, <1>4 DEF exec_hdel, Typed

\* sadd begins, or answers with an error.
LEMMA BeginSAdd ==
  ASSUME IInv, NEW k \in Keys, NEW ms \in Some(Data), exec_sadd(k, ms)
  PROVE  Fine
<1>1. DbOK /\ "sadd" \in Ops
  BY DEF IInv, TypeOK, DbOK, exec_sadd, Ready
<1>2. ms \in Seq(Data) /\ Len(ms) \in Nat \ {0}
  BY SomeIsSeq
<1>3. CASE \E ans : Read("sadd", ans)
  BY <1>1, <1>3, ReadFine
<1>4. CASE is_type(k, "set") /\ Begin("sadd", k, ms)
  <2>1. RunFits([op |-> "sadd", key |-> k, args |-> ms, i |-> 1, result |-> 0, before |-> db], db)
    BY <1>1, <1>2, <1>4, IsTypeHasType DEF RunFits, Loops, ArgLists, OnHash, OnList, OnSet, DbOK
  <2> QED BY <1>1, <1>4, <2>1, BeginFine
<1> QED BY <1>3, <1>4 DEF exec_sadd, Typed

\* srem begins, or answers with an error.
LEMMA BeginSRem ==
  ASSUME IInv, NEW k \in Keys, NEW ms \in Some(Data), exec_srem(k, ms)
  PROVE  Fine
<1>1. DbOK /\ "srem" \in Ops
  BY DEF IInv, TypeOK, DbOK, exec_srem, Ready
<1>2. ms \in Seq(Data) /\ Len(ms) \in Nat \ {0}
  BY SomeIsSeq
<1>3. CASE \E ans : Read("srem", ans)
  BY <1>1, <1>3, ReadFine
<1>4. CASE is_type(k, "set") /\ Begin("srem", k, ms)
  <2>1. RunFits([op |-> "srem", key |-> k, args |-> ms, i |-> 1, result |-> 0, before |-> db], db)
    BY <1>1, <1>2, <1>4, IsTypeHasType DEF RunFits, Loops, ArgLists, OnHash, OnList, OnSet, DbOK
  <2> QED BY <1>1, <1>4, <2>1, BeginFine
<1> QED BY <1>3, <1>4 DEF exec_srem, Typed

\* lpush and rpush, when the list has room.
LEMMA BeginPush ==
  ASSUME IInv, NEW op \in OnList, NEW k \in Keys, NEW vs \in Some(Data), exec_push(op, k, vs)
  PROVE  Fine
<1>1. DbOK /\ op \in Ops
  BY DEF IInv, TypeOK, DbOK, exec_push, Ready
<1>2. vs \in Seq(Data) /\ Len(vs) \in Nat \ {0}
  BY SomeIsSeq
<1>3. CASE \E ans : Read(op, ans)
  BY <1>1, <1>3, ReadFine
<1>4. CASE is_type(k, "list") /\ Len(val(k, <<>>)) + Len(vs) <= MaxLen /\ Begin(op, k, vs)
  <2>1. Len(val(k, <<>>)) = ListLen(db, k)
    BY EmptySeq DEF val, Held, ListLen
  <2>2. ListLen(db, k) \in Nat
    BY <1>1, <1>4, <2>1, ValOf, ListIsSeq DEF IInv
  <2>3. ListLen(db, k) + Len(vs) - 1 < MaxLen
    BY <1>2, <1>4, <2>1, <2>2, InterpreterAssumption
  <2>4. HasType(db, k, "list")
    BY <1>1, <1>4, IsTypeHasType
  <2>5. RunFits([op |-> op, key |-> k, args |-> vs, i |-> 1, result |-> 0, before |-> db], db)
    BY <1>1, <1>2, <2>3, <2>4 DEF RunFits, Loops, ArgLists, OnHash, OnList, OnSet, DbOK
  <2> QED BY <1>1, <1>4, <2>5, BeginFine
<1> QED BY <1>3, <1>4 DEF exec_push, Typed

\* Lists have lengths.
LEMMA ListLenNat ==
  ASSUME DbOK, NEW k \in Keys, HasType(db, k, "list")
  PROVE  ListLen(db, k) \in Nat
<1>1. CASE db[k] = NULL
  BY <1>1 DEF ListLen
<1>2. CASE db[k] # NULL
  <2>1. db[k].val \in Lists
    BY <1>2, ContentsShape DEF DbOK, HasType
  <2> QED BY <1>2, <2>1, ListIsSeq DEF ListLen
<1> QED BY <1>1, <1>2

\* The next argument.
LEMMA NextArgument ==
  ASSUME DbOK, RunFits(run, db), run.i < Len(run.args), NEW result \in Nat, NEW d,
         run.op \in OnHash => HasType(d, run.key, "hash"),
         run.op \in OnSet => HasType(d, run.key, "set"),
         run.op \in OnList => /\ HasType(d, run.key, "list")
                              /\ ListLen(d, run.key) = ListLen(db, run.key) + 1
  PROVE  RunFits([run EXCEPT !.i = @ + 1, !.result = result], d)
<1> DEFINE r == [run EXCEPT !.i = @ + 1, !.result = result]
<1>1. DOMAIN run = {"op", "key", "args", "i", "result", "before"}
  BY DEF RunFits
<1>2. /\ r.op = run.op /\ r.key = run.key /\ r.args = run.args /\ r.i = run.i + 1
      /\ r.result = result /\ r.before = run.before
  BY <1>1
<1>3. DOMAIN r = DOMAIN run
  OBVIOUS
<1>4. Len(run.args) \in Nat /\ run.i \in 1 .. Len(run.args)
  BY DEF ArgLists, RunFits
<1>5. r.i \in 1 .. Len(r.args)
  BY <1>2, <1>4
<1> HIDE DEF r
<1>6. r.op \in OnList => ListLen(d, r.key) + Len(r.args) - r.i < MaxLen
  <2> SUFFICES ASSUME r.op \in OnList  PROVE ListLen(d, r.key) + Len(r.args) - r.i < MaxLen
    OBVIOUS
  <2>1. ListLen(db, run.key) + Len(run.args) - run.i < MaxLen
    BY <1>2 DEF RunFits
  <2>2. ListLen(d, run.key) = ListLen(db, run.key) + 1
    BY <1>2
  <2>3. ListLen(db, run.key) \in Int
    BY <1>2, ListLenNat DEF RunFits
  <2> QED BY <1>2, <1>4, <2>1, <2>2, <2>3, InterpreterAssumption
<1>7. /\ r.op = "del" => r.args \in Seq(Keys)
      /\ r.op = "mset" => r.args \in Seq(Keys \X Data)
      /\ r.op \in {"del", "mset"} => r.key = NULL
      /\ r.op = "hset" => r.args \in Seq(Data \X Data)
      /\ r.op \in {"hdel"} \cup OnList \cup OnSet => r.args \in Seq(Data)
  BY <1>2 DEF RunFits
<1>8. /\ r.op \in OnHash => r.key \in Keys /\ HasType(d, r.key, "hash")
      /\ r.op \in OnSet => r.key \in Keys /\ HasType(d, r.key, "set")
      /\ r.op \in OnList => r.key \in Keys /\ HasType(d, r.key, "list")
  BY <1>2 DEF RunFits
<1>9. /\ r.op \in Ops \cap Loops /\ r.args \in ArgLists /\ r.result \in Nat
      /\ r.before \in [Keys -> Contents \cup {NULL}]
  BY <1>2 DEF RunFits
<1>10. RunFits(r, d)
  BY <1>1, <1>3, <1>5, <1>6, <1>7, <1>8, <1>9 DEF RunFits
<1> QED BY <1>10 DEF r

\* Where a loop is.
LEMMA AtArgument ==
  ASSUME IInv, run # NULL
  PROVE  /\ DbOK /\ RunFits(run, db)
         /\ run.op = "del" => arg \in Keys
         /\ run.op \in {"mset"} => arg \in Keys \X Data
         /\ run.op \in {"hset"} => arg \in Data \X Data
         /\ run.op \in {"hdel"} \cup OnList \cup OnSet => arg \in Data
<1>1. DbOK /\ RunFits(run, db)
  BY DEF IInv, TypeOK, RunOK, DbOK
<1> QED BY <1>1, ElementOfSeq DEF RunFits, arg

\* An iteration of del.
LEMMA DelFine ==
  ASSUME IInv, htable_del
  PROVE  Fine
<1> DEFINE d == [db EXCEPT ![arg] = NULL]
           result == Tally(IF db[arg] = NULL THEN 0 ELSE 1)
<1>1. Looping("del") /\ Iterate(d, result) /\ run # NULL /\ run.op = "del"
  BY DEF htable_del, Looping
<1>2. DbOK /\ RunFits(run, db) /\ arg \in Keys
  BY <1>1, AtArgument
<1>3. result \in Nat
  BY <1>2 DEF Tally, RunFits
<1>4. Written(d)
  BY <1>2, DelWrites
<1> HIDE DEF d, result
<1>5. run.i < Len(run.args) => RunFits([run EXCEPT !.i = @ + 1, !.result = result], d)
  BY <1>1, <1>2, <1>3, NextArgument DEF OnHash, OnList, OnSet
<1> QED BY <1>1, <1>3, <1>4, <1>5, IterateFine

\* An iteration of mset.
LEMMA MSetFine ==
  ASSUME IInv, mset_pair
  PROVE  Fine
<1> DEFINE d == htable_set(db, arg[1], arg[2])
<1>1. Looping("mset") /\ Iterate(d, 0) /\ run # NULL /\ run.op = "mset"
  BY DEF mset_pair, Looping
<1>2. DbOK /\ RunFits(run, db) /\ arg[1] \in Keys /\ arg[2] \in Data
  BY <1>1, AtArgument
<1>3. Written(d)
  BY <1>2, SetWrites DEF Strings
<1> HIDE DEF d
<1>4. run.i < Len(run.args) => RunFits([run EXCEPT !.i = @ + 1, !.result = 0], d)
  BY <1>1, <1>2, NextArgument DEF OnHash, OnList, OnSet
<1> QED BY <1>1, <1>3, <1>4, IterateFine

\* An iteration that changes the hash or set of its key, or leaves it.
LEMMA ContainerFine ==
  ASSUME IInv, NEW op \in OnHash \cup OnSet, NEW t, t = (IF op \in OnHash THEN "hash" ELSE "set"),
         Looping(op), NEW d, NEW result \in Nat, Iterate(d, result), Written(d),
         HasType(d, run.key, t)
  PROVE  Fine
<1>1. DbOK /\ RunFits(run, db) /\ run # NULL /\ run.op = op
  BY AtArgument DEF Looping
<1>2. run.i < Len(run.args) => RunFits([run EXCEPT !.i = @ + 1, !.result = result], d)
  BY <1>1, NextArgument DEF OnHash, OnList, OnSet
<1> QED BY <1>2, IterateFine

\* Where hset, hdel, sadd and srem are, and what their key holds.
LEMMA AtHash ==
  ASSUME IInv, NEW op \in OnHash, Looping(op)
  PROVE  /\ DbOK /\ run.key \in Keys /\ run.result \in Nat
         /\ is_type(run.key, "hash") /\ HasType(db, run.key, "hash")
         /\ val(run.key, EmptyHash) \in Hashes /\ HashFits(val(run.key, EmptyHash))
         /\ op = "hset" => arg[1] \in Data /\ arg[2] \in Data
         /\ op = "hdel" => arg \in Data
<1>1. /\ DbOK /\ RunFits(run, db) /\ run # NULL /\ run.op = op
      /\ op = "hset" => arg \in Data \X Data
      /\ op = "hdel" => arg \in Data
  BY AtArgument DEF Looping
<1>2. run.key \in Keys /\ HasType(db, run.key, "hash") /\ run.result \in Nat
  BY <1>1 DEF RunFits
<1>3. is_type(run.key, "hash")
  BY <1>1, <1>2, IsTypeHasType
<1>4. op = "hset" => arg[1] \in Data /\ arg[2] \in Data
  BY <1>1
<1> QED BY <1>1, <1>2, <1>3, <1>4, ValOf DEF IInv

\* So for the commands on sets.
LEMMA AtSet ==
  ASSUME IInv, NEW op \in OnSet, Looping(op)
  PROVE  /\ DbOK /\ run.key \in Keys /\ run.result \in Nat
         /\ is_type(run.key, "set") /\ HasType(db, run.key, "set")
         /\ val(run.key, EmptySet) \in Sets /\ SetFits(val(run.key, EmptySet))
         /\ arg \in Data
<1>1. DbOK /\ RunFits(run, db) /\ run # NULL /\ run.op = op /\ arg \in Data
  BY AtArgument DEF Looping
<1>2. run.key \in Keys /\ HasType(db, run.key, "set") /\ run.result \in Nat
  BY <1>1 DEF RunFits
<1>3. is_type(run.key, "set")
  BY <1>1, <1>2, IsTypeHasType
<1> QED BY <1>1, <1>2, <1>3, ValOf DEF IInv

\* What Updated leaves under the key of a command.
LEMMA UpdatedFine ==
  ASSUME DbOK, run.key \in Keys, NEW t \in {"hash", "list", "set"}, NEW v,
         [type |-> t, val |-> v] \in Contents, is_type(run.key, t),
         Counted([type |-> t, val |-> v])
  PROVE  Written(Updated(t, v)) /\ HasType(Updated(t, v), run.key, t)
<1>1. Updated(t, v) = [db EXCEPT ![run.key] = [type |-> t, val |-> v]]
  BY DEF Updated
<1>2. Legal(run.key, [type |-> t, val |-> v])
  BY DEF Legal
<1>3. Written(Updated(t, v))
  BY <1>1, <1>2 DEF Written
<1>4. Updated(t, v)[run.key] = [type |-> t, val |-> v]
  BY <1>1 DEF DbOK
<1>5. HasType(Updated(t, v), run.key, t)
  BY <1>4 DEF HasType
<1> QED BY <1>3, <1>5

\* So with a container that takes its key with it when it counts nothing.
LEMMA StoredFine ==
  ASSUME DbOK, run.key \in Keys, NEW t \in {"hash", "list", "set"}, NEW v,
         [type |-> t, val |-> v] \in Contents, is_type(run.key, t),
         Fits([type |-> t, val |-> v])
  PROVE  Written(Stored(db, run.key, t, v)) /\ HasType(Stored(db, run.key, t, v), run.key, t)
<1>1. HasType(Stored(db, run.key, t, v), run.key, t)
  BY DEF Stored, HasType, DbOK
<1> QED BY <1>1, StoredWrites

\* An iteration of hset.
LEMMA HSetFine ==
  ASSUME IInv, htable_hset
  PROVE  Fine
<1>1. Looping("hset") /\ "hset" \in OnHash
  BY DEF htable_hset, OnHash
<1>2. PICK h \in htable_update_hash(val(run.key, EmptyHash), arg[1], arg[2]) :
        Iterate(Updated("hash", h), Tally(1))
  BY DEF htable_hset
<1>3. /\ DbOK /\ run.key \in Keys /\ run.result \in Nat /\ is_type(run.key, "hash")
      /\ val(run.key, EmptyHash) \in Hashes /\ HashFits(val(run.key, EmptyHash))
      /\ arg[1] \in Data /\ arg[2] \in Data
  BY <1>1, AtHash
<1>4. h \in Hashes /\ HashFits(h) /\ h.used > 0
  BY <1>3, HashPut
<1>5. [type |-> "hash", val |-> h] \in Contents /\ Counted([type |-> "hash", val |-> h])
  BY <1>4, ContentsOf DEF Counted, Fits
<1>6. Written(Updated("hash", h)) /\ HasType(Updated("hash", h), run.key, "hash")
  BY <1>3, <1>5, UpdatedFine
<1>7. Tally(1) \in Nat
  BY <1>3 DEF Tally
<1> QED BY <1>1, <1>2, <1>6, <1>7, ContainerFine

\* An iteration of hdel.
LEMMA HDelFine ==
  ASSUME IInv, htable_hdel
  PROVE  Fine
<1> DEFINE h == val(run.key, EmptyHash)
<1>1. Looping("hdel") /\ "hdel" \in OnHash
  BY DEF htable_hdel, OnHash
<1>2. /\ DbOK /\ run.key \in Keys /\ run.result \in Nat /\ is_type(run.key, "hash")
      /\ h \in Hashes /\ HashFits(h) /\ HasType(db, run.key, "hash")
  BY <1>1, AtHash
<1>3. Tally(0) \in Nat /\ Tally(1) \in Nat
  BY <1>2 DEF Tally
<1>4. CASE Iterate(db, Tally(0))
  BY <1>1, <1>2, <1>3, <1>4, ContainerFine DEF Written
<1>5. ASSUME arg \in DOMAIN h.fields, NEW F \in Kept(DOMAIN h.fields \ {arg}), NEW t,
             t = [fields |-> Restrict(h.fields, F), used |-> h.used - 1],
             Iterate(Stored(db, run.key, "hash", t), Tally(1))
      PROVE  Fine
  <2> HIDE DEF h
  <2>1. t \in Hashes /\ HashFits(t)
    BY <1>2, <1>5, HashTake
  <2>2. [type |-> "hash", val |-> t] \in Contents /\ Fits([type |-> "hash", val |-> t])
    BY <2>1, ContentsOf DEF Fits
  <2>3. /\ Written(Stored(db, run.key, "hash", t))
        /\ HasType(Stored(db, run.key, "hash", t), run.key, "hash")
    BY <1>2, <2>2, StoredFine
  <2> QED BY <1>1, <1>3, <1>5, <2>3, ContainerFine
<1> QED BY <1>4, <1>5 DEF htable_hdel

\* An iteration of sadd.
LEMMA SAddFine ==
  ASSUME IInv, htable_sadd
  PROVE  Fine
<1> DEFINE s == val(run.key, EmptySet)
<1>1. Looping("sadd") /\ "sadd" \in OnSet /\ "sadd" \notin OnHash
  BY DEF htable_sadd, OnSet, OnHash
<1>2. /\ DbOK /\ run.key \in Keys /\ run.result \in Nat /\ is_type(run.key, "set")
      /\ s \in Sets /\ SetFits(s) /\ HasType(db, run.key, "set") /\ arg \in Data
  BY <1>1, AtSet
<1>3. Tally(0) \in Nat /\ Tally(1) \in Nat
  BY <1>2 DEF Tally
<1>4. CASE Iterate(db, Tally(0))
  BY <1>1, <1>2, <1>3, <1>4, ContainerFine DEF Written
<1>5. ASSUME NEW t \in htable_update_set(s, arg), Iterate(Updated("set", t), Tally(1))
      PROVE  Fine
  <2> HIDE DEF s
  <2>1. t \in Sets /\ SetFits(t) /\ t.used > 0
    BY <1>2, SetPut
  <2>2. [type |-> "set", val |-> t] \in Contents /\ Counted([type |-> "set", val |-> t])
    BY <2>1, ContentsOf DEF Counted, Fits
  <2>3. Written(Updated("set", t)) /\ HasType(Updated("set", t), run.key, "set")
    BY <1>2, <2>2, UpdatedFine
  <2> QED BY <1>1, <1>3, <1>5, <2>3, ContainerFine
<1> QED BY <1>4, <1>5 DEF htable_sadd

\* An iteration of srem.
LEMMA SRemFine ==
  ASSUME IInv, htable_srem
  PROVE  Fine
<1> DEFINE s == val(run.key, EmptySet)
<1>1. Looping("srem") /\ "srem" \in OnSet /\ "srem" \notin OnHash
  BY DEF htable_srem, OnSet, OnHash
<1>2. /\ DbOK /\ run.key \in Keys /\ run.result \in Nat /\ is_type(run.key, "set")
      /\ s \in Sets /\ SetFits(s) /\ HasType(db, run.key, "set")
  BY <1>1, AtSet
<1>3. Tally(0) \in Nat /\ Tally(1) \in Nat
  BY <1>2 DEF Tally
<1>4. CASE Iterate(db, Tally(0))
  BY <1>1, <1>2, <1>3, <1>4, ContainerFine DEF Written
<1>5. ASSUME arg \in Members(s),
             NEW t \in Resized([copies |-> [s.copies EXCEPT ![arg] = @ - 1],
                                used |-> s.used - 1, stones |-> TRUE]),
             Iterate(Stored(db, run.key, "set", t), Tally(1))
      PROVE  Fine
  <2> HIDE DEF s
  <2>1. t \in Sets /\ SetFits(t)
    BY <1>2, <1>5, SetTake
  <2>2. [type |-> "set", val |-> t] \in Contents /\ Fits([type |-> "set", val |-> t])
    BY <2>1, ContentsOf DEF Fits
  <2>3. /\ Written(Stored(db, run.key, "set", t))
        /\ HasType(Stored(db, run.key, "set", t), run.key, "set")
    BY <1>2, <2>2, StoredFine
  <2> QED BY <1>1, <1>3, <1>5, <2>3, ContainerFine
<1> QED BY <1>4, <1>5 DEF htable_srem

\* An iteration of lpush or rpush.
LEMMA PushFine ==
  ASSUME IInv, htable_push
  PROVE  Fine
<1>1. PICK op \in OnList :
        /\ Looping(op)
        /\ LET s == htable_update_list(IF op = "lpush" THEN "LEFT" ELSE "RIGHT")
           IN  Iterate(Updated("list", s), Len(s))
  BY DEF htable_push, OnList
<1> DEFINE s == htable_update_list(IF op = "lpush" THEN "LEFT" ELSE "RIGHT")
           d == Updated("list", s)
<1>2. Looping(op) /\ Iterate(d, Len(s)) /\ run # NULL /\ run.op = op
  BY <1>1 DEF Looping
<1>3. /\ DbOK /\ RunFits(run, db) /\ arg \in Data
      /\ run.key \in Keys /\ HasType(db, run.key, "list")
      /\ ListLen(db, run.key) + Len(run.args) - run.i < MaxLen
  BY <1>2, AtArgument DEF RunFits
<1>4. is_type(run.key, "list")
  BY <1>3, IsTypeHasType
<1>5. val(run.key, <<>>) \in Seq(Data) /\ Len(val(run.key, <<>>)) = ListLen(db, run.key)
  <2>1. Len(val(run.key, <<>>)) = ListLen(db, run.key)
    BY EmptySeq DEF val, Held, ListLen
  <2> QED BY <1>3, <1>4, <2>1, ValOf, ListIsSeq DEF IInv
<1>6. s \in Seq(Data) /\ Len(s) = ListLen(db, run.key) + 1
  <2>1. <<arg>> \in Seq(Data) /\ Len(<<arg>>) = 1
    BY <1>3
  <2>2. /\ <<arg>> \o val(run.key, <<>>) \in Seq(Data)
        /\ Len(<<arg>> \o val(run.key, <<>>)) = 1 + ListLen(db, run.key)
    BY <1>5, <2>1, ConcatProperties
  <2>3. /\ Append(val(run.key, <<>>), arg) \in Seq(Data)
        /\ Len(Append(val(run.key, <<>>), arg)) = ListLen(db, run.key) + 1
    BY <1>3, <1>5, AppendProperties
  <2> QED BY <1>3, <2>2, <2>3, ListLenNat DEF htable_update_list
<1> HIDE DEF s
<1>7. Len(s) \in 0 .. MaxLen /\ Len(s) \in Nat /\ s # <<>>
  <2>1. ListLen(db, run.key) \in Nat
    BY <1>3, ListLenNat
  <2>2. Len(run.args) - run.i \in Nat
    BY <1>3 DEF RunFits, ArgLists
  <2>3. Len(s) \in 0 .. MaxLen /\ Len(s) # 0
    BY <1>3, <1>6, <2>1, <2>2, InterpreterAssumption
  <2> QED BY <2>3, EmptySeq, InterpreterAssumption
<1>8. d = [db EXCEPT ![run.key] = [type |-> "list", val |-> s]]
  BY DEF Updated
<1>9. [type |-> "list", val |-> s] \in Contents
  BY <1>6, <1>7, ListIsSeq, ContentsOf
<1>10. Written(d)
  BY <1>3, <1>4, <1>7, <1>8, <1>9, ContainerWrites DEF Counted, Fits
<1>11. HasType(d, run.key, "list") /\ ListLen(d, run.key) = ListLen(db, run.key) + 1
  <2>1. d[run.key] = [type |-> "list", val |-> s]
    BY <1>3, <1>8 DEF DbOK
  <2> HIDE DEF d
  <2>2. d[run.key] # NULL /\ d[run.key].type = "list" /\ d[run.key].val = s
    BY <1>9, <2>1, NullAssumption
  <2> QED BY <1>6, <2>2 DEF HasType, ListLen
<1> HIDE DEF d
<1>12. run.i < Len(run.args) => RunFits([run EXCEPT !.i = @ + 1, !.result = Len(s)], d)
  BY <1>2, <1>3, <1>7, <1>11, NextArgument DEF OnHash, OnList, OnSet
<1> QED BY <1>2, <1>7, <1>10, <1>12, IterateFine
-----------------------------------------------------------------------------
(* Every step *)

\* A command that only answers is fine.
LEMMA AnswersFine ==
  ASSUME IInv, NEW op, Answers(op)
  PROVE  Fine
BY ReadFine DEF Answers, Ready

\* The commands on keys and strings.
LEMMA OnKeysAndStringsFine ==
  ASSUME IInv, OnKeysAndStrings
  PROVE  Fine
<1>1. ASSUME NEW op \in Ops, reply_err_argc(op)  PROVE Fine
  BY <1>1, ReadFine DEF reply_err_argc
<1>2. ASSUME NEW ks \in Some(Keys), exec_del(ks) \/ exec_exists(ks) \/ exec_mget(ks)  PROVE Fine
  <2>1. CASE exec_del(ks)
    BY <2>1, BeginDel
  <2>2. CASE exec_exists(ks) \/ exec_mget(ks)
    BY <2>2, ReadStrings, AnswersFine
  <2> QED BY <1>2, <2>1, <2>2
<1>3. ASSUME NEW pairs \in Some(Keys \X Data), exec_mset(pairs)  PROVE Fine
  BY <1>3, BeginMSet
<1>4. ASSUME NEW k \in Keys, NEW v \in Data \cup {EMPTY}, exec_set(k, v)  PROVE Fine
  BY <1>4, SetFine
<1>5. CASE exec_set_nothing
  BY <1>5, ReadStrings, AnswersFine
<1>6. ASSUME NEW k \in Keys,
             exec_type(k) \/ exec_get(k) \/ exec_incr(k) \/ exec_decr(k) \/ exec_strlen(k)
      PROVE  Fine
  <2>1. CASE exec_type(k) \/ exec_get(k) \/ exec_strlen(k)
    BY <2>1, ReadStrings, AnswersFine
  <2>2. CASE exec_incr(k) \/ exec_decr(k)
    BY <2>2, AddConstantFine DEF exec_incr, exec_decr
  <2> QED BY <1>6, <2>1, <2>2
<1>7. ASSUME NEW k \in Keys, NEW a \in Numbers, exec_incrby(k, a) \/ exec_decrby(k, a)
      PROVE  Fine
  BY <1>7, AddOperandFine DEF exec_incrby, exec_decrby
<1>8. CASE htable_del \/ mset_pair
  BY <1>8, DelFine, MSetFine
<1> QED BY <1>1, <1>2, <1>3, <1>4, <1>5, <1>6, <1>7, <1>8 DEF OnKeysAndStrings

\* The commands on hashes.
LEMMA OnHashesFine ==
  ASSUME IInv, OnHashes
  PROVE  Fine
<1>1. ASSUME NEW k \in Keys, NEW f \in Data, exec_hget(k, f) \/ exec_hexists(k, f)  PROVE Fine
  BY <1>1, ReadHashes, AnswersFine
<1>2. ASSUME NEW k \in Keys, exec_hgetall(k) \/ exec_hkeys(k) \/ exec_hvals(k) \/ exec_hlen(k)
      PROVE  Fine
  BY <1>2, ReadHashes, AnswersFine
<1>3. ASSUME NEW k \in Keys, NEW fs \in Some(Data), exec_hmget(k, fs) \/ exec_hdel(k, fs)
      PROVE  Fine
  BY <1>3, ReadHashes, AnswersFine, BeginHDel
<1>4. ASSUME NEW k \in Keys, NEW pairs \in Some(Data \X Data), exec_hset(k, pairs)  PROVE Fine
  BY <1>4, BeginHSet
<1>5. CASE htable_hset \/ htable_hdel
  BY <1>5, HSetFine, HDelFine
<1> QED BY <1>1, <1>2, <1>3, <1>4, <1>5 DEF OnHashes

\* The commands on lists.
LEMMA OnListsFine ==
  ASSUME IInv, OnLists
  PROVE  Fine
<1>1. ASSUME NEW k \in Keys, exec_lpop(k) \/ exec_rpop(k) \/ exec_llen(k)  PROVE Fine
  <2>1. CASE exec_llen(k)
    BY <2>1, ReadLists, AnswersFine
  <2>2. CASE exec_lpop(k) \/ exec_rpop(k)
    BY <2>2, PopFine DEF exec_lpop, exec_rpop
  <2> QED BY <1>1, <2>1, <2>2
<1>2. ASSUME NEW k \in Keys, NEW a \in Numbers, exec_lindex(k, a)  PROVE Fine
  BY <1>2, ReadLists, AnswersFine
<1>3. ASSUME NEW k \in Keys, NEW a \in Numbers, NEW b \in Numbers, exec_lrange(k, a, b)  PROVE Fine
  BY <1>3, ReadLists, AnswersFine
<1>4. ASSUME NEW k \in Keys, NEW a \in Numbers, NEW v \in Data, exec_lset(k, a, v) \/ exec_lrem(k, a, v)
      PROVE  Fine
  BY <1>4, LSetFine, LRemFine
<1>5. ASSUME NEW k \in Keys, NEW v \in Data, exec_lpos(k, v)  PROVE Fine
  BY <1>5, ReadLists, AnswersFine
<1>6. ASSUME NEW op \in {"lpush", "rpush"}, NEW k \in Keys, NEW vs \in Some(Data), exec_push(op, k, vs)
      PROVE  Fine
  BY <1>6, BeginPush DEF OnList
<1>7. CASE htable_push
  BY <1>7, PushFine
<1> QED BY <1>1, <1>2, <1>3, <1>4, <1>5, <1>6, <1>7 DEF OnLists

\* The commands on sets.
LEMMA OnSetsFine ==
  ASSUME IInv, OnSets
  PROVE  Fine
<1>1. ASSUME NEW k \in Keys, NEW m \in Data, exec_sismember(k, m)  PROVE Fine
  BY <1>1, ReadSets, AnswersFine
<1>2. ASSUME NEW k \in Keys, exec_smembers(k)  PROVE Fine
  BY <1>2, ReadSets, AnswersFine
<1>3. ASSUME NEW k \in Keys, NEW ms \in Some(Data),
             exec_smismember(k, ms) \/ exec_sadd(k, ms) \/ exec_srem(k, ms)
      PROVE  Fine
  BY <1>3, ReadSets, AnswersFine, BeginSAdd, BeginSRem
<1>4. CASE htable_sadd \/ htable_srem
  BY <1>4, SAddFine, SRemFine
<1> QED BY <1>1, <1>2, <1>3, <1>4 DEF OnSets

\* What every step does to the keyspace: nothing, or a legal change of one key.
LEMMA EveryStepFine ==
  ASSUME IInv, Next
  PROVE  Fine
BY OnKeysAndStringsFine, OnHashesFine, OnListsFine, OnSetsFine DEF Next

\* What a command under way is made of.
LEMMA FitsTyped ==
  ASSUME NEW r, NEW d, RunFits(r, d)
  PROVE  r.op \in Ops /\ r.i \in DOMAIN r.args /\ r.result \in Nat
<1>1. r.args \in ArgLists /\ r.i \in 1 .. Len(r.args) /\ r.op \in Ops /\ r.result \in Nat
  BY DEF RunFits
<1>2. DOMAIN r.args = 1 .. Len(r.args)
  BY <1>1 DEF ArgLists
<1> QED BY <1>1, <1>2

\* The inductive invariant is one.
LEMMA IInvInductive ==
  /\ Init => IInv
  /\ IInv /\ [Next]_vars => IInv'
<1>1. ASSUME Init  PROVE IInv
  <2>1. TypeOK
    BY <1>1 DEF Init, TypeOK
  <2>2. AllCounted /\ RunOK
    BY <1>1 DEF Init, AllCounted, RunOK
  <2> QED BY <2>1, <2>2 DEF IInv
<1>2. ASSUME IInv, Next  PROVE IInv'
  <2>1. Fine
    BY <1>2, EveryStepFine
  <2>2. DbOK' /\ AllCounted'
    BY <1>2, <2>1, WrittenKeeps DEF IInv, TypeOK, DbOK, Fine
  <2>3. (run # NULL => run.op \in Ops /\ run.i \in DOMAIN run.args /\ run.result \in Nat)'
    BY <2>1, FitsTyped DEF Fine, RunOK
  <2> QED BY <2>1, <2>2, <2>3 DEF IInv, TypeOK, DbOK, Fine
<1>3. ASSUME IInv, UNCHANGED vars  PROVE IInv'
  BY <1>3 DEF IInv, TypeOK, AllCounted, RunOK, vars
<1> QED BY <1>1, <1>2, <1>3

\* The invariant holds in every state.
LEMMA Invariance == Spec => []IInv
BY IInvInductive, PTL DEF Spec

\* Each key holds a value of one of the four types, whatever the commands.
THEOREM InterpreterTypes == Spec => []TypeOK
<1>1. IInv => TypeOK
  BY DEF IInv
<1> QED BY Invariance, <1>1, PTL

\* What AllCounted asks of the items is what CountedContainers does.
LEMMA CountedIs == DbOK /\ AllCounted => CountedContainers
<1> SUFFICES ASSUME DbOK, AllCounted, NEW k \in Keys, db[k] # NULL
             PROVE  /\ db[k].type = "list" => db[k].val # <<>>
                    /\ db[k].type \in {"hash", "set"} =>
                         db[k].val.used > 0 /\ Cardinality(Items(db[k])) <= db[k].val.used
  BY DEF CountedContainers
<1>1. Counted(db[k])
  BY DEF AllCounted
<1>2. db[k].type = "hash" => Items(db[k]) = DOMAIN db[k].val.fields
  BY DEF Items
<1>3. db[k].type = "set" => Items(db[k]) = Copies(db[k].val)
  BY DEF Items, Copies
<1> QED BY <1>1, <1>2, <1>3 DEF Counted, Fits, HashFits, SetFits

\* A container under a key is never empty by its count, and the count is never
\* below the items, whatever the tables lose: htable_pop finds a node in every
\* list, and hdel and srem, which test "used", throw away no item with a key.
THEOREM ContainersAreCounted == Spec => []CountedContainers
<1>1. IInv => CountedContainers
  BY CountedIs DEF IInv, TypeOK, DbOK
<1> QED BY Invariance, <1>1, PTL

\* A key changes type only by way of its absence, also while a command loops.
THEOREM TypesAreStable == Spec => TypeStable
<1> DEFINE Stable == \A k \in Keys : db[k] # NULL /\ db'[k] # NULL => db'[k].type = db[k].type
<1>1. ASSUME IInv, [Next]_vars  PROVE [Stable]_db
  <2>1. CASE Next
    BY <1>1, <2>1, EveryStepFine, WrittenKeeps DEF IInv, TypeOK, DbOK, Fine
  <2>2. CASE UNCHANGED vars
    BY <2>2 DEF vars
  <2> QED BY <1>1, <2>1, <2>2
<1> QED BY Invariance, <1>1, PTL DEF Spec, TypeStable


-----------------------------------------------------------------------------
(* One argument more *)

\* Q is the list P of members of S with one more, x.
Grows(S, P, x, Q) == P \in Seq(S) /\ x \in S /\ Q = Append(P, x)

\* A set of places has a last one.
LEMMA MaxIsIn ==
  ASSUME NEW n \in Nat, NEW S \in SUBSET (1 .. n), S # {}
  PROVE  Max(S) \in S
<1> DEFINE T == {n - j : j \in S}
<1>1. T \subseteq Nat /\ T # {}
  <2>1. \A j \in S : n - j \in Nat
    OBVIOUS
  <2>2. PICK j \in S : TRUE
    OBVIOUS
  <2>3. n - j \in T
    BY <2>2
  <2> QED BY <2>1, <2>3
<1>2. PICK m \in T : \A x \in T : m <= x
  BY <1>1, LeastExists
<1>3. PICK i \in S : m = n - i
  BY <1>2
<1>4. \A j \in S : n - i <= n - j
  BY <1>2, <1>3
<1>5. \A j \in S : i >= j
  BY <1>4
<1> QED BY <1>5 DEF Max

\* The names, pairs and length of a list of arguments with one more.
LEMMA Grown ==
  ASSUME NEW S, NEW P, NEW x, NEW Q, Grows(S, P, x, Q)
  PROVE  /\ Q \in Seq(S) /\ Q # <<>> /\ Len(P) \in Nat /\ Len(Q) = Len(P) + 1
         /\ Named(Q) = Named(P) \cup {x}
         /\ Firsts(Q) = Firsts(P) \cup {x[1]}
         /\ \A y \in Firsts(Q) : LastFor(y, Q) = IF x[1] = y THEN x[2] ELSE LastFor(y, P)
<1>1. /\ Q \in Seq(S) /\ Q # <<>> /\ Len(P) \in Nat /\ Len(Q) = Len(P) + 1
      /\ \A i \in 1 .. Len(P) : Q[i] = P[i]
      /\ Q[Len(P) + 1] = x
  BY AppendProperties, LenProperties DEF Grows
<1> DEFINE n == Len(P)
<1>2. DOMAIN P = 1 .. n /\ DOMAIN Q = (1 .. n) \cup {n + 1} /\ n \in Nat
  BY <1>1, LenProperties
<1>3. (\A i \in 1 .. n : Q[i] = P[i]) /\ Q[n + 1] = x
  BY <1>1
<1> HIDE DEF n
<1>4. Named(Q) = Named(P) \cup {x}
  BY <1>2, <1>3 DEF Named
<1>5. Firsts(Q) = Firsts(P) \cup {x[1]}
  BY <1>2, <1>3 DEF Firsts
<1>6. ASSUME NEW y \in Firsts(Q)  PROVE LastFor(y, Q) = IF x[1] = y THEN x[2] ELSE LastFor(y, P)
  <2> DEFINE H == {j \in DOMAIN Q : Q[j][1] = y}
             G == {j \in DOMAIN P : P[j][1] = y}
  <2>1. CASE x[1] = y
    <3>1. n + 1 \in H /\ H \subseteq (1 .. n) \cup {n + 1}
      BY <1>2, <1>3, <2>1
    <3> HIDE DEF H
    <3>2. \A j \in H : n + 1 >= j
      BY <1>2, <3>1
    <3>3. Max(H) \in H /\ \A j \in H : Max(H) >= j
      BY <3>1, <3>2 DEF Max
    <3>4. Max(H) >= n + 1 /\ n + 1 >= Max(H)
      BY <3>1, <3>2, <3>3
    <3>5. Max(H) = n + 1
      <4>1. \A j \in H : j \in Int
        BY <1>2, <3>1
      <4>2. Max(H) \in Int /\ n + 1 \in Int
        BY <1>2, <3>3, <4>1
      <4> QED BY <3>4, <4>2
    <3> QED BY <1>3, <2>1, <3>5 DEF LastFor, H
  <2>2. CASE x[1] # y
    <3>1. H = G /\ G \subseteq 1 .. n /\ \A j \in 1 .. n : Q[j] = P[j]
      BY <1>2, <1>3, <2>2
    <3>2. H # {}
      BY DEF Firsts
    <3>3. LastFor(y, Q) = Q[Max(H)][2] /\ LastFor(y, P) = P[Max(G)][2]
      BY DEF LastFor
    <3> HIDE DEF H, G
    <3>4. Max(G) \in G
      BY <1>2, <3>1, <3>2, MaxIsIn
    <3>5. Q[Max(G)] = P[Max(G)]
      BY <3>1, <3>4
    <3> QED BY <2>2, <3>1, <3>3, <3>5
  <2> QED BY <2>1, <2>2
<1> QED BY <1>1, <1>4, <1>5, <1>6

\* The names alone.
LEMMA NamedGrown ==
  ASSUME NEW S, NEW P, NEW x, NEW Q, Grows(S, P, x, Q)
  PROVE  /\ Q \in Seq(S) /\ Q # <<>> /\ Len(P) \in Nat /\ Len(Q) = Len(P) + 1
         /\ Named(Q) = Named(P) \cup {x}
BY Grown


\* Arguments name finitely many things.
LEMMA NamedFinite ==
  ASSUME NEW S, NEW P \in Seq(S)
  PROVE  IsFiniteSet(Named(P))
<1>1. Len(P) \in Nat /\ DOMAIN P = 1 .. Len(P)
  BY LenProperties
<1> DEFINE f == [j \in 1 .. Len(P) |-> P[j]]
<1>2. f \in Surjection(1 .. Len(P), Named(P))
  BY <1>1 DEF Surjection, Named
<1>3. IsFiniteSet(1 .. Len(P))
  BY <1>1, FS_Interval
<1> HIDE DEF f
<1> QED BY <1>2, <1>3, FS_Surjection

\* One more is counted, or was lost before.
LEMMA CountsMore ==
  ASSUME NEW X, IsFiniteSet(X), NEW x, x \notin X, NEW n, Counts(n, X)
  PROVE  Counts(n + 1, X \cup {x}) /\ n \in Nat
<1> DEFINE Y == X \cup {x}
<1>1. IsFiniteSet(X \ Shaky) /\ Cardinality(X \ Shaky) \in Nat /\ Cardinality(X) \in Nat
  BY FS_Subset, FS_CardinalityType
<1>2. Cardinality(Y) = Cardinality(X) + 1
  BY OneMore
<1>3. Cardinality(Y \ Shaky) \in Nat /\ Cardinality(Y \ Shaky) <= Cardinality(X \ Shaky) + 1
  <2>1. CASE x \in Shaky
    <3>1. Y \ Shaky = X \ Shaky
      BY <2>1
    <3> HIDE DEF Y
    <3> QED BY <1>1, <3>1
  <2>2. CASE x \notin Shaky
    <3>1. Y \ Shaky = (X \ Shaky) \cup {x}
      BY <2>2
    <3> HIDE DEF Y
    <3> QED BY <1>1, <3>1, OneMore
  <2> QED BY <2>1, <2>2
<1> HIDE DEF Y
<1>4. n \in Cardinality(X \ Shaky) .. Cardinality(X)
  BY DEF Counts
<1>5. n \in Nat /\ n + 1 \in Cardinality(Y \ Shaky) .. Cardinality(Y)
  BY <1>1, <1>2, <1>3, <1>4
<1> QED BY <1>5 DEF Counts, Y

\* So when it is not counted any more.
LEMMA CountsLost ==
  ASSUME NEW X, IsFiniteSet(X), NEW x, x \in Shaky \/ x \in X, NEW n, Counts(n, X)
  PROVE  Counts(n, X \cup {x}) /\ n \in Nat
<1>1. IsFiniteSet(X \ Shaky) /\ Cardinality(X \ Shaky) \in Nat /\ Cardinality(X) \in Nat
  BY FS_Subset, FS_CardinalityType
<1>2. Cardinality(X \cup {x}) \in Nat /\ Cardinality(X) <= Cardinality(X \cup {x})
  BY OneMore
<1>3. Cardinality((X \cup {x}) \ Shaky) = Cardinality(X \ Shaky)
  <2>1. (X \cup {x}) \ Shaky = X \ Shaky
    OBVIOUS
  <2> QED BY <2>1
<1>4. n \in Cardinality(X \ Shaky) .. Cardinality(X)
  BY DEF Counts
<1>5. n \in Nat /\ n \in Cardinality((X \cup {x}) \ Shaky) .. Cardinality(X \cup {x})
  BY <1>1, <1>2, <1>3, <1>4
<1> QED BY <1>5 DEF Counts

\* What is counted is a number.
LEMMA CountIsNat ==
  ASSUME NEW X, IsFiniteSet(X), NEW n, Counts(n, X)
  PROVE  n \in Nat
<1>1. IsFiniteSet(X \ Shaky) /\ Cardinality(X \ Shaky) \in Nat /\ Cardinality(X) \in Nat
  BY FS_Subset, FS_CardinalityType
<1>2. n \in Cardinality(X \ Shaky) .. Cardinality(X)
  BY DEF Counts
<1> QED BY <1>1, <1>2

\* hset of one more pair: t is what HashPut says.
LEMMA HSetStep ==
  ASSUME NEW P, NEW x, NEW Q, Grows(Data \X Data, P, x, Q),
         NEW f, NEW v, f = x[1], v = x[2],
         NEW h0 \in Hashes, NEW h \in Hashes, NEW n, HSetEffect(P, h0, h, n), NEW t \in Hashes,
         HashWith(h, f, v, t)
  PROVE  HSetEffect(Q, h0, t, n + 1)
<1>0. /\ t.used \in {h.used, h.used + 1}
      /\ Remains(DOMAIN t.fields, DOMAIN h.fields \cup {f})
      /\ \A g \in DOMAIN t.fields : t.fields[g] = IF g = f THEN v ELSE h.fields[g]
  BY DEF HashWith
<1>1. /\ Len(P) \in Nat /\ Len(Q) = Len(P) + 1 /\ Firsts(Q) = Firsts(P) \cup {f}
      /\ \A y \in Firsts(Q) : LastFor(y, Q) = IF f = y THEN v ELSE LastFor(y, P)
  BY Grown
<1>2. /\ Remains(DOMAIN h.fields, DOMAIN h0.fields \cup Firsts(P))
      /\ \A g \in DOMAIN h.fields :
           h.fields[g] = IF g \in Firsts(P) THEN LastFor(g, P) ELSE h0.fields[g]
      /\ h.used \in h0.used .. h0.used + Len(P)
      /\ n = Len(P)
  BY DEF HSetEffect
<1>3. h0.used \in Nat /\ h.used \in Nat
  BY FieldsShape
<1>4. t.used \in h0.used .. h0.used + Len(Q) /\ n + 1 = Len(Q)
  BY <1>0, <1>1, <1>2, <1>3
<1>5. Remains(DOMAIN t.fields, DOMAIN h0.fields \cup Firsts(Q))
  BY <1>0, <1>1, <1>2 DEF Remains
<1>6. ASSUME NEW g \in DOMAIN t.fields
      PROVE  t.fields[g] = IF g \in Firsts(Q) THEN LastFor(g, Q) ELSE h0.fields[g]
  <2>1. CASE g = f
    BY <1>0, <1>1, <2>1
  <2>2. CASE g # f
    <3>1. g \in DOMAIN h.fields /\ t.fields[g] = h.fields[g]
      BY <1>0, <2>2 DEF Remains
    <3>2. h.fields[g] = IF g \in Firsts(P) THEN LastFor(g, P) ELSE h0.fields[g]
      BY <1>2, <3>1
    <3>3. g \in Firsts(P) => g \in Firsts(Q) /\ LastFor(g, Q) = LastFor(g, P)
      BY <1>1, <2>2
    <3>4. g \notin Firsts(P) => g \notin Firsts(Q)
      BY <1>1, <2>2
    <3> QED BY <3>1, <3>2, <3>3, <3>4
  <2> QED BY <2>1, <2>2
<1> QED BY <1>4, <1>5, <1>6 DEF HSetEffect

\* hdel of a field that is there: t is what HashTake says.
LEMMA HDelStep ==
  ASSUME NEW P, NEW f, NEW Q, Grows(Data, P, f, Q),
         NEW h0 \in Hashes, NEW h \in Hashes, NEW n, HDelEffect(P, h0, h, n), NEW t,
         f \in DOMAIN h.fields, t.used = h.used - 1,
         Remains(DOMAIN t.fields, DOMAIN h.fields \ {f}),
         \A g \in DOMAIN t.fields : t.fields[g] = h.fields[g]
  PROVE  HDelEffect(Q, h0, t, n + 1) /\ n \in Nat
<1>1. Named(Q) = Named(P) \cup {f} /\ IsFiniteSet(Named(P))
  <2>1. Named(Q) = Named(P) \cup {f}
    BY NamedGrown
  <2>2. IsFiniteSet(Named(P))
    BY NamedFinite DEF Grows
  <2> QED BY <2>1, <2>2
<1>2. /\ Remains(DOMAIN h.fields, DOMAIN h0.fields \ Named(P))
      /\ \A g \in DOMAIN h.fields : h.fields[g] = h0.fields[g]
      /\ h.used = h0.used - n
      /\ Counts(n, DOMAIN h0.fields \cap Named(P))
  BY DEF HDelEffect
<1>3. Remains(DOMAIN t.fields, DOMAIN h0.fields \ Named(Q))
  BY <1>1, <1>2 DEF Remains
<1>4. \A g \in DOMAIN t.fields : t.fields[g] = h0.fields[g]
  BY <1>2 DEF Remains
<1>5. Counts(n + 1, DOMAIN h0.fields \cap Named(Q)) /\ n \in Nat
  <2>1. f \in DOMAIN h0.fields /\ f \notin Named(P)
    BY <1>2 DEF Remains
  <2>2. DOMAIN h0.fields \cap Named(Q) = (DOMAIN h0.fields \cap Named(P)) \cup {f}
    BY <1>1, <2>1
  <2>3. IsFiniteSet(DOMAIN h0.fields \cap Named(P))
    BY <1>1, FS_Subset
  <2> DEFINE X == DOMAIN h0.fields \cap Named(P)
             Y == DOMAIN h0.fields \cap Named(Q)
  <2>4. f \notin X /\ Y = X \cup {f} /\ Counts(n, X) /\ IsFiniteSet(X)
    BY <1>2, <2>1, <2>2, <2>3
  <2> HIDE DEF X, Y
  <2>5. Counts(n + 1, Y) /\ n \in Nat
    BY <2>4, CountsMore
  <2> QED BY <2>5 DEF Y
<1>6. t.used = h0.used - (n + 1)
  <2>1. h0.used \in Nat /\ h.used \in Nat
    BY FieldsShape
  <2> QED BY <1>2, <1>5, <2>1
<1> QED BY <1>3, <1>4, <1>5, <1>6 DEF HDelEffect

\* hdel of a field that is not there.
LEMMA HDelAbsent ==
  ASSUME NEW P, NEW f, NEW Q, Grows(Data, P, f, Q),
         NEW h0 \in Hashes, NEW h \in Hashes, NEW n, HDelEffect(P, h0, h, n),
         f \notin DOMAIN h.fields
  PROVE  HDelEffect(Q, h0, h, n) /\ n \in Nat
<1>1. Named(Q) = Named(P) \cup {f} /\ IsFiniteSet(Named(P))
  <2>1. Named(Q) = Named(P) \cup {f}
    BY NamedGrown
  <2>2. IsFiniteSet(Named(P))
    BY NamedFinite DEF Grows
  <2> QED BY <2>1, <2>2
<1>2. /\ Remains(DOMAIN h.fields, DOMAIN h0.fields \ Named(P))
      /\ Counts(n, DOMAIN h0.fields \cap Named(P))
      /\ \A g \in DOMAIN h.fields : h.fields[g] = h0.fields[g]
      /\ h.used = h0.used - n
  BY DEF HDelEffect
<1>3. Remains(DOMAIN h.fields, DOMAIN h0.fields \ Named(Q))
  BY <1>1, <1>2 DEF Remains
<1> DEFINE X == DOMAIN h0.fields \cap Named(P)
           Y == DOMAIN h0.fields \cap Named(Q)
<1>4. IsFiniteSet(X) /\ Counts(n, X)
  BY <1>1, <1>2, FS_Subset
<1>5. (Y = X \cup {f} /\ (f \in Shaky \/ f \in X)) \/ Y = X
  BY <1>1, <1>2 DEF Remains
<1> HIDE DEF X, Y
<1>6. Counts(n, Y) /\ n \in Nat
  BY <1>4, <1>5, CountsLost, CountIsNat
<1>7. Counts(n, DOMAIN h0.fields \cap Named(Q)) /\ n \in Nat
  BY <1>6 DEF Y
<1> QED BY <1>2, <1>3, <1>7 DEF HDelEffect

\* sadd of a string that finds a free slot: t is what SetPut says.
LEMMA SAddStep ==
  ASSUME NEW P, NEW m, NEW Q, Grows(Data, P, m, Q),
         NEW s0 \in Sets, NEW s \in Sets, NEW n, SAddEffect(P, s0, s, n), NEW t,
         SetWith(s, m, t)
  PROVE  SAddEffect(Q, s0, t, n + 1)
<1>0. /\ t.used = s.used + 1 /\ (t.stones => s.stones)
      /\ Remains(Members(t), Members(s) \cup {m})
      /\ m \in Members(s) => s.stones
  BY Zenon DEF SetWith
<1> DEFINE new == Named(P) \ Members(s0)
           newer == Named(Q) \ Members(s0)
<1>1. /\ Named(Q) = Named(P) \cup {m} /\ Len(P) \in Nat /\ Len(Q) = Len(P) + 1
      /\ IsFiniteSet(Named(P))
  <2>1. P \in Seq(Data)
    BY DEF Grows
  <2> QED BY <2>1, NamedGrown, NamedFinite
<1>2. /\ Remains(Members(s), Members(s0) \cup Named(P))
      /\ s.used = s0.used + n /\ (s.stones => s0.stones)
      /\ n \in Cardinality(new \ Shaky) .. Len(P)
      /\ ~s0.stones /\ Named(P) \cap Shaky = {} => n = Cardinality(new)
  BY DEF SAddEffect
<1>3. IsFiniteSet(new) /\ IsFiniteSet(new \ Shaky) /\ newer \subseteq new \cup {m}
  BY <1>1, FS_Subset
<1>4. Cardinality(new \ Shaky) \in Nat /\ n \in Nat /\ s0.used \in Nat
  <2>1. Cardinality(new \ Shaky) \in Nat
    BY <1>3, FS_CardinalityType
  <2> QED BY <1>1, <1>2, <2>1, SetShape
<1>5. Cardinality(newer \ Shaky) \in Nat /\ Cardinality(newer \ Shaky) <= Cardinality(new \ Shaky) + 1
  <2> DEFINE X == new \ Shaky
             Y == newer \ Shaky
  <2>1. Y \subseteq X \cup {m} /\ IsFiniteSet(X)
    BY <1>3
  <2> HIDE DEF X, Y
  <2>2. IsFiniteSet(X \cup {m}) /\ Cardinality(X \cup {m}) \in Nat /\ Cardinality(X) \in Nat
        /\ Cardinality(X \cup {m}) <= Cardinality(X) + 1
    BY <2>1, OneMore
  <2>3. Cardinality(Y) <= Cardinality(X \cup {m}) /\ Cardinality(Y) \in Nat
    BY <2>1, <2>2, FS_Subset, FS_CardinalityType
  <2> QED BY <2>2, <2>3 DEF X, Y
<1>6. n + 1 \in Cardinality(newer \ Shaky) .. Len(Q)
  BY <1>1, <1>2, <1>4, <1>5
<1>7. Remains(Members(t), Members(s0) \cup Named(Q))
  BY <1>0, <1>1, <1>2 DEF Remains
<1>8. t.used = s0.used + (n + 1)
  BY <1>0, <1>2, <1>4
<1>9. t.stones => s0.stones
  BY <1>0, <1>2, Zenon
<1>10. ASSUME ~s0.stones, Named(Q) \cap Shaky = {}
       PROVE  n + 1 = Cardinality(newer)
  <2>1. ~s.stones
    BY <1>0, <1>2, <1>10, Zenon
  <2>2. m \notin Members(s)
    BY <1>0, <2>1, Zenon
  <2>3. m \notin Shaky /\ Named(P) \cap Shaky = {}
    BY <1>1, <1>10
  <2>4. m \notin Members(s0) /\ m \notin Named(P)
    BY <1>2, <2>2, <2>3 DEF Remains
  <2>5. newer = new \cup {m} /\ m \notin new
    BY <1>1, <2>4
  <2>6. n = Cardinality(new)
    BY <1>2, <1>10, <2>3, Zenon
  <2> HIDE DEF new, newer
  <2> QED BY <1>3, <2>5, <2>6, OneMore
<1> QED BY <1>6, <1>7, <1>8, <1>9, <1>10, Zenon DEF SAddEffect

\* sadd of a string that is refused.
LEMMA SAddRefused ==
  ASSUME NEW P, NEW m, NEW Q, Grows(Data, P, m, Q),
         NEW s0 \in Sets, NEW s \in Sets, NEW n, SAddEffect(P, s0, s, n),
         m \in Members(s) \/ m \in Shaky
  PROVE  SAddEffect(Q, s0, s, n)
<1> DEFINE new == Named(P) \ Members(s0)
           newer == Named(Q) \ Members(s0)
<1>1. Named(Q) = Named(P) \cup {m} /\ Len(P) \in Nat /\ Len(Q) = Len(P) + 1 /\ IsFiniteSet(Named(P))
  <2>1. P \in Seq(Data)
    BY DEF Grows
  <2> QED BY <2>1, NamedGrown, NamedFinite
<1>2. /\ Remains(Members(s), Members(s0) \cup Named(P))
      /\ s.used = s0.used + n /\ (s.stones => s0.stones)
      /\ n \in Cardinality(new \ Shaky) .. Len(P)
      /\ ~s0.stones /\ Named(P) \cap Shaky = {} => n = Cardinality(new)
  BY DEF SAddEffect
<1>3. m \in Members(s) => newer = new
  BY <1>1, <1>2 DEF Remains
<1>4. newer \ Shaky = new \ Shaky
  BY <1>1, <1>3
<1>5. n \in Cardinality(newer \ Shaky) .. Len(Q)
  <2>1. IsFiniteSet(new \ Shaky)
    BY <1>1, FS_Subset
  <2>2. Cardinality(new \ Shaky) \in Nat
    BY <2>1, FS_CardinalityType
  <2>3. n \in Cardinality(newer \ Shaky) .. Len(P)
    BY <1>2, <1>4
  <2>4. Cardinality(newer \ Shaky) \in Nat
    BY <1>4, <2>2
  <2> HIDE DEF newer
  <2> QED BY <1>1, <2>3, <2>4
<1>6. Remains(Members(s), Members(s0) \cup Named(Q))
  BY <1>1, <1>2 DEF Remains
<1>7. ASSUME ~s0.stones, Named(Q) \cap Shaky = {}
      PROVE  n = Cardinality(newer)
  <2>1. m \in Members(s) /\ Named(P) \cap Shaky = {}
    BY <1>1, <1>7
  <2>2. n = Cardinality(new)
    BY <1>2, <1>7, <2>1, Zenon
  <2> QED BY <1>3, <2>1, <2>2
<1> QED BY <1>2, <1>5, <1>6, <1>7, Zenon DEF SAddEffect

\* srem of a member: t is what SetTake says.
LEMMA SRemStep ==
  ASSUME NEW P, NEW m, NEW Q, Grows(Data, P, m, Q),
         NEW s0 \in Sets, NEW s \in Sets, NEW n, SRemEffect(P, s0, s, n), NEW t \in Sets,
         m \in Members(s), t.used = s.used - 1,
         \A x \in Data : t.copies[x] <= s.copies[x],
         t.copies[m] < s.copies[m],
         Members(s) \ ({m} \cup Shaky) \subseteq Members(t)
  PROVE  SRemEffect(Q, s0, t, n + 1)
<1> DEFINE gone == Named(P) \cap Members(s0)
           more == Named(Q) \cap Members(s0)
<1>1. Named(Q) = Named(P) \cup {m} /\ Len(P) \in Nat /\ Len(Q) = Len(P) + 1 /\ IsFiniteSet(Named(P))
  <2>1. P \in Seq(Data)
    BY DEF Grows
  <2> QED BY <2>1, NamedGrown, NamedFinite
<1>2. /\ \A x \in Data : s.copies[x] <= s0.copies[x]
      /\ \A x \in gone : s.copies[x] < s0.copies[x]
      /\ Members(s0) \ (Named(P) \cup Shaky) \subseteq Members(s)
      /\ s.used = s0.used - n
      /\ n \in Cardinality(gone \ Shaky) .. Len(P)
      /\ (\A x \in Data : s0.copies[x] <= 1) => n <= Cardinality(gone)
  BY DEF SRemEffect
<1>3. /\ s0.used \in Nat /\ s.used \in Nat
      /\ \A x \in Data : s0.copies[x] \in Nat /\ s.copies[x] \in Nat /\ t.copies[x] \in Nat
      /\ \A x \in Data : x \in Members(s) <=> s.copies[x] # 0
      /\ \A x \in Data : x \in Members(s0) <=> s0.copies[x] # 0
      /\ m \in Data
  BY SetShape DEF Members
<1>4. m \in Members(s0) /\ more = gone \cup {m} /\ more \subseteq Data /\ gone \subseteq Data
  <2>1. m \in Members(s0)
    BY <1>2, <1>3
  <2> QED BY <1>1, <2>1 DEF Members
<1>5. IsFiniteSet(gone) /\ IsFiniteSet(gone \ Shaky)
  BY <1>1, FS_Subset
<1>6. /\ Cardinality(gone \ Shaky) \in Nat /\ n \in Nat /\ Cardinality(gone) \in Nat
      /\ Cardinality(more \ Shaky) \in Nat
      /\ Cardinality(more \ Shaky) <= Cardinality(gone \ Shaky) + 1
  <2>1. Cardinality(gone \ Shaky) \in Nat /\ Cardinality(gone) \in Nat
    BY <1>5, FS_CardinalityType
  <2>2. more \ Shaky \subseteq (gone \ Shaky) \cup {m}
    BY <1>4
  <2> DEFINE X == gone \ Shaky
             Y == more \ Shaky
  <2>3. Y \subseteq X \cup {m} /\ IsFiniteSet(X)
    BY <1>5, <2>2
  <2> HIDE DEF X, Y
  <2>4. IsFiniteSet(X \cup {m}) /\ Cardinality(X \cup {m}) \in Nat /\ Cardinality(X) \in Nat
        /\ Cardinality(X \cup {m}) <= Cardinality(X) + 1
    BY <2>3, OneMore
  <2>5. Cardinality(Y) <= Cardinality(X \cup {m}) /\ Cardinality(Y) \in Nat
    BY <2>3, <2>4, FS_Subset, FS_CardinalityType
  <2>6. Cardinality(Y) <= Cardinality(X) + 1
    BY <2>4, <2>5
  <2>7. n \in Nat
    BY <1>1, <1>2, <2>1
  <2> QED BY <2>1, <2>5, <2>6, <2>7 DEF X, Y
<1>7. n + 1 \in Cardinality(more \ Shaky) .. Len(Q)
  BY <1>1, <1>2, <1>6
<1>8. \A x \in Data : t.copies[x] <= s0.copies[x]
  <2> TAKE x \in Data
  <2>1. t.copies[x] <= s.copies[x] /\ s.copies[x] <= s0.copies[x]
    BY <1>2
  <2> QED BY <1>3, <2>1
<1>9. \A x \in more : t.copies[x] < s0.copies[x]
  <2> TAKE x \in more
  <2>1. x \in Data /\ t.copies[x] <= s.copies[x] /\ s.copies[x] <= s0.copies[x]
    BY <1>2, <1>4
  <2>2. x = m \/ s.copies[x] < s0.copies[x]
    BY <1>2, <1>4
  <2> QED BY <1>3, <2>1, <2>2
<1>10. Members(s0) \ (Named(Q) \cup Shaky) \subseteq Members(t)
  BY <1>1, <1>2
<1>11. t.used = s0.used - (n + 1)
  BY <1>2, <1>3, <1>6
<1>12. ASSUME \A x \in Data : s0.copies[x] <= 1
       PROVE  n + 1 <= Cardinality(more)
  <2>1. m \notin gone
    <3>1. s0.copies[m] <= 1 /\ s.copies[m] # 0 /\ s.copies[m] \in Nat /\ s0.copies[m] \in Nat
      BY <1>3, <1>12
    <3>2. ~(s.copies[m] < s0.copies[m])
      BY <3>1
    <3> QED BY <1>2, <3>2
  <2>2. n <= Cardinality(gone)
    BY <1>2, <1>12
  <2>3. Cardinality(more) = Cardinality(gone) + 1
    <3> HIDE DEF gone, more
    <3> QED BY <1>4, <1>5, <2>1, OneMore
  <2> HIDE DEF gone, more
  <2> QED BY <1>6, <2>2, <2>3
<1> QED BY <1>7, <1>8, <1>9, <1>10, <1>11, <1>12 DEF SRemEffect

\* srem of a string that is no member.
LEMMA SRemAbsent ==
  ASSUME NEW P, NEW m, NEW Q, Grows(Data, P, m, Q),
         NEW s0 \in Sets, NEW s \in Sets, NEW n, SRemEffect(P, s0, s, n),
         m \notin Members(s)
  PROVE  SRemEffect(Q, s0, s, n)
<1> DEFINE gone == Named(P) \cap Members(s0)
           more == Named(Q) \cap Members(s0)
<1>1. /\ Named(Q) = Named(P) \cup {m} /\ Len(P) \in Nat /\ Len(Q) = Len(P) + 1
      /\ IsFiniteSet(Named(P)) /\ m \in Data
  <2>1. P \in Seq(Data) /\ m \in Data
    BY DEF Grows
  <2> QED BY <2>1, NamedGrown, NamedFinite
<1>2. /\ \A x \in Data : s.copies[x] <= s0.copies[x]
      /\ \A x \in gone : s.copies[x] < s0.copies[x]
      /\ Members(s0) \ (Named(P) \cup Shaky) \subseteq Members(s)
      /\ s.used = s0.used - n
      /\ n \in Cardinality(gone \ Shaky) .. Len(P)
      /\ (\A x \in Data : s0.copies[x] <= 1) => n <= Cardinality(gone)
  BY DEF SRemEffect
<1>3. /\ \A x \in Data : s0.copies[x] \in Nat /\ s.copies[x] \in Nat
      /\ \A x \in Data : x \in Members(s) <=> s.copies[x] # 0
      /\ \A x \in Data : x \in Members(s0) <=> s0.copies[x] # 0
  BY SetShape
<1>4. gone \subseteq more /\ more \subseteq gone \cup {m} /\ more \ Shaky = gone \ Shaky
  BY <1>1, <1>2
<1>5. \A x \in more : s.copies[x] < s0.copies[x]
  <2> TAKE x \in more
  <2>1. CASE x \in gone
    BY <1>2, <2>1
  <2>2. CASE x = m
    <3>1. s.copies[m] = 0 /\ s0.copies[m] # 0 /\ s0.copies[m] \in Nat
      BY <1>1, <1>3, <2>2
    <3> QED BY <2>2, <3>1
  <2> QED BY <1>4, <2>1, <2>2
<1>6. /\ Cardinality(gone) \in Nat /\ Cardinality(more) \in Nat /\ Cardinality(gone) <= Cardinality(more)
      /\ Cardinality(gone \ Shaky) \in Nat
  <2>1. IsFiniteSet(gone) /\ IsFiniteSet(gone \ Shaky)
    BY <1>1, FS_Subset
  <2>2. more = gone \/ more = gone \cup {m}
    BY <1>4
  <2>3. Cardinality(gone \ Shaky) \in Nat
    BY <2>1, FS_CardinalityType
  <2> HIDE DEF gone, more
  <2>4. Cardinality(gone) \in Nat /\ Cardinality(gone \cup {m}) \in Nat
        /\ Cardinality(gone) <= Cardinality(gone \cup {m})
    BY <2>1, OneMore
  <2> QED BY <2>2, <2>3, <2>4
<1>7. n \in Cardinality(more \ Shaky) .. Len(Q) /\ n \in Nat
  <2>1. n \in Cardinality(more \ Shaky) .. Len(P) /\ Cardinality(more \ Shaky) \in Nat
    BY <1>2, <1>4, <1>6
  <2> HIDE DEF more
  <2> QED BY <1>1, <2>1
<1>8. (\A x \in Data : s0.copies[x] <= 1) => n <= Cardinality(more)
  <2> SUFFICES ASSUME \A x \in Data : s0.copies[x] <= 1  PROVE n <= Cardinality(more)
    OBVIOUS
  <2>1. n <= Cardinality(gone)
    BY <1>2
  <2> HIDE DEF gone, more
  <2> QED BY <1>6, <1>7, <2>1
<1>9. Members(s0) \ (Named(Q) \cup Shaky) \subseteq Members(s)
  BY <1>1, <1>2
<1> QED BY <1>2, <1>5, <1>7, <1>8, <1>9 DEF SRemEffect

\* A push: what was there after the arguments so far, with one more.
LEMMA PushStep ==
  ASSUME NEW P, NEW x, NEW Q, Grows(Data, P, x, Q), NEW op,
         NEW s0 \in Seq(Data), NEW s, NEW n, PushEffect(op, P, s0, s, n), NEW t,
         t = IF op = "lpush" THEN <<x>> \o s ELSE Append(s, x)
  PROVE  PushEffect(op, Q, s0, t, Len(t))
<1>1. P \in Seq(Data) /\ x \in Data /\ Q = Append(P, x) /\ <<x>> \in Seq(Data)
  BY DEF Grows
<1>2. s = IF op = "lpush" THEN Reverse(P) \o s0 ELSE s0 \o P
  BY DEF PushEffect
<1>3. CASE op = "lpush"
  <2> DEFINE p == Reverse(P)
             q == Reverse(Q)
             k == Len(P)
  <2>1. /\ Q \in Seq(Data) /\ k \in Nat /\ Len(Q) = k + 1
        /\ \A j \in 1 .. k : Q[j] = P[j]
        /\ Q[k + 1] = x
        /\ \A j \in 1 .. k : P[j] \in Data
        /\ \A j \in 1 .. k + 1 : Q[j] \in Data
    BY <1>1, AppendProperties, ElementOfSeq
  <2>2. p = [j \in 1 .. k |-> P[(k - j) + 1]]
    BY DEF Reverse
  <2>3. q = [j \in 1 .. k + 1 |-> Q[(k + 1 - j) + 1]]
    BY <2>1 DEF Reverse
  <2> HIDE DEF p, q, k
  <2>4. p \in Seq(Data) /\ Len(p) = k
    <3>1. p \in [1 .. k -> Data]
      BY <2>1, <2>2
    <3> QED BY <2>1, <3>1, FunctionIsSeq
  <2>5. q \in Seq(Data) /\ Len(q) = k + 1
    <3>1. q \in [1 .. k + 1 -> Data]
      BY <2>1, <2>3
    <3>2. k + 1 \in Nat
      BY <2>1
    <3> QED BY <3>1, <3>2, FunctionIsSeq
  <2>6. q[1] = x
    <3>1. 1 \in 1 .. k + 1 /\ (k + 1 - 1) + 1 = k + 1
      BY <2>1
    <3> QED BY <2>1, <2>3, <3>1
  <2>7. ASSUME NEW j \in 1 .. Len(p)  PROVE q[j + 1] = p[j]
    <3>1. j + 1 \in 1 .. k + 1 /\ (k + 1 - (j + 1)) + 1 = (k - j) + 1 /\ (k - j) + 1 \in 1 .. k
      BY <2>1, <2>4
    <3>2. q[j + 1] = Q[(k - j) + 1]
      BY <2>3, <3>1
    <3>3. p[j] = P[(k - j) + 1]
      BY <2>2, <2>4
    <3> QED BY <2>1, <3>1, <3>2, <3>3
  <2>8. q = <<x>> \o p
    BY <1>1, <2>4, <2>5, <2>6, <2>7, IsCons
  <2>9. t = <<x>> \o (p \o s0)
    BY <1>2, <1>3 DEF p
  <2>10. t = q \o s0
    <3>1. (<<x>> \o p) \o s0 = <<x>> \o (p \o s0)
      BY <1>1, <2>4, ConcatAssociative
    <3> QED BY <2>8, <2>9, <3>1
  <2> QED BY <1>3, <2>10 DEF PushEffect, q
<1>4. CASE op # "lpush"
  <2>1. s \in Seq(Data)
    BY <1>1, <1>2, <1>4, ConcatProperties
  <2>2. t = s \o <<x>> /\ Q = P \o <<x>>
    <3>1. t = Append(s, x) /\ Q = Append(P, x)
      BY <1>1, <1>4
    <3>2. Append(s, x) = s \o <<x>>
      BY <1>1, <2>1, AppendIsConcat
    <3>3. Append(P, x) = P \o <<x>>
      BY <1>1, AppendIsConcat
    <3> QED BY <3>1, <3>2, <3>3
  <2>3. (s0 \o P) \o <<x>> = s0 \o (P \o <<x>>)
    <3>1. s0 \in Seq(Data) /\ P \in Seq(Data) /\ <<x>> \in Seq(Data)
      BY <1>1
    <3> QED BY <3>1, ConcatAssociative
  <2>4. t = s0 \o Q
    BY <1>2, <1>4, <2>2, <2>3
  <2> QED BY <1>4, <2>4 DEF PushEffect
<1> QED BY <1>3, <1>4

\* One more key of del.
LEMMA DelStep ==
  ASSUME NEW P, NEW x, NEW Q, Grows(Keys, P, x, Q), NEW b, NEW n, DbOK,
         DelEffect(P, b, db, n), NEW e,
         \A k \in Keys : SameOrLost(k, [db EXCEPT ![x] = NULL], e)
  PROVE  DelEffect(Q, b, e, n + IF db[x] = NULL THEN 0 ELSE 1)
<1>1. x \in Keys /\ Named(Q) = Named(P) \cup {x} /\ IsFiniteSet(Named(P))
  <2>1. P \in Seq(Keys) /\ x \in Keys
    BY DEF Grows
  <2> QED BY <2>1, NamedGrown, NamedFinite
<1>2. /\ \A k \in Keys : IF k \in Named(P) THEN db[k] = NULL ELSE SameOrLost(k, b, db)
      /\ Counts(n, Named(P) \cap Present(b))
  BY DEF DelEffect
<1>3. \A k \in Keys : IF k = x THEN e[k] = NULL ELSE SameOrLost(k, db, e)
  <2> TAKE k \in Keys
  <2>1. [db EXCEPT ![x] = NULL][k] = IF k = x THEN NULL ELSE db[k]
    BY DEF DbOK
  <2> QED BY <2>1 DEF SameOrLost
<1>4. ASSUME NEW k \in Keys
      PROVE  IF k \in Named(Q) THEN e[k] = NULL ELSE SameOrLost(k, b, e)
  BY <1>1, <1>2, <1>3 DEF SameOrLost
<1> DEFINE X == Named(P) \cap Present(b)
           Y == Named(Q) \cap Present(b)
<1>5. IsFiniteSet(X)
  BY <1>1, FS_Subset
<1>6. CASE db[x] = NULL
  <2>1. Y = X \/ (Y = X \cup {x} /\ x \in Shaky)
    BY <1>1, <1>2, <1>6 DEF SameOrLost, Present
  <2>2. Counts(n, X)
    BY <1>2
  <2> HIDE DEF X, Y
  <2>3. Counts(n, Y) /\ n \in Nat
    BY <1>5, <2>1, <2>2, CountsLost, CountIsNat
  <2>4. n + (IF db[x] = NULL THEN 0 ELSE 1) = n
    BY <1>6, <2>3
  <2> QED BY <1>4, <2>3, <2>4 DEF DelEffect, Y
<1>7. CASE db[x] # NULL
  <2>1. Y = X \cup {x} /\ x \notin X
    BY <1>1, <1>2, <1>7 DEF SameOrLost, Present
  <2>2. Counts(n, X)
    BY <1>2
  <2> HIDE DEF X, Y
  <2>3. Counts(n + 1, Y)
    BY <1>5, <2>1, <2>2, CountsMore
  <2>4. n + (IF db[x] = NULL THEN 0 ELSE 1) = n + 1
    BY <1>7
  <2> QED BY <1>4, <2>3, <2>4 DEF DelEffect, Y
<1> QED BY <1>6, <1>7

\* One more pair of mset.
LEMMA MSetStep ==
  ASSUME NEW P, NEW x, NEW Q, Grows(Keys \X Data, P, x, Q), NEW b, DbOK,
         MSetEffect(P, b, db), NEW e,
         \A k \in Keys : SameOrLost(k, htable_set(db, x[1], x[2]), e)
  PROVE  MSetEffect(Q, b, e)
<1> DEFINE Container(k) == b[k] # NULL /\ b[k].type # "string"
<1>1. /\ x[1] \in Keys /\ Firsts(Q) = Firsts(P) \cup {x[1]}
      /\ \A y \in Firsts(Q) : LastFor(y, Q) = IF x[1] = y THEN x[2] ELSE LastFor(y, P)
  <2>1. x \in Keys \X Data
    BY DEF Grows
  <2> QED BY <2>1, Grown
<1>2. \A v : Str(v).type = "string"
  BY DEF Str
<1>3. ASSUME NEW k \in Keys
      PROVE  \/ k \in Shaky /\ e[k] = NULL
             \/ e[k] = b[k] /\ (k \in Firsts(Q) => Container(k))
             \/ /\ k \in Firsts(Q) /\ e[k] = Str(LastFor(k, Q))
                /\ Container(k) => k \in Shaky
  <2> DEFINE d == htable_set(db, x[1], x[2])
  <2>1. \/ k \in Shaky /\ db[k] = NULL
        \/ db[k] = b[k] /\ (k \in Firsts(P) => Container(k))
        \/ /\ k \in Firsts(P) /\ db[k] = Str(LastFor(k, P))
           /\ Container(k) => k \in Shaky
    BY DEF MSetEffect
  <2>2. e[k] = d[k] \/ (k \in Shaky /\ e[k] = NULL)
    BY DEF SameOrLost
  <2>3. CASE k # x[1]
    <3>1. d[k] = db[k]
      BY <1>1, <2>3 DEF htable_set, DbOK
    <3>2. k \in Firsts(Q) <=> k \in Firsts(P)
      BY <1>1, <2>3
    <3>3. k \in Firsts(P) => LastFor(k, Q) = LastFor(k, P)
      BY <1>1, <2>3
    <3> HIDE DEF Container, d
    <3> QED BY <2>1, <2>2, <3>1, <3>2, <3>3
  <2>4. CASE k = x[1] /\ (db[k] = NULL \/ db[k].type = "string")
    <3>1. d[k] = Str(x[2])
      BY <1>1, <2>4 DEF htable_set, DbOK
    <3>2. k \in Firsts(Q) /\ LastFor(k, Q) = x[2]
      BY <1>1, <2>4
    <3>3. Container(k) => k \in Shaky
      BY <2>1, <2>4
    <3> HIDE DEF Container, d
    <3> QED BY <2>2, <3>1, <3>2, <3>3
  <2>5. CASE k = x[1] /\ ~(db[k] = NULL \/ db[k].type = "string")
    <3>1. d[k] = db[k]
      BY <2>5 DEF htable_set
    <3>2. db[k] = b[k] /\ Container(k)
      BY <1>2, <2>1, <2>5
    <3> HIDE DEF Container, d
    <3> QED BY <2>2, <3>1, <3>2
  <2> QED BY <2>3, <2>4, <2>5
<1> QED BY <1>3 DEF MSetEffect

\* A hash that counts nothing has no fields, and reads as an absent one.
LEMMA NoHash ==
  ASSUME NEW h \in Hashes, HashFits(h), h.used = 0, NEW args, NEW h0, NEW n,
         HDelEffect(args, h0, h, n)
  PROVE  HDelEffect(args, h0, EmptyHash, n)
<1>1. DOMAIN h.fields = {}
  <2>1. IsFiniteSet(DOMAIN h.fields) /\ Cardinality(DOMAIN h.fields) <= 0
    BY DEF HashFits
  <2>2. Cardinality(DOMAIN h.fields) \in Nat
    BY <2>1, FS_CardinalityType
  <2>3. Cardinality(DOMAIN h.fields) = 0
    BY <2>1, <2>2
  <2> QED BY <2>1, <2>3, FS_EmptySet
<1>2. DOMAIN EmptyHash.fields = {} /\ EmptyHash.used = 0
  BY EmptyOnes
<1>3. /\ Remains({}, DOMAIN h0.fields \ Named(args))
      /\ 0 = h0.used - n
      /\ Counts(n, DOMAIN h0.fields \cap Named(args))
  BY <1>1 DEF HDelEffect
<1> QED BY <1>2, <1>3 DEF HDelEffect

\* So for a set.
LEMMA NoSet ==
  ASSUME NEW s \in Sets, SetFits(s), s.used = 0, NEW args, NEW s0, NEW n,
         SRemEffect(args, s0, s, n)
  PROVE  SRemEffect(args, s0, EmptySet, n)
<1>1. Copies(s) = {}
  <2>1. IsFiniteSet(Copies(s)) /\ Cardinality(Copies(s)) <= 0
    BY DEF SetFits
  <2>2. Cardinality(Copies(s)) \in Nat
    BY <2>1, FS_CardinalityType
  <2>3. Cardinality(Copies(s)) = 0
    BY <2>1, <2>2
  <2> QED BY <2>1, <2>3, FS_EmptySet
<1>2. \A m \in Data : s.copies[m] \in Nat
  BY SetShape
<1>3. ASSUME NEW m \in Data  PROVE s.copies[m] = 0
  <2>1. <<m, s.copies[m]>> \notin Copies(s)
    BY <1>1
  <2>2. s.copies[m] \notin 1 .. s.copies[m]
    BY <2>1, CopiesOf
  <2> QED BY <1>2, <2>2
<1>4. \A m \in Data : EmptySet.copies[m] = s.copies[m]
  BY <1>3, EmptyOnes
<1>5. Members(EmptySet) = Members(s) /\ EmptySet.used = s.used
  BY <1>4, EmptyOnes DEF Members
<1>6. Named(args) \cap Members(s0) \subseteq Data
  BY DEF Members
<1> QED BY <1>4, <1>5, <1>6 DEF SRemEffect

-----------------------------------------------------------------------------
(* Commands that are half done *)

\* The keyspace before a command had its key hold the type it works on.
FitBefore(r) ==
  /\ r.op \in OnHash => HasType(r.before, r.key, "hash")
  /\ r.op \in OnList => HasType(r.before, r.key, "list")
  /\ r.op \in OnSet => HasType(r.before, r.key, "set")

\* The commands that only add to what their key holds.
Adds == {"hset", "sadd"} \cup OnList

\* r has worked through n of its arguments, and left d and its count so far.
SoFar(r, n, d, count) ==
  /\ Effect(r.op, r.key, SubSeq(r.args, 1, n), r.before, d, count)
  /\ r.op \in Adds /\ r.before[r.key] # NULL => d[r.key] # NULL

\* A command under way has the effect of the arguments behind it.
HalfDone == run # NULL => FitBefore(run) /\ SoFar(run, run.i - 1, db, run.result)

\* An iteration takes it over one argument more.
Advances ==
  \E result : /\ result \in Nat /\ \E d : Iterate(d, result)
              /\ SoFar(run, run.i, db', result)

\* What an iteration starts from.
LEMMA AtHalf ==
  ASSUME IInv, HalfDone, run # NULL
  PROVE  /\ DbOK /\ RunFits(run, db) /\ FitBefore(run) /\ run.result \in Nat
         /\ run.before \in [Keys -> Contents \cup {NULL}]
         /\ Effect(run.op, run.key, SubSeq(run.args, 1, run.i - 1), run.before, db, run.result)
         /\ run.op \in Adds /\ run.before[run.key] # NULL => db[run.key] # NULL
<1>1. DbOK /\ RunFits(run, db)
  BY AtArgument
<1>2. FitBefore(run) /\ SoFar(run, run.i - 1, db, run.result)
  BY DEF HalfDone
<1> QED BY <1>1, <1>2 DEF RunFits, SoFar

\* The arguments of an iteration are those behind it and one more.
LEMMA ArgsGrow ==
  ASSUME NEW S, NEW args \in Seq(S), NEW i \in 1 .. Len(args)
  PROVE  Grows(S, SubSeq(args, 1, i - 1), args[i], SubSeq(args, 1, i))
<1>1. Len(args) \in Nat /\ i \in Nat /\ \A j \in 1 .. Len(args) : args[j] \in S
  BY LenProperties, ElementOfSeq
<1>2. SubSeq(args, 1, i) = SubSeq(args, 1, i - 1) \o <<args[i]>>
  <2>1. 1 \in 1 .. Len(args) /\ i \in 1 .. Len(args)
    BY <1>1
  <2> QED BY <2>1, SubSeqRecursiveSecond
<1>3. SubSeq(args, 1, i - 1) \in Seq(S) /\ args[i] \in S
  <2>1. 1 \in Int /\ i - 1 \in Int /\ \A j \in 1 .. i - 1 : args[j] \in S
    BY <1>1
  <2> QED BY <1>1, <2>1, SubSeqProperties
<1>4. Append(SubSeq(args, 1, i - 1), args[i]) = SubSeq(args, 1, i - 1) \o <<args[i]>>
  BY <1>3, AppendIsConcat
<1> QED BY <1>2, <1>3, <1>4 DEF Grows

\* So for the command under way.
LEMMA RunGrows ==
  ASSUME RunFits(run, db), NEW P, P = SubSeq(run.args, 1, run.i - 1),
         NEW Q, Q = SubSeq(run.args, 1, run.i)
  PROVE  /\ run.op = "del" => Grows(Keys, P, arg, Q)
         /\ run.op = "mset" => Grows(Keys \X Data, P, arg, Q)
         /\ run.op = "hset" => Grows(Data \X Data, P, arg, Q)
         /\ run.op \in {"hdel"} \cup OnList \cup OnSet => Grows(Data, P, arg, Q)
<1>1. /\ run.i \in 1 .. Len(run.args)
      /\ run.op = "del" => run.args \in Seq(Keys)
      /\ run.op = "mset" => run.args \in Seq(Keys \X Data)
      /\ run.op = "hset" => run.args \in Seq(Data \X Data)
      /\ run.op \in {"hdel"} \cup OnList \cup OnSet => run.args \in Seq(Data)
  BY DEF RunFits
<1>2. \A S : run.args \in Seq(S) => Grows(S, P, arg, Q)
  BY <1>1, ArgsGrow DEF arg
<1> QED BY <1>1, <1>2

\* An iteration that puts c under the key k of its command, or removes it. It
\* is there afterwards, when it is not lost, and other keys are as they were or
\* lost.
LEMMA KeyStep ==
  ASSUME DbOK, NEW k \in Keys, NEW b, \A j \in Keys \ {k} : SameOrLost(j, b, db),
         NEW c \in Contents \cup {NULL}, NEW d, d = [db EXCEPT ![k] = c],
         NEW e \in Outcomes(d)
  PROVE  /\ \A j \in Keys \ {k} : SameOrLost(j, b, e)
         /\ k \notin Shaky \/ c = NULL \/ db[k] # NULL => e[k] = c
<1>1. d \in [Keys -> Contents \cup {NULL}] /\ d[k] = c /\ \A j \in Keys \ {k} : d[j] = db[j]
  BY DEF DbOK
<1>2. /\ e \in [Keys -> Contents \cup {NULL}]
      /\ \A j \in Keys : SameOrLost(j, d, e)
      /\ Present(d) = Present(db) => e = d
  BY <1>1, OutcomeIs
<1>3. \A j \in Keys \ {k} : SameOrLost(j, b, e)
  BY <1>1, <1>2 DEF SameOrLost
<1>4. CASE k \notin Shaky \/ c = NULL
  BY <1>1, <1>2, <1>3, <1>4 DEF SameOrLost
<1>5. CASE db[k] # NULL /\ c # NULL
  <2>1. Present(d) = Present(db)
    BY <1>1, <1>5 DEF Present
  <2> QED BY <1>1, <1>2, <1>3, <2>1
<1> QED BY <1>3, <1>4, <1>5

\* An iteration that writes nothing.
LEMMA IdleStep ==
  ASSUME NEW e \in Outcomes(db)
  PROVE  e = db
BY DEF Outcomes

\* The effect of a command on one key.
LEMMA EffectOnKey ==
  ASSUME NEW op \in OnHash \cup OnList \cup OnSet, NEW k, NEW args, NEW b, NEW d, NEW n
  PROVE  Effect(op, k, args, b, d, n) <=>
           /\ \A j \in Keys \ {k} : SameOrLost(j, b, d)
           /\ ~(k \in Shaky /\ b[k] = NULL) => OnKey(op, args, b[k], d[k], n)
BY DEF Effect, OnHash, OnList, OnSet

\* del advances.
LEMMA DelAdvances ==
  ASSUME IInv, HalfDone, htable_del
  PROVE  Advances
<1> DEFINE P == SubSeq(run.args, 1, run.i - 1)
           Q == SubSeq(run.args, 1, run.i)
           d == [db EXCEPT ![arg] = NULL]
           result == Tally(IF db[arg] = NULL THEN 0 ELSE 1)
<1>1. Iterate(d, result) /\ run # NULL /\ run.op = "del"
  BY DEF htable_del, Looping
<1>2. /\ DbOK /\ RunFits(run, db) /\ run.result \in Nat
      /\ Effect("del", run.key, P, run.before, db, run.result)
  BY <1>1, AtHalf
<1>3. Grows(Keys, P, arg, Q)
  BY <1>1, <1>2, RunGrows
<1>4. d \in [Keys -> Contents \cup {NULL}] /\ db' \in Outcomes(d)
  BY <1>1, <1>2 DEF Iterate, DbOK
<1>5. \A k \in Keys : SameOrLost(k, d, db')
  BY <1>4, OutcomeIs
<1>6. DelEffect(P, run.before, db, run.result)
  BY <1>2 DEF Effect
<1> HIDE DEF P, Q
<1>7. DelEffect(Q, run.before, db', run.result + IF db[arg] = NULL THEN 0 ELSE 1)
  BY <1>2, <1>3, <1>5, <1>6, DelStep
<1>8. Effect("del", run.key, Q, run.before, db', result) /\ result \in Nat
  BY <1>2, <1>7 DEF Effect, Tally
<1> HIDE DEF result, d
<1> QED BY <1>1, <1>8 DEF Advances, SoFar, Adds, OnList, Q

\* mset advances.
LEMMA MSetAdvances ==
  ASSUME IInv, HalfDone, mset_pair
  PROVE  Advances
<1> DEFINE P == SubSeq(run.args, 1, run.i - 1)
           Q == SubSeq(run.args, 1, run.i)
           d == htable_set(db, arg[1], arg[2])
<1>1. Iterate(d, 0) /\ run # NULL /\ run.op = "mset"
  BY DEF mset_pair, Looping
<1>2. /\ DbOK /\ RunFits(run, db)
      /\ Effect("mset", run.key, P, run.before, db, run.result)
  BY <1>1, AtHalf
<1>3. Grows(Keys \X Data, P, arg, Q)
  BY <1>1, <1>2, RunGrows
<1>4. Written(d)
  <2>1. arg \in Keys \X Data
    BY <1>3 DEF Grows
  <2> QED BY <1>2, <2>1, SetWrites DEF Strings
<1>5. d \in [Keys -> Contents \cup {NULL}] /\ db' \in Outcomes(d)
  BY <1>1, <1>2, <1>4, WrittenType DEF Iterate
<1>6. \A k \in Keys : SameOrLost(k, d, db')
  BY <1>5, OutcomeIs
<1>7. MSetEffect(P, run.before, db)
  BY <1>2 DEF Effect
<1> HIDE DEF P, Q
<1>8. MSetEffect(Q, run.before, db')
  BY <1>2, <1>3, <1>6, <1>7, MSetStep
<1>9. Effect("mset", run.key, Q, run.before, db', 0)
  BY <1>8 DEF Effect
<1> HIDE DEF d
<1> QED BY <1>1, <1>9 DEF Advances, SoFar, Adds, OnList, Q

\* Where a command on one key is.
LEMMA AtKey ==
  ASSUME IInv, HalfDone, run # NULL, run.op \in OnHash \cup OnList \cup OnSet,
         NEW P, P = SubSeq(run.args, 1, run.i - 1)
  PROVE  /\ DbOK /\ RunFits(run, db) /\ run.key \in Keys /\ run.result \in Nat
         /\ run.before[run.key] \in Contents \cup {NULL}
         /\ FitBefore(run)
         /\ \A j \in Keys \ {run.key} : SameOrLost(j, run.before, db)
         /\ ~(run.key \in Shaky /\ run.before[run.key] = NULL)
              => OnKey(run.op, P, run.before[run.key], db[run.key], run.result)
         /\ run.op \in Adds /\ run.before[run.key] # NULL => db[run.key] # NULL
<1>1. /\ DbOK /\ RunFits(run, db) /\ FitBefore(run) /\ run.result \in Nat
      /\ run.before \in [Keys -> Contents \cup {NULL}]
      /\ Effect(run.op, run.key, P, run.before, db, run.result)
      /\ run.op \in Adds /\ run.before[run.key] # NULL => db[run.key] # NULL
  BY AtHalf
<1>2. run.key \in Keys
  BY <1>1 DEF RunFits
<1>3. /\ \A j \in Keys \ {run.key} : SameOrLost(j, run.before, db)
      /\ ~(run.key \in Shaky /\ run.before[run.key] = NULL)
           => OnKey(run.op, P, run.before[run.key], db[run.key], run.result)
  BY <1>1, EffectOnKey
<1> QED BY <1>1, <1>2, <1>3

\* An iteration puts c under the key of its command, or removes it, and c is
\* what the arguments so far should leave.
LEMMA KeyAdvances ==
  ASSUME IInv, HalfDone, run # NULL, run.op \in OnHash \cup OnList \cup OnSet,
         NEW c \in Contents \cup {NULL}, NEW d, d = [db EXCEPT ![run.key] = c],
         NEW result \in Nat, Iterate(d, result),
         run.op \in Adds => c # NULL,
         c # NULL /\ run.op \notin Adds => db[run.key] # NULL,
         ~(run.key \in Shaky /\ run.before[run.key] = NULL)
           => OnKey(run.op, SubSeq(run.args, 1, run.i), run.before[run.key], c, result)
  PROVE  Advances
<1> DEFINE k == run.key
           b == run.before
<1>1. /\ DbOK /\ k \in Keys /\ \A j \in Keys \ {k} : SameOrLost(j, b, db)
      /\ run.op \in Adds /\ b[k] # NULL => db[k] # NULL
  BY AtKey
<1>2. db' \in Outcomes(d) /\ d = [db EXCEPT ![k] = c]
  BY DEF Iterate
<1>3. /\ \A j \in Keys \ {k} : SameOrLost(j, b, db')
      /\ k \notin Shaky \/ c = NULL \/ db[k] # NULL => db'[k] = c
  <2> HIDE DEF k, b
  <2>1. PICK e \in Outcomes(d) : e = db'
    BY <1>2
  <2>2. /\ \A j \in Keys \ {k} : SameOrLost(j, b, e)
        /\ k \notin Shaky \/ c = NULL \/ db[k] # NULL => e[k] = c
    BY <1>1, <1>2, KeyStep
  <2> QED BY <2>1, <2>2
<1>4. ~(k \in Shaky /\ b[k] = NULL) => db'[k] = c
  BY <1>1, <1>3
<1>5. ~(k \in Shaky /\ b[k] = NULL)
        => OnKey(run.op, SubSeq(run.args, 1, run.i), b[k], db'[k], result)
  BY <1>4
<1>6. Effect(run.op, k, SubSeq(run.args, 1, run.i), b, db', result)
  BY <1>3, <1>5, EffectOnKey
<1>7. run.op \in Adds /\ b[k] # NULL => db'[k] # NULL
  BY <1>1, <1>4
<1> QED BY <1>6, <1>7 DEF Advances, SoFar

\* An iteration that leaves the keyspace as it is.
LEMMA KeyIdles ==
  ASSUME IInv, HalfDone, run # NULL, run.op \in OnHash \cup OnList \cup OnSet,
         NEW result \in Nat, Iterate(db, result),
         ~(run.key \in Shaky /\ run.before[run.key] = NULL)
           => OnKey(run.op, SubSeq(run.args, 1, run.i), run.before[run.key], db[run.key], result)
  PROVE  Advances
<1> DEFINE k == run.key
           b == run.before
<1>1. /\ DbOK /\ k \in Keys /\ \A j \in Keys \ {k} : SameOrLost(j, b, db)
      /\ run.op \in Adds /\ b[k] # NULL => db[k] # NULL
  BY AtKey
<1>2. db' = db
  BY IdleStep DEF Iterate
<1>3. Effect(run.op, k, SubSeq(run.args, 1, run.i), b, db', result)
  BY <1>1, <1>2, EffectOnKey
<1> QED BY <1>1, <1>2, <1>3 DEF Advances, SoFar

\* Where a command on a hash is, and what its hash was.
LEMMA AtHashEffect ==
  ASSUME IInv, HalfDone, NEW op \in OnHash, Looping(op),
         NEW P, P = SubSeq(run.args, 1, run.i - 1), NEW Q, Q = SubSeq(run.args, 1, run.i),
         NEW h0, h0 = Held(run.before[run.key], EmptyHash), NEW h, h = val(run.key, EmptyHash)
  PROVE  /\ run # NULL /\ run.op = op /\ run.key \in Keys /\ run.result \in Nat
         /\ h0 \in Hashes /\ h \in Hashes /\ HashFits(h)
         /\ op = "hset" => Grows(Data \X Data, P, arg, Q) /\ arg[1] \in Data /\ arg[2] \in Data
         /\ op = "hdel" => Grows(Data, P, arg, Q) /\ arg \in Data
         /\ ~(run.key \in Shaky /\ run.before[run.key] = NULL) =>
              /\ op = "hset" => HSetEffect(P, h0, h, run.result)
              /\ op = "hdel" => HDelEffect(P, h0, h, run.result)
<1>1. run # NULL /\ run.op = op /\ run.op \in OnHash
  BY DEF Looping
<1>2. /\ DbOK /\ RunFits(run, db) /\ run.key \in Keys /\ run.result \in Nat
      /\ run.before[run.key] \in Contents \cup {NULL} /\ FitBefore(run)
      /\ ~(run.key \in Shaky /\ run.before[run.key] = NULL)
           => OnKey(op, P, run.before[run.key], db[run.key], run.result)
  BY <1>1, AtKey
<1>3. h \in Hashes /\ HashFits(h) /\ (op = "hset" => arg[1] \in Data /\ arg[2] \in Data)
      /\ (op = "hdel" => arg \in Data)
  BY AtHash
<1>4. h0 \in Hashes
  BY <1>1, <1>2, HeldOf DEF FitBefore, HasType
<1>5. /\ op = "hset" => Grows(Data \X Data, P, arg, Q)
      /\ op = "hdel" => Grows(Data, P, arg, Q)
  BY <1>1, <1>2, RunGrows
<1>6. /\ op = "hset" => (OnKey(op, P, run.before[run.key], db[run.key], run.result)
                           <=> HSetEffect(P, h0, h, run.result))
      /\ op = "hdel" => (OnKey(op, P, run.before[run.key], db[run.key], run.result)
                           <=> HDelEffect(P, h0, h, run.result))
  BY DEF OnKey, val
<1> QED BY <1>1, <1>2, <1>3, <1>4, <1>5, <1>6

\* hset advances.
LEMMA HSetAdvances ==
  ASSUME IInv, HalfDone, htable_hset
  PROVE  Advances
<1> DEFINE P == SubSeq(run.args, 1, run.i - 1)
           Q == SubSeq(run.args, 1, run.i)
           h0 == Held(run.before[run.key], EmptyHash)
           h == val(run.key, EmptyHash)
           n == run.result
<1>1. Looping("hset") /\ "hset" \in OnHash
  BY DEF htable_hset, OnHash
<1>2. PICK t \in htable_update_hash(h, arg[1], arg[2]) : Iterate(Updated("hash", t), Tally(1))
  BY DEF htable_hset
<1>3. /\ run # NULL /\ run.op = "hset" /\ run.key \in Keys /\ n \in Nat
      /\ h0 \in Hashes /\ h \in Hashes /\ HashFits(h)
      /\ Grows(Data \X Data, P, arg, Q) /\ arg[1] \in Data /\ arg[2] \in Data
      /\ ~(run.key \in Shaky /\ run.before[run.key] = NULL) => HSetEffect(P, h0, h, n)
  BY <1>1, AtHashEffect
<1> DEFINE c == [type |-> "hash", val |-> t]
<1> HIDE DEF P, Q, h0, h, n
<1>a. PICK x : x = arg
  OBVIOUS
<1>b. PICK f, v : f = x[1] /\ v = x[2]
  OBVIOUS
<1>4. t \in Hashes /\ HashFits(t) /\ HashWith(h, f, v, t)
  <2>1. f \in Data /\ v \in Data /\ t \in htable_update_hash(h, f, v)
    BY <1>2, <1>3, <1>a, <1>b
  <2>2. h \in Hashes /\ HashFits(h)
    BY <1>3
  <2> QED BY <2>1, <2>2, HashPut
<1>5. HSetEffect(P, h0, h, n) => HSetEffect(Q, h0, t, n + 1)
  <2>1. Grows(Data \X Data, P, x, Q)
    BY <1>3, <1>a
  <2>2. h0 \in Hashes /\ h \in Hashes
    BY <1>3
  <2> QED BY <1>4, <1>b, <2>1, <2>2, HSetStep
<1>6. c \in Contents /\ c # NULL
  BY <1>4, ContentsOf, NullAssumption
<1>7. Held(c, EmptyHash) = t
  BY <1>6 DEF Held
<1>8. ~(run.key \in Shaky /\ run.before[run.key] = NULL)
        => OnKey("hset", Q, run.before[run.key], c, n + 1)
  BY <1>3, <1>5, <1>7 DEF OnKey, h0
<1>9. Updated("hash", t) = [db EXCEPT ![run.key] = c]
  BY DEF Updated
<1>10. Tally(1) = n + 1 /\ n + 1 \in Nat
  BY <1>3 DEF Tally, n
<1> HIDE DEF c
<1>11. Iterate(Updated("hash", t), n + 1)
  BY <1>2, <1>10
<1>12. run.op \in OnHash \cup OnList \cup OnSet /\ run.op \in Adds
  BY <1>1, <1>3 DEF Adds
<1> QED BY <1>3, <1>6, <1>8, <1>9, <1>10, <1>11, <1>12, KeyAdvances DEF Q

\* hdel advances.
LEMMA HDelAdvances ==
  ASSUME IInv, HalfDone, htable_hdel
  PROVE  Advances
<1> DEFINE P == SubSeq(run.args, 1, run.i - 1)
           Q == SubSeq(run.args, 1, run.i)
           h0 == Held(run.before[run.key], EmptyHash)
           h == val(run.key, EmptyHash)
           n == run.result
           known == ~(run.key \in Shaky /\ run.before[run.key] = NULL)
<1>1. Looping("hdel") /\ "hdel" \in OnHash
  BY DEF htable_hdel, OnHash
<1>2. /\ run # NULL /\ run.op = "hdel" /\ run.key \in Keys /\ n \in Nat
      /\ h0 \in Hashes /\ h \in Hashes /\ HashFits(h) /\ Grows(Data, P, arg, Q)
      /\ known => HDelEffect(P, h0, h, n)
  BY <1>1, AtHashEffect
<1>3. run.op \in OnHash \cup OnList \cup OnSet /\ run.op \notin Adds
  BY <1>2 DEF Adds, OnList, OnHash
<1>4. Tally(1) = n + 1 /\ n + 1 \in Nat /\ Tally(0) = n
  BY <1>2 DEF Tally
<1>5. CASE arg \notin DOMAIN h.fields /\ Iterate(db, Tally(0))
  <2>1. Held(db[run.key], EmptyHash) = h
    BY DEF val
  <2> HIDE DEF P, Q, h0, h, n
  <2>2. HDelEffect(P, h0, h, n) => HDelEffect(Q, h0, h, n)
    BY <1>2, <1>5, HDelAbsent
  <2>3. known => OnKey("hdel", Q, run.before[run.key], db[run.key], n)
    BY <1>2, <2>1, <2>2 DEF OnKey, h0
  <2>4. Iterate(db, n)
    BY <1>4, <1>5
  <2> QED BY <1>2, <1>3, <2>3, <2>4, KeyIdles DEF Q
<1>6. ASSUME arg \in DOMAIN h.fields, NEW F \in Kept(DOMAIN h.fields \ {arg}), NEW t,
             t = [fields |-> Restrict(h.fields, F), used |-> h.used - 1],
             Iterate(Stored(db, run.key, "hash", t), Tally(1))
      PROVE  Advances
  <2>1. db[run.key] # NULL
    <3>1. db[run.key] = NULL => h = EmptyHash
      BY DEF val, Held
    <3> QED BY <1>6, <3>1, EmptyOnes
  <2> HIDE DEF P, Q, h0, h, n
  <2>2. /\ t \in Hashes /\ HashFits(t) /\ t.used = h.used - 1
        /\ Remains(DOMAIN t.fields, DOMAIN h.fields \ {arg})
        /\ \A g \in DOMAIN t.fields : t.fields[g] = h.fields[g]
    <3>1. h \in Hashes /\ HashFits(h)
      BY <1>2
    <3> QED BY <1>6, <3>1, HashTake
  <2>3. HDelEffect(P, h0, h, n) => HDelEffect(Q, h0, t, n + 1)
    BY <1>2, <1>6, <2>2, HDelStep
  <2> DEFINE rec == [type |-> "hash", val |-> t]
             c == IF t.used = 0 THEN NULL ELSE rec
  <2>4. rec \in Contents /\ rec # NULL
    BY <2>2, ContentsOf, NullAssumption
  <2>5. Stored(db, run.key, "hash", t) = [db EXCEPT ![run.key] = c]
    BY DEF Stored
  <2>6. HDelEffect(Q, h0, t, n + 1) => HDelEffect(Q, h0, Held(c, EmptyHash), n + 1)
    <3>1. CASE t.used = 0
      <4>1. Held(c, EmptyHash) = EmptyHash
        BY <3>1 DEF Held
      <4> QED BY <2>2, <3>1, <4>1, NoHash
    <3>2. CASE t.used # 0
      <4>1. Held(c, EmptyHash) = t
        BY <2>4, <3>2 DEF Held
      <4> QED BY <4>1
    <3> QED BY <3>1, <3>2
  <2>7. c \in Contents \cup {NULL}
    BY <2>4
  <2> HIDE DEF rec, c
  <2>8. known => OnKey("hdel", Q, run.before[run.key], c, n + 1)
    BY <1>2, <2>3, <2>6 DEF OnKey, h0
  <2>9. Iterate([db EXCEPT ![run.key] = c], n + 1)
    BY <1>4, <1>6, <2>5
  <2> QED BY <1>2, <1>3, <1>4, <2>1, <2>7, <2>8, <2>9, KeyAdvances DEF Q
<1> QED BY <1>5, <1>6 DEF htable_hdel

\* Where a command on a set is, and what its set was.
LEMMA AtSetEffect ==
  ASSUME IInv, HalfDone, NEW op \in OnSet, Looping(op),
         NEW P, P = SubSeq(run.args, 1, run.i - 1), NEW Q, Q = SubSeq(run.args, 1, run.i),
         NEW s0, s0 = Held(run.before[run.key], EmptySet), NEW s, s = val(run.key, EmptySet)
  PROVE  /\ run # NULL /\ run.op = op /\ run.key \in Keys /\ run.result \in Nat
         /\ s0 \in Sets /\ s \in Sets /\ SetFits(s)
         /\ Grows(Data, P, arg, Q) /\ arg \in Data
         /\ ~(run.key \in Shaky /\ run.before[run.key] = NULL) =>
              /\ op = "sadd" => SAddEffect(P, s0, s, run.result)
              /\ op = "srem" => SRemEffect(P, s0, s, run.result)
<1>1. run # NULL /\ run.op = op /\ run.op \in OnSet
  BY DEF Looping
<1>2. /\ DbOK /\ RunFits(run, db) /\ run.key \in Keys /\ run.result \in Nat
      /\ run.before[run.key] \in Contents \cup {NULL} /\ FitBefore(run)
      /\ ~(run.key \in Shaky /\ run.before[run.key] = NULL)
           => OnKey(op, P, run.before[run.key], db[run.key], run.result)
  BY <1>1, AtKey
<1>3. s \in Sets /\ SetFits(s) /\ arg \in Data
  BY AtSet
<1>4. s0 \in Sets
  BY <1>1, <1>2, HeldOf DEF FitBefore, HasType
<1>5. Grows(Data, P, arg, Q)
  BY <1>1, <1>2, RunGrows
<1>6. /\ op = "sadd" => (OnKey(op, P, run.before[run.key], db[run.key], run.result)
                           <=> SAddEffect(P, s0, s, run.result))
      /\ op = "srem" => (OnKey(op, P, run.before[run.key], db[run.key], run.result)
                           <=> SRemEffect(P, s0, s, run.result))
  BY DEF OnKey, val
<1> QED BY <1>1, <1>2, <1>3, <1>4, <1>5, <1>6

\* sadd advances.
LEMMA SAddAdvances ==
  ASSUME IInv, HalfDone, htable_sadd
  PROVE  Advances
<1> DEFINE P == SubSeq(run.args, 1, run.i - 1)
           Q == SubSeq(run.args, 1, run.i)
           s0 == Held(run.before[run.key], EmptySet)
           s == val(run.key, EmptySet)
           n == run.result
           known == ~(run.key \in Shaky /\ run.before[run.key] = NULL)
<1>1. Looping("sadd") /\ "sadd" \in OnSet
  BY DEF htable_sadd, OnSet
<1>2. /\ run # NULL /\ run.op = "sadd" /\ run.key \in Keys /\ n \in Nat
      /\ s0 \in Sets /\ s \in Sets /\ SetFits(s) /\ Grows(Data, P, arg, Q) /\ arg \in Data
      /\ known => SAddEffect(P, s0, s, n)
  BY <1>1, AtSetEffect
<1>3. run.op \in OnHash \cup OnList \cup OnSet /\ run.op \in Adds
  BY <1>1, <1>2 DEF Adds
<1>4. Tally(1) = n + 1 /\ n + 1 \in Nat /\ Tally(0) = n
  BY <1>2 DEF Tally
<1>5. CASE set_refuses(s, arg) /\ Iterate(db, Tally(0))
  <2>1. Held(db[run.key], EmptySet) = s
    BY DEF val
  <2> HIDE DEF P, Q, s0, s, n
  <2>2. SAddEffect(P, s0, s, n) => SAddEffect(Q, s0, s, n)
    BY <1>2, <1>5, SAddRefused DEF set_refuses
  <2>3. known => OnKey("sadd", Q, run.before[run.key], db[run.key], n)
    BY <1>2, <2>1, <2>2 DEF OnKey, s0
  <2>4. Iterate(db, n)
    BY <1>4, <1>5
  <2> QED BY <1>2, <1>3, <2>3, <2>4, KeyIdles DEF Q
<1>6. ASSUME NEW t \in htable_update_set(s, arg), Iterate(Updated("set", t), Tally(1))
      PROVE  Advances
  <2> HIDE DEF P, Q, s0, s, n
  <2>1. SetWith(s, arg, t)
    BY <1>2, SetPut
  <2>2. t \in Sets
    BY <1>2, SetPut
  <2>3. SAddEffect(P, s0, s, n) => SAddEffect(Q, s0, t, n + 1)
    <3>1. Grows(Data, P, arg, Q) /\ s0 \in Sets /\ s \in Sets
      BY <1>2
    <3> QED BY <2>1, <3>1, SAddStep
  <2> DEFINE c == [type |-> "set", val |-> t]
  <2>4. c \in Contents /\ c # NULL
    BY <2>2, ContentsOf, NullAssumption
  <2>5. Held(c, EmptySet) = t
    BY <2>4 DEF Held
  <2>6. Updated("set", t) = [db EXCEPT ![run.key] = c]
    BY DEF Updated
  <2> HIDE DEF c
  <2>7. known => OnKey("sadd", Q, run.before[run.key], c, n + 1)
    BY <1>2, <2>3, <2>5 DEF OnKey, s0
  <2>8. Iterate([db EXCEPT ![run.key] = c], n + 1)
    BY <1>4, <1>6, <2>6
  <2> QED BY <1>2, <1>3, <1>4, <2>4, <2>7, <2>8, KeyAdvances DEF Q
<1> QED BY <1>5, <1>6 DEF htable_sadd

\* srem advances.
LEMMA SRemAdvances ==
  ASSUME IInv, HalfDone, htable_srem
  PROVE  Advances
<1> DEFINE P == SubSeq(run.args, 1, run.i - 1)
           Q == SubSeq(run.args, 1, run.i)
           s0 == Held(run.before[run.key], EmptySet)
           s == val(run.key, EmptySet)
           n == run.result
           known == ~(run.key \in Shaky /\ run.before[run.key] = NULL)
<1>1. Looping("srem") /\ "srem" \in OnSet
  BY DEF htable_srem, OnSet
<1>2. /\ run # NULL /\ run.op = "srem" /\ run.key \in Keys /\ n \in Nat
      /\ s0 \in Sets /\ s \in Sets /\ SetFits(s) /\ Grows(Data, P, arg, Q) /\ arg \in Data
      /\ known => SRemEffect(P, s0, s, n)
  BY <1>1, AtSetEffect
<1>3. run.op \in OnHash \cup OnList \cup OnSet /\ run.op \notin Adds
  BY <1>2 DEF Adds, OnList, OnSet
<1>4. Tally(1) = n + 1 /\ n + 1 \in Nat /\ Tally(0) = n
  BY <1>2 DEF Tally
<1>5. CASE arg \notin Members(s) /\ Iterate(db, Tally(0))
  <2>1. Held(db[run.key], EmptySet) = s
    BY DEF val
  <2> HIDE DEF P, Q, s0, s, n
  <2>2. SRemEffect(P, s0, s, n) => SRemEffect(Q, s0, s, n)
    BY <1>2, <1>5, SRemAbsent
  <2>3. known => OnKey("srem", Q, run.before[run.key], db[run.key], n)
    BY <1>2, <2>1, <2>2 DEF OnKey, s0
  <2>4. Iterate(db, n)
    BY <1>4, <1>5
  <2> QED BY <1>2, <1>3, <2>3, <2>4, KeyIdles DEF Q
<1>6. ASSUME arg \in Members(s),
             NEW t \in Resized([copies |-> [s.copies EXCEPT ![arg] = @ - 1],
                                used |-> s.used - 1, stones |-> TRUE]),
             Iterate(Stored(db, run.key, "set", t), Tally(1))
      PROVE  Advances
  <2>1. db[run.key] # NULL
    <3>1. db[run.key] = NULL => s = EmptySet
      BY DEF val, Held
    <3>2. Members(EmptySet) = {}
      BY EmptyOnes DEF Members
    <3> QED BY <1>6, <3>1, <3>2
  <2> HIDE DEF P, Q, s0, s, n
  <2>2. /\ t \in Sets /\ SetFits(t) /\ t.used = s.used - 1
        /\ \A x \in Data : t.copies[x] <= s.copies[x]
        /\ t.copies[arg] < s.copies[arg]
        /\ Members(s) \ ({arg} \cup Shaky) \subseteq Members(t)
    BY <1>2, <1>6, SetTake
  <2>3. SRemEffect(P, s0, s, n) => SRemEffect(Q, s0, t, n + 1)
    BY <1>2, <1>6, <2>2, SRemStep
  <2> DEFINE rec == [type |-> "set", val |-> t]
             c == IF t.used = 0 THEN NULL ELSE rec
  <2>4. rec \in Contents /\ rec # NULL
    BY <2>2, ContentsOf, NullAssumption
  <2>5. Stored(db, run.key, "set", t) = [db EXCEPT ![run.key] = c]
    BY DEF Stored
  <2>6. SRemEffect(Q, s0, t, n + 1) => SRemEffect(Q, s0, Held(c, EmptySet), n + 1)
    <3>1. CASE t.used = 0
      <4>1. Held(c, EmptySet) = EmptySet
        BY <3>1 DEF Held
      <4> QED BY <2>2, <3>1, <4>1, NoSet
    <3>2. CASE t.used # 0
      <4>1. Held(c, EmptySet) = t
        BY <2>4, <3>2 DEF Held
      <4> QED BY <4>1
    <3> QED BY <3>1, <3>2
  <2>7. c \in Contents \cup {NULL}
    BY <2>4
  <2> HIDE DEF rec, c
  <2>8. known => OnKey("srem", Q, run.before[run.key], c, n + 1)
    BY <1>2, <2>3, <2>6 DEF OnKey, s0
  <2>9. Iterate([db EXCEPT ![run.key] = c], n + 1)
    BY <1>4, <1>6, <2>5
  <2> QED BY <1>2, <1>3, <1>4, <2>1, <2>7, <2>8, <2>9, KeyAdvances DEF Q
<1> QED BY <1>5, <1>6 DEF htable_srem

\* lpush and rpush advance.
LEMMA PushAdvances ==
  ASSUME IInv, HalfDone, htable_push
  PROVE  Advances
<1>1. PICK op \in OnList :
        /\ Looping(op)
        /\ LET s == htable_update_list(IF op = "lpush" THEN "LEFT" ELSE "RIGHT")
           IN  Iterate(Updated("list", s), Len(s))
  BY DEF htable_push, OnList
<1> DEFINE P == SubSeq(run.args, 1, run.i - 1)
           Q == SubSeq(run.args, 1, run.i)
           s0 == Held(run.before[run.key], <<>>)
           s == val(run.key, <<>>)
           n == run.result
           t == htable_update_list(IF op = "lpush" THEN "LEFT" ELSE "RIGHT")
           c == [type |-> "list", val |-> t]
           known == ~(run.key \in Shaky /\ run.before[run.key] = NULL)
<1>2. run # NULL /\ run.op = op /\ run.op \in OnHash \cup OnList \cup OnSet /\ run.op \in Adds
  BY <1>1 DEF Looping, Adds
<1>3. /\ DbOK /\ RunFits(run, db) /\ run.key \in Keys /\ n \in Nat
      /\ run.before[run.key] \in Contents \cup {NULL} /\ FitBefore(run)
      /\ known => OnKey(op, P, run.before[run.key], db[run.key], n)
  BY <1>2, AtKey
<1>4. Grows(Data, P, arg, Q) /\ arg \in Data
  <2>1. Grows(Data, P, arg, Q)
    BY <1>2, <1>3, RunGrows
  <2> QED BY <2>1 DEF Grows
<1>5. s0 \in Seq(Data)
  BY <1>2, <1>3, HeldOf, ListIsSeq DEF FitBefore, HasType
<1>6. is_type(run.key, "list") /\ s \in Lists
  <2>1. HasType(db, run.key, "list")
    BY <1>2, <1>3 DEF RunFits
  <2>2. is_type(run.key, "list")
    BY <1>3, <2>1, IsTypeHasType
  <2> QED BY <1>3, <2>2, ValOf DEF IInv
<1>7. /\ OnKey(op, P, run.before[run.key], db[run.key], n) <=> PushEffect(op, P, s0, s, n)
      /\ OnKey(op, Q, run.before[run.key], c, Len(t)) <=> PushEffect(op, Q, s0, Held(c, <<>>), Len(t))
  BY DEF OnKey, val, OnList
<1>8. t = IF op = "lpush" THEN <<arg>> \o s ELSE Append(s, arg)
  BY DEF htable_update_list
<1>9. t \in Seq(Data) /\ Len(t) \in 1 .. MaxLen
  <2>1. Len(s) = ListLen(db, run.key) /\ Len(s) \in Nat /\ s \in Seq(Data)
    <3>1. Len(s) = ListLen(db, run.key)
      BY EmptySeq DEF val, Held, ListLen
    <3> QED BY <1>6, <3>1, ListIsSeq
  <2>2. ListLen(db, run.key) + Len(run.args) - run.i < MaxLen
        /\ Len(run.args) \in Nat /\ run.i \in 1 .. Len(run.args)
    BY <1>2, <1>3 DEF RunFits, ArgLists
  <2> HIDE DEF s, t
  <2>3. <<arg>> \in Seq(Data) /\ Len(<<arg>>) = 1
    BY <1>4
  <2>4. <<arg>> \o s \in Seq(Data) /\ Len(<<arg>> \o s) = 1 + Len(s)
    BY <2>1, <2>3, ConcatProperties
  <2>5. Append(s, arg) \in Seq(Data) /\ Len(Append(s, arg)) = Len(s) + 1
    BY <1>4, <2>1, AppendProperties
  <2>6. t \in Seq(Data) /\ Len(t) = Len(s) + 1
    BY <1>8, <2>1, <2>4, <2>5
  <2> QED BY <2>1, <2>2, <2>6, InterpreterAssumption
<1> HIDE DEF P, Q, s0, s, n, t
<1>10. c \in Contents /\ c # NULL /\ Len(t) \in Nat
  <2>1. t \in Lists /\ Len(t) \in Nat
    BY <1>9, ListIsSeq, InterpreterAssumption
  <2> QED BY <2>1, ContentsOf, NullAssumption
<1>11. Held(c, <<>>) = t
  BY <1>10 DEF Held
<1>12. Iterate([db EXCEPT ![run.key] = c], Len(t))
  BY <1>1 DEF Updated, t
<1> HIDE DEF c
<1>13. PushEffect(op, P, s0, s, n) => PushEffect(op, Q, s0, t, Len(t))
  BY <1>4, <1>5, <1>8, PushStep
<1>14. known => OnKey(run.op, Q, run.before[run.key], c, Len(t))
  BY <1>2, <1>3, <1>7, <1>11, <1>13
<1> QED BY <1>2, <1>10, <1>12, <1>14, KeyAdvances DEF Q

-----------------------------------------------------------------------------
(* Every command *)

\* An iteration of a loop.
Iterates ==
  \/ htable_del \/ mset_pair \/ htable_hset \/ htable_hdel
  \/ htable_push \/ htable_sadd \/ htable_srem

\* A command in one go, or the beginning of a loop.
OneShot == run = NULL /\ run' = NULL
Begins == run = NULL /\ \E op, k, args : Begin(op, k, args)

\* Every iteration takes its command over one argument more.
LEMMA IterationAdvances ==
  ASSUME IInv, HalfDone, Iterates
  PROVE  Advances /\ run # NULL
<1>1. run # NULL
  BY DEF Iterates, Looping, htable_del, mset_pair, htable_hset, htable_hdel, htable_push,
         htable_sadd, htable_srem
<1> QED BY <1>1, DelAdvances, MSetAdvances, HSetAdvances, HDelAdvances, PushAdvances,
           SAddAdvances, SRemAdvances DEF Iterates

\* Commands that answer or write at once.
LEMMA AtOneGo ==
  ASSUME NEW op, Ready(op), \/ \E ans : Read(op, ans)
                            \/ \E d, ans : Write(op, d, ans)
                            \/ \E why : Crash(why)
  PROVE  OneShot
BY DEF Ready, Read, Write, Crash, OneShot

\* Every step is one of the three kinds.
LEMMA StepKinds ==
  ASSUME Next
  PROVE  Iterates \/ OneShot \/ Begins
<1>1. ASSUME NEW op, Answers(op)  PROVE OneShot
  BY <1>1, AtOneGo DEF Answers
<1>2. CASE OnKeysAndStrings
  <2>1. ASSUME NEW op \in Ops, reply_err_argc(op)  PROVE OneShot
    BY <2>1, AtOneGo DEF reply_err_argc
  <2>2. ASSUME NEW ks \in Some(Keys), exec_del(ks) \/ exec_exists(ks) \/ exec_mget(ks)
        PROVE  OneShot \/ Begins
    <3>1. exec_del(ks) => Begins
      BY DEF exec_del, Ready, Begins
    <3> QED BY <2>2, <3>1, <1>1, ReadStrings
  <2>3. ASSUME NEW pairs \in Some(Keys \X Data), exec_mset(pairs)  PROVE Begins
    BY <2>3 DEF exec_mset, Ready, Begins
  <2>4. ASSUME NEW k \in Keys, NEW v \in Data \cup {EMPTY}, exec_set(k, v)  PROVE OneShot
    BY <2>4, AtOneGo DEF exec_set
  <2>5. CASE exec_set_nothing
    BY <2>5, <1>1, ReadStrings
  <2>6. ASSUME NEW k \in Keys,
               exec_type(k) \/ exec_get(k) \/ exec_incr(k) \/ exec_decr(k) \/ exec_strlen(k)
        PROVE  OneShot
    <3>1. exec_incr(k) \/ exec_decr(k) => OneShot
      <4>1. ASSUME NEW op, NEW n, AddConstant(op, k, n)  PROVE OneShot
        BY <4>1, AtOneGo DEF AddConstant, Typed
      <4> QED BY <4>1 DEF exec_incr, exec_decr
    <3> QED BY <2>6, <3>1, <1>1, ReadStrings
  <2>7. ASSUME NEW k \in Keys, NEW a \in Numbers, exec_incrby(k, a) \/ exec_decrby(k, a)
        PROVE  OneShot
    <3>1. ASSUME NEW op, NEW sign, AddOperand(op, k, a, sign)  PROVE OneShot
      BY <3>1, AtOneGo DEF AddOperand, Typed
    <3> QED BY <2>7, <3>1 DEF exec_incrby, exec_decrby
  <2> QED BY <1>2, <2>1, <2>2, <2>3, <2>4, <2>5, <2>6, <2>7 DEF OnKeysAndStrings, Iterates
<1>3. CASE OnHashes
  <2>1. ASSUME NEW k \in Keys, NEW f \in Data, exec_hget(k, f) \/ exec_hexists(k, f)  PROVE OneShot
    BY <2>1, <1>1, ReadHashes
  <2>2. ASSUME NEW k \in Keys, exec_hgetall(k) \/ exec_hkeys(k) \/ exec_hvals(k) \/ exec_hlen(k)
        PROVE  OneShot
    BY <2>2, <1>1, ReadHashes
  <2>3. ASSUME NEW k \in Keys, NEW fs \in Some(Data), exec_hmget(k, fs) \/ exec_hdel(k, fs)
        PROVE  OneShot \/ Begins
    <3>1. exec_hdel(k, fs) => OneShot \/ Begins
      BY AtOneGo DEF exec_hdel, Typed, Ready, Begins
    <3> QED BY <2>3, <3>1, <1>1, ReadHashes
  <2>4. ASSUME NEW k \in Keys, NEW pairs \in Some(Data \X Data), exec_hset(k, pairs)
        PROVE  OneShot \/ Begins
    BY <2>4, AtOneGo DEF exec_hset, Typed, Ready, Begins
  <2> QED BY <1>3, <2>1, <2>2, <2>3, <2>4 DEF OnHashes, Iterates
<1>4. CASE OnLists
  <2>1. ASSUME NEW k \in Keys, exec_lpop(k) \/ exec_rpop(k) \/ exec_llen(k)  PROVE OneShot
    <3>1. ASSUME NEW op, NEW dir, Pop(op, k, dir)  PROVE OneShot
      BY <3>1, AtOneGo DEF Pop, Typed
    <3> QED BY <2>1, <3>1, <1>1, ReadLists DEF exec_lpop, exec_rpop
  <2>2. ASSUME NEW k \in Keys, NEW a \in Numbers, exec_lindex(k, a)  PROVE OneShot
    BY <2>2, <1>1, ReadLists
  <2>3. ASSUME NEW k \in Keys, NEW a \in Numbers, NEW b \in Numbers, exec_lrange(k, a, b)  PROVE OneShot
    BY <2>3, <1>1, ReadLists
  <2>4. ASSUME NEW k \in Keys, NEW a \in Numbers, NEW v \in Data, exec_lset(k, a, v) \/ exec_lrem(k, a, v)
        PROVE  OneShot
    <3>1. exec_lset(k, a, v) => OneShot
      BY AtOneGo DEF exec_lset, Typed
    <3>2. exec_lrem(k, a, v) => OneShot
      BY AtOneGo DEF exec_lrem, Typed
    <3> QED BY <2>4, <3>1, <3>2
  <2>5. ASSUME NEW k \in Keys, NEW v \in Data, exec_lpos(k, v)  PROVE OneShot
    BY <2>5, <1>1, ReadLists
  <2>6. ASSUME NEW op \in {"lpush", "rpush"}, NEW k \in Keys, NEW vs \in Some(Data), exec_push(op, k, vs)
        PROVE  OneShot \/ Begins
    BY <2>6, AtOneGo DEF exec_push, Typed, Ready, Begins
  <2> QED BY <1>4, <2>1, <2>2, <2>3, <2>4, <2>5, <2>6 DEF OnLists, Iterates
<1>5. CASE OnSets
  <2>1. ASSUME NEW k \in Keys, NEW m \in Data, exec_sismember(k, m)  PROVE OneShot
    BY <2>1, <1>1, ReadSets
  <2>2. ASSUME NEW k \in Keys, exec_smembers(k)  PROVE OneShot
    BY <2>2, <1>1, ReadSets
  <2>3. ASSUME NEW k \in Keys, NEW ms \in Some(Data),
               exec_smismember(k, ms) \/ exec_sadd(k, ms) \/ exec_srem(k, ms)
        PROVE  OneShot \/ Begins
    <3>1. exec_sadd(k, ms) => OneShot \/ Begins
      BY AtOneGo DEF exec_sadd, Typed, Ready, Begins
    <3>2. exec_srem(k, ms) => OneShot \/ Begins
      BY AtOneGo DEF exec_srem, Typed, Ready, Begins
    <3> QED BY <2>3, <3>1, <3>2, <1>1, ReadSets
  <2> QED BY <1>5, <2>1, <2>2, <2>3 DEF OnSets, Iterates
<1> QED BY <1>2, <1>3, <1>4, <1>5 DEF Next

\* Nothing is counted of nothing.
LEMMA NothingCounts == Counts(0, {})
<1>1. Cardinality({}) = 0 /\ {} \ Shaky = {}
  BY FS_EmptySet
<1> QED BY <1>1 DEF Counts

\* Before its first argument a command has done nothing.
LEMMA NothingDone ==
  ASSUME NEW r, RunFits(r, r.before)
  PROVE  FitBefore(r) /\ SoFar(r, 0, r.before, 0)
<1>0. FitBefore(r)
  BY DEF RunFits, FitBefore
<1> DEFINE none == SubSeq(r.args, 1, 0)
           b == r.before
<1>1. none = <<>>
  BY SubSeqEmpty
<1>2. DOMAIN none = {} /\ Len(none) = 0
  BY <1>1
<1>3. Named(none) = {} /\ Firsts(none) = {}
  BY <1>2 DEF Named, Firsts
<1>4. r.op \in {"del", "mset"} \cup OnHash \cup OnList \cup OnSet
      /\ (r.op \in OnHash \cup OnList \cup OnSet => r.key \in Keys)
  BY DEF RunFits, Loops
<1> HIDE DEF none
<1>5. CASE r.op = "del"
  <2>1. Named(none) \cap Present(b) = {}
    BY <1>3
  <2>2. DelEffect(none, b, b, 0)
    BY <1>3, <2>1, NothingCounts DEF DelEffect, SameOrLost
  <2> QED BY <1>0, <1>5, <2>2 DEF SoFar, Effect, none, Adds, OnList
<1>6. CASE r.op = "mset"
  <2>1. MSetEffect(none, b, b)
    BY <1>3 DEF MSetEffect
  <2> QED BY <1>0, <1>6, <2>1 DEF SoFar, Effect, none, Adds, OnList
<1>7. ASSUME r.op \in OnHash \cup OnList \cup OnSet,
             ~(r.key \in Shaky /\ b[r.key] = NULL) => OnKey(r.op, none, b[r.key], b[r.key], 0)
      PROVE  SoFar(r, 0, r.before, 0)
  <2>1. \A j \in Keys \ {r.key} : SameOrLost(j, b, b)
    BY DEF SameOrLost
  <2>2. Effect(r.op, r.key, none, b, b, 0)
    BY <1>7, <2>1, EffectOnKey
  <2> QED BY <2>2 DEF SoFar, none
<1>8. ASSUME NEW h \in Hashes
      PROVE  HSetEffect(none, h, h, 0) /\ HDelEffect(none, h, h, 0)
  <2>1. h.used \in Nat /\ DOMAIN h.fields \cup {} = DOMAIN h.fields /\ DOMAIN h.fields \ {} = DOMAIN h.fields
        /\ DOMAIN h.fields \cap {} = {}
    BY FieldsShape
  <2>2. h.used \in h.used .. h.used + Len(none) /\ h.used = h.used - 0
    BY <1>2, <2>1
  <2>3. HSetEffect(none, h, h, 0)
    BY <1>2, <1>3, <2>1, <2>2 DEF HSetEffect, Remains
  <2>4. HDelEffect(none, h, h, 0)
    BY <1>3, <2>1, <2>2, NothingCounts DEF HDelEffect, Remains
  <2> QED BY <2>3, <2>4
<1>9. ASSUME NEW s \in Sets
      PROVE  SAddEffect(none, s, s, 0) /\ SRemEffect(none, s, s, 0)
  <2>1. s.used \in Nat /\ s.used = s.used + 0 /\ s.used = s.used - 0
        /\ \A m \in Data : s.copies[m] <= s.copies[m]
    BY SetShape
  <2>2. Cardinality({}) = 0 /\ {} \ Shaky = {} /\ {} \ Members(s) = {} /\ {} \cap Members(s) = {}
    BY FS_EmptySet
  <2>3. 0 \in 0 .. Len(none)
    BY <1>2
  <2>4. Remains(Members(s), Members(s) \cup {})
    BY DEF Remains
  <2>5. SAddEffect(none, s, s, 0)
    BY <1>3, <2>1, <2>2, <2>3, <2>4 DEF SAddEffect
  <2>6. SRemEffect(none, s, s, 0)
    BY <1>3, <2>1, <2>2, <2>3 DEF SRemEffect
  <2> QED BY <2>5, <2>6
<1>10. ASSUME r.op \in OnHash \cup OnList \cup OnSet
       PROVE  OnKey(r.op, none, b[r.key], b[r.key], 0)
  <2>1. PICK c \in Contents \cup {NULL} : c = b[r.key]
    BY <1>4, <1>10 DEF RunFits
  <2>2. CASE r.op \in OnHash
    <3>1. Held(c, EmptyHash) \in Hashes
      BY <1>0, <2>1, <2>2, HeldOf DEF FitBefore, HasType
    <3>2. /\ HSetEffect(none, Held(c, EmptyHash), Held(c, EmptyHash), 0)
          /\ HDelEffect(none, Held(c, EmptyHash), Held(c, EmptyHash), 0)
      BY <1>8, <3>1
    <3> QED BY <2>1, <2>2, <3>2 DEF OnKey, OnHash
  <2>3. CASE r.op \in OnSet
    <3>1. Held(c, EmptySet) \in Sets
      BY <1>0, <2>1, <2>3, HeldOf DEF FitBefore, HasType
    <3>2. /\ SAddEffect(none, Held(c, EmptySet), Held(c, EmptySet), 0)
          /\ SRemEffect(none, Held(c, EmptySet), Held(c, EmptySet), 0)
      BY <1>9, <3>1
    <3> QED BY <2>1, <2>3, <3>2 DEF OnKey, OnSet
  <2>4. CASE r.op \in OnList
    <3> DEFINE s == Held(c, <<>>)
    <3>1. s \in Seq(Data)
      BY <1>0, <2>1, <2>4, HeldOf, ListIsSeq DEF FitBefore, HasType
    <3>2. Reverse(<<>>) = <<>>
      BY DEF Reverse
    <3> HIDE DEF s
    <3>3. <<>> \o s = s /\ s \o <<>> = s
      BY <3>1
    <3>4. PushEffect(r.op, <<>>, s, s, 0)
      BY <3>2, <3>3 DEF PushEffect
    <3>5. PushEffect(r.op, none, s, s, 0)
      BY <1>1, <3>4 DEF none
    <3> QED BY <2>1, <2>4, <3>5 DEF OnKey, OnList, s
  <2> QED BY <1>10, <2>2, <2>3, <2>4
<1> QED BY <1>0, <1>4, <1>5, <1>6, <1>7, <1>10

\* What is done depends on the command, not on where its loop is.
LEMMA SameCommand ==
  ASSUME NEW r, NEW q, q.op = r.op, q.key = r.key, q.args = r.args, q.before = r.before,
         NEW n, NEW d, NEW count
  PROVE  /\ FitBefore(q) <=> FitBefore(r)
         /\ SoFar(q, n, d, count) <=> SoFar(r, n, d, count)
BY DEF FitBefore, SoFar

\* What loops have done so far stays as it should.
LEMMA HalfDoneInductive ==
  /\ Init => HalfDone
  /\ IInv /\ HalfDone /\ [Next]_vars => HalfDone'
<1>1. ASSUME Init  PROVE HalfDone
  BY <1>1 DEF Init, HalfDone
<1>2. ASSUME IInv, HalfDone, Next, run' # NULL
      PROVE  FitBefore(run') /\ SoFar(run', run'.i - 1, db', run'.result)
  <2>1. RunFits(run', db')
    BY <1>2, EveryStepFine DEF Fine, RunOK
  <2>2. CASE OneShot
    BY <1>2, <2>2 DEF OneShot
  <2>3. ASSUME NEW op, NEW k, NEW args, Begin(op, k, args)
        PROVE  FitBefore(run') /\ SoFar(run', run'.i - 1, db', run'.result)
    <3>1. db' = db /\ run'.before = db /\ run'.result = 0 /\ run'.i = 1
      BY <2>3 DEF Begin, LoopFrom
    <3>2. RunFits(run', run'.before)
      BY <2>1, <3>1
    <3>3. FitBefore(run') /\ SoFar(run', 0, run'.before, 0)
      BY <3>2, NothingDone
    <3>4. run'.i - 1 = 0
      BY <3>1
    <3> QED BY <3>1, <3>3, <3>4
  <2>4. CASE Iterates
    <3>1. run # NULL /\ Advances
      BY <1>2, <2>4, IterationAdvances
    <3>2. PICK result : /\ result \in Nat /\ \E d : Iterate(d, result)
                        /\ SoFar(run, run.i, db', result)
      BY <3>1 DEF Advances
    <3>3. DOMAIN run = {"op", "key", "args", "i", "result", "before"} /\ run.i \in Nat
      BY <1>2, <3>1 DEF IInv, RunOK, RunFits
    <3>4. run' = [run EXCEPT !.i = @ + 1, !.result = result]
      BY <1>2, <3>2 DEF Iterate
    <3>5. /\ run'.op = run.op /\ run'.key = run.key /\ run'.args = run.args
          /\ run'.before = run.before /\ run'.result = result /\ run'.i = run.i + 1
      BY <3>3, <3>4
    <3>6. FitBefore(run)
      BY <1>2, <3>1, AtHalf
    <3>7. run'.i - 1 = run.i
      BY <3>3, <3>5
    <3>8. FitBefore(run') /\ SoFar(run', run.i, db', result)
      BY <3>2, <3>5, <3>6, SameCommand
    <3> QED BY <3>5, <3>7, <3>8
  <2> QED BY <1>2, <2>2, <2>3, <2>4, StepKinds DEF Begins
<1>3. ASSUME IInv, HalfDone, Next  PROVE HalfDone'
  BY <1>2, <1>3 DEF HalfDone
<1>4. ASSUME HalfDone, UNCHANGED vars  PROVE HalfDone'
  BY <1>4 DEF HalfDone, vars
<1> QED BY <1>1, <1>3, <1>4

\* Half-done commands are half done in every state.
LEMMA HalfDoneInvariance == Spec => [](IInv /\ HalfDone)
BY IInvInductive, HalfDoneInductive, PTL DEF Spec

\* A command with arguments left is not the absence of one.
LEMMA NotUnderway ==
  ASSUME NEW r, NEW d, RunFits(r, d), NEW count \in Nat
  PROVE  NULL # [r EXCEPT !.i = @ + 1, !.result = count]
<1> DEFINE q == [r EXCEPT !.i = @ + 1, !.result = count]
<1>1. /\ DOMAIN r = {"op", "key", "args", "i", "result", "before"}
      /\ r.op \in Ops /\ r.before \in [Keys -> Contents \cup {NULL}]
      /\ r.op \in Loops
  BY DEF RunFits
<1>2. r.i \in Nat
  BY DEF RunFits, ArgLists
<1>4. r.key \in Keys \cup {NULL}
  BY <1>1 DEF RunFits, Loops
<1>5. r.args \in Seq(Keys \cup Data) \cup Seq((Keys \cup Data) \X Data)
  <2>1. /\ Seq(Keys) \subseteq Seq(Keys \cup Data) /\ Seq(Data) \subseteq Seq(Keys \cup Data)
        /\ Seq(Keys \X Data) \subseteq Seq((Keys \cup Data) \X Data)
        /\ Seq(Data \X Data) \subseteq Seq((Keys \cup Data) \X Data)
    OBVIOUS
  <2> QED BY <2>1 DEF RunFits, ArgLists
<1>6. /\ q = [f \in DOMAIN r |-> q[f]] /\ q.op = r.op /\ q.key = r.key /\ q.args = r.args
      /\ q.before = r.before /\ q.i = r.i + 1 /\ q.result = count
  BY <1>1
<1> HIDE DEF q
<1>7. q = [op |-> q.op, key |-> q.key, i |-> q.i, result |-> q.result, args |-> q.args,
           before |-> q.before]
  BY <1>1, <1>6
<1>8. q \in Underway
  BY <1>1, <1>2, <1>4, <1>5, <1>6, <1>7 DEF Underway
<1> QED BY <1>8, NullAssumption DEF q

\* The last iteration of a command leaves the effect of all its arguments.
LEMMA LastIteration ==
  ASSUME IInv, HalfDone, Iterates, run' = NULL
  PROVE  LET n == reply'.ans[2]
         IN  /\ Effect(run.op, run.key, run.args, run.before, db', n)
             /\ reply'.ans = IF run.op = "mset" THEN Ok ELSE Integer(n)
<1>1. run # NULL /\ Advances /\ RunFits(run, db)
  BY IterationAdvances DEF IInv, RunOK
<1>2. PICK result : /\ result \in Nat /\ \E d : Iterate(d, result)
                    /\ SoFar(run, run.i, db', result)
  BY <1>1 DEF Advances
<1>3. run.i = Len(run.args) /\ reply'.ans = IF run.op = "mset" THEN Ok ELSE Integer(result)
  <2>1. NULL # [run EXCEPT !.i = @ + 1, !.result = result]
    BY <1>1, <1>2, NotUnderway
  <2> QED BY <1>2, <2>1 DEF Iterate, Reply
<1>4. SubSeq(run.args, 1, run.i) = run.args
  <2>1. \E S : run.args \in Seq(S)
    BY <1>1 DEF RunFits, ArgLists
  <2> QED BY <1>3, <2>1, SubSeqFull
<1>5. Effect(run.op, run.key, run.args, run.before, db', result)
  BY <1>2, <1>4 DEF SoFar
<1>6. CASE run.op = "mset"
  <2>1. \A n : Effect(run.op, run.key, run.args, run.before, db', n)
    BY <1>5, <1>6 DEF Effect
  <2> QED BY <1>3, <1>6, <2>1
<1>7. CASE run.op # "mset"
  <2>1. Integer(result)[2] = result
    BY DEF Integer
  <2>2. reply'.ans = Integer(result) /\ reply'.ans[2] = result
    BY <1>3, <1>7, <2>1
  <2> QED BY <1>5, <1>7, <2>2
<1> QED BY <1>6, <1>7

\* The effect and the count of a command that loops, from one argument to the
\* next, are those of its arguments taken together, whatever its key loses on
\* the way: no argument is skipped, done twice or counted for another, and a
\* container that is emptied and goes does not upset the arguments after it.
THEOREM BatchesAreWhole == Spec => BatchEffect
<1> DEFINE Whole == run # NULL /\ run' = NULL =>
                      LET n == reply'.ans[2]
                      IN  /\ Effect(run.op, run.key, run.args, run.before, db', n)
                          /\ reply'.ans = IF run.op = "mset" THEN Ok ELSE Integer(n)
<1>1. ASSUME IInv, HalfDone, [Next]_vars  PROVE [Whole]_vars
  <2>1. CASE Next
    <3>1. Iterates \/ run = NULL
      BY <2>1, StepKinds DEF OneShot, Begins
    <3> QED BY <1>1, <3>1, LastIteration
  <2> QED BY <1>1, <2>1
<1> QED BY HalfDoneInvariance, <1>1, PTL DEF Spec, BatchEffect
=============================================================================
