------------------------- MODULE LinkedList_proofs --------------------------
(***************************************************************************)
(* The pointers of src/list.c, for every heap, every set of strings and    *)
(* every count a client gives: "next" and "prev" of the nodes in a list    *)
(* run through the same nodes in opposite orders, whatever is pushed,      *)
(* popped and removed, also between two iterations of list_rem.            *)
(***************************************************************************)
EXTENDS LinkedList, ListOps_proofs

-----------------------------------------------------------------------------
(* Chains *)

\* The nodes p[1], ..., p[n] are a list with the ends hd and tl.
Linked(p, n, hd, tl, nx, pv) ==
  /\ p \in [1 .. n -> Nodes]
  /\ \A i, j \in 1 .. n : p[i] = p[j] => i = j
  /\ hd = IF n = 0 THEN NULL ELSE p[1]
  /\ tl = IF n = 0 THEN NULL ELSE p[n]
  /\ \A i \in 1 .. n : nx[p[i]] = IF i = n THEN NULL ELSE p[i + 1]
  /\ \A i \in 1 .. n : pv[p[i]] = IF i = 1 THEN NULL ELSE p[i - 1]

NodesOf(p, n) == {p[i] : i \in 1 .. n}

\* A node x more at either end, and one less at k.
First(p, n, x) == [i \in 1 .. n + 1 |-> IF i = 1 THEN x ELSE p[i - 1]]
Final(p, n, x) == [i \in 1 .. n + 1 |-> IF i = n + 1 THEN x ELSE p[i]]
Drop(p, n, k) == [i \in 1 .. n - 1 |-> IF i < k THEN p[i] ELSE p[i + 1]]

\* A new first node.
LEMMA LinkFirst ==
  ASSUME NEW p, NEW n \in Nat, NEW hd, NEW tl, NEW nx, NEW pv,
         Linked(p, n, hd, tl, nx, pv), NEW x \in Nodes \ NodesOf(p, n),
         NEW nx2, nx2[x] = hd, \A y \in Nodes \ {x} : nx2[y] = nx[y],
         NEW pv2, pv2[x] = NULL, n # 0 => pv2[hd] = x,
         \A y \in Nodes \ {x, hd} : pv2[y] = pv[y]
  PROVE  /\ Linked(First(p, n, x), n + 1, x, IF n = 0 THEN x ELSE tl, nx2, pv2)
         /\ NodesOf(First(p, n, x), n + 1) = NodesOf(p, n) \cup {x}
<1> DEFINE q == First(p, n, x)
<1>1. /\ p \in [1 .. n -> Nodes] /\ \A i, j \in 1 .. n : p[i] = p[j] => i = j
      /\ n # 0 => hd = p[1] /\ tl = p[n]
      /\ n = 0 => hd = NULL
      /\ \A i \in 1 .. n : nx[p[i]] = IF i = n THEN NULL ELSE p[i + 1]
      /\ \A i \in 1 .. n : pv[p[i]] = IF i = 1 THEN NULL ELSE p[i - 1]
  BY DEF Linked
<1>2. \A i \in 1 .. n : p[i] # x
  BY DEF NodesOf
<1>3. q \in [1 .. n + 1 -> Nodes] /\ q[1] = x /\ \A i \in 1 .. n : q[i + 1] = p[i]
  BY <1>1 DEF First
<1>4. \A i \in 1 .. n + 1 : i = 1 \/ \E j \in 1 .. n : i = j + 1
  <2> TAKE i \in 1 .. n + 1
  <2>1. i = 1 \/ i - 1 \in 1 .. n
    OBVIOUS
  <2> QED BY <2>1
<1> HIDE DEF q
<1>5. ASSUME NEW i \in 1 .. n + 1, NEW j \in 1 .. n + 1, q[i] = q[j]  PROVE i = j
  <2>1. \A a \in 1 .. n : q[a + 1] # q[1]
    <3> TAKE a \in 1 .. n
    <3>1. q[a + 1] = p[a] /\ q[1] = x
      BY <1>3, Zenon
    <3>2. p[a] # x
      BY <1>2, Zenon
    <3> QED BY <3>1, <3>2, Zenon
  <2>2. CASE i = 1
    BY <1>4, <1>5, <2>1, <2>2
  <2>4. CASE j = 1
    BY <1>4, <1>5, <2>1, <2>4
  <2>3. CASE i # 1 /\ j # 1
    <3>1. PICK a \in 1 .. n : i = a + 1
      BY <1>4, <2>3
    <3>2. PICK b \in 1 .. n : j = b + 1
      BY <1>4, <2>3
    <3>3. q[i] = p[a] /\ q[j] = p[b]
      BY <1>3, <3>1, <3>2
    <3>4. p[a] = p[b]
      BY <1>5, <3>3
    <3>5. a = b
      BY <1>1, <3>4
    <3> QED BY <3>1, <3>2, <3>5
  <2> QED BY <2>2, <2>3, <2>4
<1>6. q[n + 1] = IF n = 0 THEN x ELSE tl
  BY <1>1, <1>3
<1>7. ASSUME NEW i \in 1 .. n + 1
      PROVE  nx2[q[i]] = IF i = n + 1 THEN NULL ELSE q[i + 1]
  <2>1. CASE i = 1
    <3>1. nx2[q[1]] = hd
      BY <1>3
    <3> QED BY <1>1, <1>3, <2>1, <3>1
  <2>2. ASSUME NEW j \in 1 .. n, i = j + 1
        PROVE  nx2[q[i]] = IF i = n + 1 THEN NULL ELSE q[i + 1]
    <3>1. q[i] = p[j] /\ p[j] \in Nodes /\ p[j] # x
      BY <1>1, <1>2, <1>3, <2>2
    <3>2. nx2[p[j]] = IF j = n THEN NULL ELSE p[j + 1]
      BY <1>1, <3>1
    <3>3. j # n => q[i + 1] = p[j + 1]
      BY <1>3, <2>2
    <3> QED BY <2>2, <3>1, <3>2, <3>3
  <2> QED BY <1>4, <2>1, <2>2
<1>8. ASSUME NEW i \in 1 .. n + 1
      PROVE  pv2[q[i]] = IF i = 1 THEN NULL ELSE q[i - 1]
  <2>1. CASE i = 1
    BY <1>3, <2>1
  <2>2. ASSUME NEW j \in 1 .. n, i = j + 1
        PROVE  pv2[q[i]] = IF i = 1 THEN NULL ELSE q[i - 1]
    <3>1. q[i] = p[j] /\ p[j] \in Nodes /\ p[j] # x /\ i # 1 /\ i - 1 = j
      BY <1>1, <1>2, <1>3, <2>2
    <3>2. CASE j = 1
      BY <1>1, <1>3, <3>1, <3>2
    <3>3. CASE j # 1
      <4>1. p[j] # hd
        BY <1>1, <3>3
      <4>2. pv2[p[j]] = p[j - 1]
        BY <1>1, <3>1, <3>3, <4>1
      <4>3. PICK l \in 1 .. n : j = l + 1
        BY <1>4, <3>3
      <4>4. q[j] = p[l] /\ j - 1 = l
        BY <1>3, <4>3
      <4>5. q[i - 1] = p[j - 1]
        BY <3>1, <4>4
      <4> QED BY <3>1, <4>2, <4>5
    <3> QED BY <3>2, <3>3
  <2> QED BY <1>4, <2>1, <2>2
<1>9. NodesOf(q, n + 1) = NodesOf(p, n) \cup {x}
  <2>1. ASSUME NEW y \in NodesOf(q, n + 1)  PROVE y \in NodesOf(p, n) \cup {x}
    <3>1. PICK i \in 1 .. n + 1 : y = q[i]
      BY <2>1 DEF NodesOf
    <3>2. CASE i = 1
      BY <1>3, <3>1, <3>2
    <3>3. ASSUME NEW j \in 1 .. n, i = j + 1  PROVE y \in NodesOf(p, n)
      BY <1>3, <3>1, <3>3 DEF NodesOf
    <3> QED BY <1>4, <3>2, <3>3
  <2>2. ASSUME NEW y \in NodesOf(p, n)  PROVE y \in NodesOf(q, n + 1)
    <3>1. PICK i \in 1 .. n : y = p[i]
      BY <2>2 DEF NodesOf
    <3>2. y = q[i + 1] /\ i + 1 \in 1 .. n + 1
      BY <1>3, <3>1
    <3> QED BY <3>2 DEF NodesOf
  <2>3. x \in NodesOf(q, n + 1)
    <3>1. 1 \in 1 .. n + 1 /\ q[1] = x
      BY <1>3
    <3> QED BY <3>1 DEF NodesOf
  <2> QED BY <2>1, <2>2, <2>3
<1>10. Linked(q, n + 1, x, IF n = 0 THEN x ELSE tl, nx2, pv2)
  BY <1>3, <1>5, <1>6, <1>7, <1>8 DEF Linked
<1> QED BY <1>9, <1>10 DEF q

\* A new last node.
LEMMA LinkFinal ==
  ASSUME NEW p, NEW n \in Nat, NEW hd, NEW tl, NEW nx, NEW pv,
         Linked(p, n, hd, tl, nx, pv), NEW x \in Nodes \ NodesOf(p, n),
         NEW pv2, pv2[x] = tl, \A y \in Nodes \ {x} : pv2[y] = pv[y],
         NEW nx2, nx2[x] = NULL, n # 0 => nx2[tl] = x,
         \A y \in Nodes \ {x, tl} : nx2[y] = nx[y]
  PROVE  /\ Linked(Final(p, n, x), n + 1, IF n = 0 THEN x ELSE hd, x, nx2, pv2)
         /\ NodesOf(Final(p, n, x), n + 1) = NodesOf(p, n) \cup {x}
<1> DEFINE q == Final(p, n, x)
<1>1. /\ p \in [1 .. n -> Nodes] /\ \A i, j \in 1 .. n : p[i] = p[j] => i = j
      /\ n # 0 => hd = p[1] /\ tl = p[n]
      /\ n = 0 => tl = NULL
      /\ \A i \in 1 .. n : nx[p[i]] = IF i = n THEN NULL ELSE p[i + 1]
      /\ \A i \in 1 .. n : pv[p[i]] = IF i = 1 THEN NULL ELSE p[i - 1]
  BY DEF Linked
<1>2. \A i \in 1 .. n : p[i] # x
  BY DEF NodesOf
<1>3. q \in [1 .. n + 1 -> Nodes] /\ q[n + 1] = x /\ \A i \in 1 .. n : q[i] = p[i]
  BY <1>1 DEF Final
<1>4. \A i \in 1 .. n + 1 : i = n + 1 \/ i \in 1 .. n
  OBVIOUS
<1> HIDE DEF q
<1>5. \A i, j \in 1 .. n + 1 : q[i] = q[j] => i = j
  BY <1>1, <1>2, <1>3, <1>4
<1>6. q[1] = IF n = 0 THEN x ELSE hd
  BY <1>1, <1>3
<1>7. ASSUME NEW i \in 1 .. n + 1
      PROVE  pv2[q[i]] = IF i = 1 THEN NULL ELSE q[i - 1]
  <2>1. CASE i = n + 1
    <3>1. pv2[x] = tl
      OBVIOUS
    <3>2. n # 0 => n \in 1 .. n /\ i - 1 = n
      BY <2>1
    <3> QED BY <1>1, <1>3, <2>1, <3>1, <3>2
  <2>2. CASE i \in 1 .. n
    <3>1. q[i] = p[i] /\ p[i] \in Nodes /\ p[i] # x
      BY <1>1, <1>2, <1>3, <2>2
    <3>2. pv2[p[i]] = IF i = 1 THEN NULL ELSE p[i - 1]
      BY <1>1, <2>2, <3>1
    <3>3. i # 1 => q[i - 1] = p[i - 1]
      BY <1>3, <2>2
    <3> QED BY <3>1, <3>2, <3>3
  <2> QED BY <1>4, <2>1, <2>2
<1>8. ASSUME NEW i \in 1 .. n + 1
      PROVE  nx2[q[i]] = IF i = n + 1 THEN NULL ELSE q[i + 1]
  <2>1. CASE i = n + 1
    BY <1>3, <2>1
  <2>2. CASE i \in 1 .. n
    <3>1. q[i] = p[i] /\ p[i] \in Nodes /\ p[i] # x /\ i # n + 1
      BY <1>1, <1>2, <1>3, <2>2
    <3>2. CASE i = n
      BY <1>1, <1>3, <3>1, <3>2
    <3>3. CASE i # n
      <4>1. p[i] # tl /\ i + 1 \in 1 .. n
        BY <1>1, <2>2, <3>3
      <4> QED BY <1>1, <1>3, <2>2, <3>1, <3>3, <4>1
    <3> QED BY <3>2, <3>3
  <2> QED BY <1>4, <2>1, <2>2
<1>9. NodesOf(q, n + 1) = NodesOf(p, n) \cup {x}
  <2>1. \A i \in 1 .. n : i \in 1 .. n + 1
    OBVIOUS
  <2>2. n + 1 \in 1 .. n + 1
    OBVIOUS
  <2> QED BY <1>3, <1>4, <2>1, <2>2 DEF NodesOf
<1>10. Linked(q, n + 1, IF n = 0 THEN x ELSE hd, x, nx2, pv2)
  BY <1>3, <1>5, <1>6, <1>7, <1>8 DEF Linked
<1> QED BY <1>9, <1>10 DEF q

\* What is to be true of the pointers after p[k] has left.
Bypassed(p, n, k, hd, tl, nx, pv) ==
  /\ hd = IF n = 1 THEN NULL ELSE IF k = 1 THEN p[2] ELSE p[1]
  /\ tl = IF n = 1 THEN NULL ELSE IF k = n THEN p[n - 1] ELSE p[n]
  /\ \A i \in 1 .. n : i # k => nx[p[i]] = IF i = n THEN NULL
                                           ELSE IF i + 1 # k THEN p[i + 1]
                                           ELSE IF k = n THEN NULL ELSE p[k + 1]
  /\ \A i \in 1 .. n : i # k => pv[p[i]] = IF i = 1 THEN NULL
                                           ELSE IF i - 1 # k THEN p[i - 1]
                                           ELSE IF k = 1 THEN NULL ELSE p[k - 1]

\* A node less.
LEMMA Unlink ==
  ASSUME NEW p, NEW n \in Nat, NEW hd, NEW tl, NEW nx, NEW pv, Linked(p, n, hd, tl, nx, pv),
         NEW k \in 1 .. n, NEW hd2, NEW tl2, NEW nx2, NEW pv2,
         Bypassed(p, n, k, hd2, tl2, nx2, pv2)
  PROVE  /\ Linked(Drop(p, n, k), n - 1, hd2, tl2, nx2, pv2)
         /\ NodesOf(Drop(p, n, k), n - 1) = NodesOf(p, n) \ {p[k]}
<1> DEFINE q == Drop(p, n, k)
           m == n - 1
           o(i) == IF i < k THEN i ELSE i + 1
<1>1. p \in [1 .. n -> Nodes] /\ \A i, j \in 1 .. n : p[i] = p[j] => i = j
  BY DEF Linked
<1>2. m \in Nat /\ n = m + 1
  OBVIOUS
<1>3. \A i \in 1 .. m : o(i) \in 1 .. n /\ o(i) # k
  OBVIOUS
<1>4. q \in [1 .. m -> Nodes] /\ \A i \in 1 .. m : q[i] = p[o(i)]
  BY <1>1, <1>3 DEF Drop
<1>5. \A i \in 1 .. n : i # k => \E j \in 1 .. m : i = o(j)
  <2> SUFFICES ASSUME NEW i \in 1 .. n, i # k  PROVE \E j \in 1 .. m : i = o(j)
    OBVIOUS
  <2>1. i < k => i \in 1 .. m /\ i = o(i)
    OBVIOUS
  <2>2. ~(i < k) => i - 1 \in 1 .. m /\ i = o(i - 1)
    OBVIOUS
  <2> QED BY <2>1, <2>2
<1> HIDE DEF q
<1>6. \A i, j \in 1 .. m : q[i] = q[j] => i = j
  <2> SUFFICES ASSUME NEW i \in 1 .. m, NEW j \in 1 .. m, q[i] = q[j]  PROVE i = j
    OBVIOUS
  <2>1. o(i) = o(j)
    BY <1>1, <1>3, <1>4
  <2> QED BY <2>1
<1>7. hd2 = IF m = 0 THEN NULL ELSE q[1]
  <2>1. m # 0 => q[1] = p[o(1)]
    BY <1>2, <1>4
  <2> QED BY <1>2, <2>1 DEF Bypassed
<1>8. tl2 = IF m = 0 THEN NULL ELSE q[m]
  <2>1. m # 0 => q[m] = p[o(m)]
    BY <1>2, <1>4
  <2> QED BY <1>2, <2>1 DEF Bypassed
<1>9. ASSUME NEW i \in 1 .. m
      PROVE  nx2[q[i]] = IF i = m THEN NULL ELSE q[i + 1]
  <2>1. nx2[p[o(i)]] = IF o(i) = n THEN NULL
                       ELSE IF o(i) + 1 # k THEN p[o(i) + 1]
                       ELSE IF k = n THEN NULL ELSE p[k + 1]
    BY <1>3 DEF Bypassed
  <2>2. i # m => q[i + 1] = p[o(i + 1)]
    BY <1>2, <1>4
  <2> QED BY <1>2, <1>4, <2>1, <2>2
<1>10. ASSUME NEW i \in 1 .. m
       PROVE  pv2[q[i]] = IF i = 1 THEN NULL ELSE q[i - 1]
  <2>1. pv2[p[o(i)]] = IF o(i) = 1 THEN NULL
                       ELSE IF o(i) - 1 # k THEN p[o(i) - 1]
                       ELSE IF k = 1 THEN NULL ELSE p[k - 1]
    BY <1>3 DEF Bypassed
  <2>2. i # 1 => i - 1 \in 1 .. m
    BY <1>2
  <2>3. i # 1 => q[i - 1] = p[o(i - 1)]
    BY <1>4, <2>2
  <2>4. CASE i < k
    BY <1>2, <1>4, <2>1, <2>3, <2>4
  <2>5. CASE ~(i < k)
    BY <1>2, <1>4, <2>1, <2>3, <2>5
  <2> QED BY <2>4, <2>5
<1>11. NodesOf(q, m) = NodesOf(p, n) \ {p[k]}
  <2>1. \A x : x \in NodesOf(q, m) => x \in NodesOf(p, n) /\ x # p[k]
    <3> TAKE x
    <3> HAVE x \in NodesOf(q, m)
    <3>1. PICK i \in 1 .. m : x = q[i]
      BY DEF NodesOf
    <3>2. x = p[o(i)] /\ o(i) \in 1 .. n /\ o(i) # k
      BY <1>3, <1>4, <3>1
    <3> HIDE DEF o
    <3> QED BY <1>1, <3>2 DEF NodesOf
  <2>2. \A x : x \in NodesOf(p, n) /\ x # p[k] => x \in NodesOf(q, m)
    <3> TAKE x
    <3> HAVE x \in NodesOf(p, n) /\ x # p[k]
    <3>1. PICK i \in 1 .. n : x = p[i] /\ i # k
      BY DEF NodesOf
    <3>2. PICK j \in 1 .. m : i = o(j)
      BY <1>5, <3>1
    <3>3. x = q[j]
      BY <1>4, <3>1, <3>2
    <3> QED BY <3>3 DEF NodesOf
  <2> QED BY <2>1, <2>2
<1>12. Linked(q, m, hd2, tl2, nx2, pv2)
  BY <1>4, <1>6, <1>7, <1>8, <1>9, <1>10 DEF Linked
<1> QED BY <1>11, <1>12 DEF q

-----------------------------------------------------------------------------
(* The list *)

\* p[1], ..., p[len] are the nodes of the list, and the only ones allocated.
Chain(p) == Linked(p, len, head, tail, next, prev) /\ allocated = NodesOf(p, len)

Types ==
  /\ len \in Nat /\ head \in Ptr /\ tail \in Ptr
  /\ value \in [Nodes -> Values \cup {NULL}]
  /\ next \in [Nodes -> Ptr] /\ prev \in [Nodes -> Ptr]
  /\ allocated \subseteq Nodes
  /\ rem \in Removal \cup {NULL}

\* The nodes of the list hold strings.
Held == \A n \in allocated : value[n] \in Values

\* The inductive invariant.
IInv == Types /\ (\E p : Chain(p)) /\ Held /\ NoUseAfterFree

\* node_del takes a node out, wherever it is, and leaves its own pointers.
LEMMA NodeDelBypasses ==
  ASSUME Types, NEW p, Chain(p), NEW k \in 1 .. len, NEW left, left = node_del(p[k])
  PROVE  /\ left.next \in [Nodes -> Ptr] /\ left.prev \in [Nodes -> Ptr]
         /\ left.head \in Ptr /\ left.tail \in Ptr
         /\ left.next[p[k]] = next[p[k]] /\ left.prev[p[k]] = prev[p[k]]
         /\ Bypassed(p, len, k, left.head, left.tail, left.next, left.prev)
<1>1. /\ len \in Nat /\ next \in [Nodes -> Ptr] /\ prev \in [Nodes -> Ptr]
      /\ NULL \notin Nodes /\ len # 0
  BY ListAssumption DEF Types
<1>2. /\ p \in [1 .. len -> Nodes] /\ \A i, j \in 1 .. len : p[i] = p[j] => i = j
      /\ head = p[1] /\ tail = p[len]
      /\ \A i \in 1 .. len : next[p[i]] = IF i = len THEN NULL ELSE p[i + 1]
      /\ \A i \in 1 .. len : prev[p[i]] = IF i = 1 THEN NULL ELSE p[i - 1]
  BY <1>1 DEF Chain, Linked
<1>3. CASE len = 1
  <2>1. left = [head |-> NULL, tail |-> NULL, next |-> next, prev |-> prev]
    BY <1>3 DEF node_del
  <2>2. Bypassed(p, len, k, NULL, NULL, next, prev)
    BY <1>3 DEF Bypassed
  <2> QED BY <1>1, <2>1, <2>2 DEF Ptr
<1>4. CASE len # 1 /\ k = 1
  <2> DEFINE pv == [prev EXCEPT ![next[p[k]]] = NULL]
  <2>1. p[k] = head /\ next[p[k]] = p[2] /\ p[2] \in Nodes /\ p[2] # p[k]
    BY <1>1, <1>2, <1>4
  <2>2. left = [head |-> next[p[k]], tail |-> tail, next |-> next, prev |-> pv]
    BY <1>4, <2>1 DEF node_del
  <2>3. pv \in [Nodes -> Ptr] /\ pv[p[k]] = prev[p[k]]
    BY <1>1, <1>2, <2>1 DEF Ptr
  <2>4. \A i \in 1 .. len : i # k => pv[p[i]] = IF i = 2 THEN NULL ELSE prev[p[i]]
    BY <1>1, <1>2, <1>4, <2>1
  <2> HIDE DEF pv
  <2>5. Bypassed(p, len, k, p[2], p[len], next, pv)
    BY <1>1, <1>2, <1>4, <2>4 DEF Bypassed
  <2> QED BY <1>1, <1>2, <2>1, <2>2, <2>3, <2>5 DEF Ptr
<1>5. CASE len # 1 /\ k # 1 /\ k = len
  <2> DEFINE nx == [next EXCEPT ![prev[p[k]]] = NULL]
  <2>1. /\ p[k] # head /\ p[k] = tail /\ len - 1 \in 1 .. len
        /\ prev[p[k]] = p[len - 1] /\ p[len - 1] \in Nodes /\ p[len - 1] # p[k]
    BY <1>1, <1>2, <1>5
  <2>2. left = [head |-> head, tail |-> prev[p[k]], next |-> nx, prev |-> prev]
    BY <1>5, <2>1 DEF node_del
  <2>3. nx \in [Nodes -> Ptr] /\ nx[p[k]] = next[p[k]]
    BY <1>1, <1>2, <2>1 DEF Ptr
  <2>4. \A i \in 1 .. len : i # k => nx[p[i]] = IF i = len - 1 THEN NULL ELSE next[p[i]]
    BY <1>1, <1>2, <2>1
  <2> HIDE DEF nx
  <2>5. Bypassed(p, len, k, p[1], p[len - 1], nx, prev)
    BY <1>1, <1>2, <1>5, <2>4 DEF Bypassed
  <2> QED BY <1>1, <1>2, <2>1, <2>2, <2>3, <2>5 DEF Ptr
<1>6. CASE len # 1 /\ k # 1 /\ k # len
  <2> DEFINE nx == [next EXCEPT ![prev[p[k]]] = next[p[k]]]
             pv == [prev EXCEPT ![next[p[k]]] = prev[p[k]]]
  <2>1. /\ p[k] # head /\ p[k] # tail /\ k - 1 \in 1 .. len /\ k + 1 \in 1 .. len
        /\ prev[p[k]] = p[k - 1] /\ next[p[k]] = p[k + 1]
        /\ p[k - 1] \in Nodes /\ p[k + 1] \in Nodes /\ p[k - 1] # p[k] /\ p[k + 1] # p[k]
    BY <1>1, <1>2, <1>6
  <2>2. left = [head |-> head, tail |-> tail, next |-> nx, prev |-> pv]
    BY <1>6, <2>1 DEF node_del, Bypass
  <2>3. nx \in [Nodes -> Ptr] /\ nx[p[k]] = next[p[k]] /\ pv \in [Nodes -> Ptr] /\ pv[p[k]] = prev[p[k]]
    BY <1>1, <1>2, <2>1 DEF Ptr
  <2>4. \A i \in 1 .. len : i # k => nx[p[i]] = IF i = k - 1 THEN p[k + 1] ELSE next[p[i]]
    BY <1>1, <1>2, <2>1
  <2>5. \A i \in 1 .. len : i # k => pv[p[i]] = IF i = k + 1 THEN p[k - 1] ELSE prev[p[i]]
    BY <1>1, <1>2, <2>1
  <2> HIDE DEF nx, pv
  <2>6. Bypassed(p, len, k, p[1], p[len], nx, pv)
    BY <1>1, <1>2, <1>6, <2>4, <2>5 DEF Bypassed
  <2> QED BY <1>1, <1>2, <2>1, <2>2, <2>3, <2>6 DEF Ptr
<1> QED BY <1>3, <1>4, <1>5, <1>6

\* A node that left and was blanked is no longer in the list, and nothing else
\* is different.
LEMMA ReleaseUnlinks ==
  ASSUME Types, Held, NEW p, Chain(p), NEW k \in 1 .. len, NEW left, left = node_del(p[k]),
         head' = left.head, tail' = left.tail, Release(p[k], left.next, left.prev)
  PROVE  /\ \E q : q = Drop(p, len, k) /\ Chain(q)'
         /\ Held' /\ allocated' = allocated \ {p[k]}
         /\ len' \in Nat /\ head' \in Ptr /\ tail' \in Ptr
         /\ value' \in [Nodes -> Values \cup {NULL}]
         /\ next' \in [Nodes -> Ptr] /\ prev' \in [Nodes -> Ptr]
<1> DEFINE x == p[k]
<1>1. /\ left.next \in [Nodes -> Ptr] /\ left.prev \in [Nodes -> Ptr]
      /\ left.head \in Ptr /\ left.tail \in Ptr
      /\ Bypassed(p, len, k, left.head, left.tail, left.next, left.prev)
  BY NodeDelBypasses
<1>2. /\ next' = [left.next EXCEPT ![x] = NULL] /\ prev' = [left.prev EXCEPT ![x] = NULL]
      /\ value' = [value EXCEPT ![x] = NULL]
      /\ allocated' = allocated \ {x} /\ len' = len - 1
  BY DEF Release
<1>3. /\ p \in [1 .. len -> Nodes] /\ \A i, j \in 1 .. len : p[i] = p[j] => i = j
      /\ len \in Nat /\ value \in [Nodes -> Values \cup {NULL}]
  BY DEF Chain, Linked, Types
<1>4. \A i \in 1 .. len : i # k => next'[p[i]] = left.next[p[i]] /\ prev'[p[i]] = left.prev[p[i]]
  BY <1>1, <1>2, <1>3
<1>5. Bypassed(p, len, k, head', tail', next', prev')
  BY <1>1, <1>4 DEF Bypassed
<1>6. /\ Linked(Drop(p, len, k), len - 1, head', tail', next', prev')
      /\ NodesOf(Drop(p, len, k), len - 1) = NodesOf(p, len) \ {p[k]}
  <2>1. Linked(p, len, head, tail, next, prev)
    BY DEF Chain
  <2> QED BY <1>3, <1>5, <2>1, Unlink
<1>7. \E q : q = Drop(p, len, k) /\ Chain(q)'
  <2>1. PICK q : q = Drop(p, len, k)
    OBVIOUS
  <2>2. Chain(q)'
    BY <1>2, <1>6, <2>1 DEF Chain
  <2> QED BY <2>1, <2>2
<1>8. Held'
  BY <1>2, <1>3 DEF Held, Types
<1> QED BY <1>1, <1>2, <1>3, <1>7, <1>8 DEF Ptr

\* Where a chain has nodes, and where it has none.
LEMMA ChainFacts ==
  ASSUME Types, NEW p, Chain(p)
  PROVE  /\ len \in Nat /\ NULL \notin Nodes
         /\ p \in [1 .. len -> Nodes] /\ allocated = NodesOf(p, len)
         /\ \A i, j \in 1 .. len : p[i] = p[j] => i = j
         /\ len = 0 => head = NULL /\ tail = NULL
         /\ len # 0 => head = p[1] /\ tail = p[len] /\ head \in allocated /\ tail \in allocated
         /\ \A i \in 1 .. len : p[i] \in allocated
         /\ \A i \in 1 .. len : next[p[i]] = IF i = len THEN NULL ELSE p[i + 1]
         /\ \A i \in 1 .. len : prev[p[i]] = IF i = 1 THEN NULL ELSE p[i - 1]
<1>1. /\ len \in Nat /\ NULL \notin Nodes
      /\ p \in [1 .. len -> Nodes] /\ allocated = NodesOf(p, len)
      /\ \A i, j \in 1 .. len : p[i] = p[j] => i = j
      /\ len = 0 => head = NULL /\ tail = NULL
      /\ len # 0 => head = p[1] /\ tail = p[len]
      /\ \A i \in 1 .. len : next[p[i]] = IF i = len THEN NULL ELSE p[i + 1]
      /\ \A i \in 1 .. len : prev[p[i]] = IF i = 1 THEN NULL ELSE p[i - 1]
  BY ListAssumption DEF Types, Chain, Linked
<1>2. \A i \in 1 .. len : p[i] \in allocated
  BY <1>1 DEF NodesOf
<1>3. len # 0 => p[1] \in allocated /\ p[len] \in allocated
  BY <1>1, <1>2
<1> QED BY <1>1, <1>2, <1>3

\* lpush.
LEMMA LPushKeeps ==
  ASSUME IInv, NEW p, Chain(p), NEW v \in Values, list_lpush(v)
  PROVE  /\ IInv'
         /\ \E n \in Nodes \ allocated :
              /\ value' = [value EXCEPT ![n] = v] /\ len' = len + 1
              /\ \E q : q = First(p, len, n) /\ Chain(q)'
<1>1. Chain(p)
  OBVIOUS
<1>2. PICK n \in Nodes :
        /\ node_init(n, v)
        /\ next' = [next EXCEPT ![n] = IF len > 0 THEN head ELSE NULL]
        /\ IF len > 0
           THEN prev' = [prev EXCEPT ![n] = NULL, ![head] = n] /\ UNCHANGED tail
           ELSE prev' = [prev EXCEPT ![n] = NULL] /\ tail' = n
        /\ head' = n /\ len' = len + 1
  BY DEF list_lpush
<1>3. idle /\ UNCHANGED <<rem, before>>
  BY DEF list_lpush
<1>4. n \notin allocated /\ allocated' = allocated \cup {n} /\ value' = [value EXCEPT ![n] = v]
  BY <1>2 DEF node_init
<1>5. Types
  BY DEF IInv
<1>6. /\ len \in Nat /\ NULL \notin Nodes /\ allocated = NodesOf(p, len)
      /\ len = 0 => head = NULL /\ tail = NULL
      /\ len # 0 => head \in allocated
  BY <1>1, <1>5, ChainFacts
<1>7. next'[n] = head /\ \A y \in Nodes \ {n} : next'[y] = next[y]
  <2>1. (IF len > 0 THEN head ELSE NULL) = head
    BY <1>6
  <2> QED BY <1>2, <1>5, <2>1 DEF Types
<1>8. /\ prev' \in [Nodes -> Ptr] /\ prev'[n] = NULL /\ (len # 0 => prev'[head] = n)
      /\ \A y \in Nodes \ {n, head} : prev'[y] = prev[y]
  <2>1. CASE len > 0
    BY <1>2, <1>4, <1>5, <1>6, <2>1 DEF Types, Ptr
  <2>2. CASE ~(len > 0)
    BY <1>2, <1>4, <1>5, <1>6, <2>2 DEF Types, Ptr
  <2> QED BY <2>1, <2>2
<1>9. PICK q : q = First(p, len, n)
  OBVIOUS
<1>10. tail' = IF len = 0 THEN n ELSE tail
  BY <1>2, <1>6
<1>11. /\ Linked(q, len + 1, n, IF len = 0 THEN n ELSE tail, next', prev')
       /\ NodesOf(q, len + 1) = NodesOf(p, len) \cup {n}
  <2>1. Linked(p, len, head, tail, next, prev) /\ n \in Nodes \ NodesOf(p, len)
    BY <1>1, <1>4, <1>6 DEF Chain
  <2>3. /\ Linked(First(p, len, n), len + 1, n, IF len = 0 THEN n ELSE tail, next', prev')
        /\ NodesOf(First(p, len, n), len + 1) = NodesOf(p, len) \cup {n}
    BY <1>6, <1>7, <1>8, <2>1, LinkFirst
  <2> QED BY <1>9, <2>3
<1>12. Chain(q)'
  BY <1>2, <1>4, <1>6, <1>10, <1>11 DEF Chain
<1>13. Types'
  BY <1>2, <1>3, <1>4, <1>5, <1>6, <1>8, <1>10 DEF Types, Ptr
<1>14. Held'
  BY <1>4, <1>5 DEF IInv, Held, Types
<1>15. NoUseAfterFree'
  BY <1>3 DEF idle, NoUseAfterFree
<1>16. IInv'
  BY <1>12, <1>13, <1>14, <1>15 DEF IInv
<1> QED BY <1>2, <1>4, <1>9, <1>12, <1>16

\* rpush.
LEMMA RPushKeeps ==
  ASSUME IInv, NEW p, Chain(p), NEW v \in Values, list_rpush(v)
  PROVE  /\ IInv'
         /\ \E n \in Nodes \ allocated :
              /\ value' = [value EXCEPT ![n] = v] /\ len' = len + 1
              /\ \E q : q = Final(p, len, n) /\ Chain(q)'
<1>1. Chain(p)
  OBVIOUS
<1>2. PICK n \in Nodes :
        /\ node_init(n, v)
        /\ prev' = [prev EXCEPT ![n] = IF len > 0 THEN tail ELSE NULL]
        /\ IF len > 0
           THEN next' = [next EXCEPT ![n] = NULL, ![tail] = n] /\ UNCHANGED head
           ELSE next' = [next EXCEPT ![n] = NULL] /\ head' = n
        /\ tail' = n /\ len' = len + 1
  BY DEF list_rpush
<1>3. idle /\ UNCHANGED <<rem, before>>
  BY DEF list_rpush
<1>4. n \notin allocated /\ allocated' = allocated \cup {n} /\ value' = [value EXCEPT ![n] = v]
  BY <1>2 DEF node_init
<1>5. Types
  BY DEF IInv
<1>6. /\ len \in Nat /\ NULL \notin Nodes /\ allocated = NodesOf(p, len)
      /\ len = 0 => head = NULL /\ tail = NULL
      /\ len # 0 => tail \in allocated
  BY <1>1, <1>5, ChainFacts
<1>7. prev'[n] = tail /\ \A y \in Nodes \ {n} : prev'[y] = prev[y]
  <2>1. (IF len > 0 THEN tail ELSE NULL) = tail
    BY <1>6
  <2> QED BY <1>2, <1>5, <2>1 DEF Types
<1>8. /\ next' \in [Nodes -> Ptr] /\ next'[n] = NULL /\ (len # 0 => next'[tail] = n)
      /\ \A y \in Nodes \ {n, tail} : next'[y] = next[y]
  <2>1. CASE len > 0
    BY <1>2, <1>4, <1>5, <1>6, <2>1 DEF Types, Ptr
  <2>2. CASE ~(len > 0)
    BY <1>2, <1>4, <1>5, <1>6, <2>2 DEF Types, Ptr
  <2> QED BY <2>1, <2>2
<1>9. PICK q : q = Final(p, len, n)
  OBVIOUS
<1>10. head' = IF len = 0 THEN n ELSE head
  BY <1>2, <1>6
<1>11. /\ Linked(q, len + 1, IF len = 0 THEN n ELSE head, n, next', prev')
       /\ NodesOf(q, len + 1) = NodesOf(p, len) \cup {n}
  <2>1. Linked(p, len, head, tail, next, prev) /\ n \in Nodes \ NodesOf(p, len)
    BY <1>1, <1>4, <1>6 DEF Chain
  <2>3. /\ Linked(Final(p, len, n), len + 1, IF len = 0 THEN n ELSE head, n, next', prev')
        /\ NodesOf(Final(p, len, n), len + 1) = NodesOf(p, len) \cup {n}
    BY <1>6, <1>7, <1>8, <2>1, LinkFinal
  <2> QED BY <1>9, <2>3
<1>12. Chain(q)'
  BY <1>2, <1>4, <1>6, <1>10, <1>11 DEF Chain
<1>13. Types'
  BY <1>2, <1>3, <1>4, <1>5, <1>6, <1>8, <1>10 DEF Types, Ptr
<1>14. Held'
  BY <1>4, <1>5 DEF IInv, Held, Types
<1>15. NoUseAfterFree'
  BY <1>3 DEF idle, NoUseAfterFree
<1>16. IInv'
  BY <1>12, <1>13, <1>14, <1>15 DEF IInv
<1> QED BY <1>2, <1>4, <1>9, <1>12, <1>16

\* A pop from a list that is not empty is a node_del of one of its ends.
LEMMA PopDeletes ==
  ASSUME Types, NEW p, Chain(p), len # 0
  PROVE  /\ list_lpop => /\ head' = node_del(head).head /\ tail' = node_del(head).tail
                         /\ Release(head, node_del(head).next, node_del(head).prev)
         /\ list_rpop => /\ head' = node_del(tail).head /\ tail' = node_del(tail).tail
                         /\ Release(tail, node_del(tail).next, node_del(tail).prev)
<1>1. len \in Nat /\ head = p[1] /\ tail = p[len] /\ (len # 1 => head # tail)
  BY ChainFacts
<1>2. CASE len = 1
  <2>1. \A n : node_del(n) = [head |-> NULL, tail |-> NULL, next |-> next, prev |-> prev]
    BY <1>2 DEF node_del
  <2>2. head = tail
    BY <1>1, <1>2
  <2>3. list_lpop => head' = NULL /\ tail' = NULL /\ Release(head, next, prev)
    BY <1>2 DEF list_lpop, PopEmpty
  <2>4. list_rpop => head' = NULL /\ tail' = NULL /\ Release(head, next, prev)
    BY <1>2, <2>2 DEF list_rpop, PopEmpty
  <2> QED BY <2>1, <2>2, <2>3, <2>4
<1>3. CASE len # 1
  <2>1. node_del(head) = [head |-> next[head], tail |-> tail, next |-> next,
                          prev |-> [prev EXCEPT ![next[head]] = NULL]]
    BY <1>3 DEF node_del
  <2>2. node_del(tail) = [head |-> head, tail |-> prev[tail],
                          next |-> [next EXCEPT ![prev[tail]] = NULL], prev |-> prev]
    BY <1>1, <1>3 DEF node_del
  <2>3. list_lpop => /\ head' = next[head] /\ UNCHANGED tail
                     /\ Release(head, next, [prev EXCEPT ![next[head]] = NULL])
    BY <1>3 DEF list_lpop, PopEmpty
  <2>4. list_rpop => /\ tail' = prev[tail] /\ UNCHANGED head
                     /\ Release(tail, [next EXCEPT ![prev[tail]] = NULL], prev)
    BY <1>3 DEF list_rpop, PopEmpty
  <2>5. ASSUME list_lpop
        PROVE  /\ head' = node_del(head).head /\ tail' = node_del(head).tail
               /\ Release(head, node_del(head).next, node_del(head).prev)
    BY <2>1, <2>3, <2>5
  <2>6. ASSUME list_rpop
        PROVE  /\ head' = node_del(tail).head /\ tail' = node_del(tail).tail
               /\ Release(tail, node_del(tail).next, node_del(tail).prev)
    BY <2>2, <2>4, <2>6
  <2> QED BY <2>5, <2>6
<1> QED BY <1>2, <1>3

\* lpop and rpop.
LEMMA PopKeeps ==
  ASSUME IInv, NEW p, Chain(p), list_lpop \/ list_rpop
  PROVE  /\ IInv'
         /\ len = 0 => UNCHANGED list
         /\ len # 0 => \A k \in 1 .. len :
              (list_lpop /\ k = 1) \/ (list_rpop /\ k = len) =>
              /\ value' = [value EXCEPT ![p[k]] = NULL] /\ len' = len - 1
              /\ \E q : q = Drop(p, len, k) /\ Chain(q)'
<1>1. Types /\ Held
  BY DEF IInv
<1>2. idle /\ UNCHANGED <<rem, before>>
  BY DEF list_lpop, list_rpop
<1>3. NoUseAfterFree'
  BY <1>2 DEF idle, NoUseAfterFree
<1>4. CASE len = 0
  <2>1. UNCHANGED list
    BY <1>4, <1>1 DEF list_lpop, list_rpop, PopEmpty, Types
  <2>2. IInv'
    BY <1>1, <1>2, <1>3, <2>1 DEF IInv, Types, Chain, Held, list
  <2> QED BY <1>4, <2>1, <2>2
<1>5. CASE len # 0
  <2>1. ASSUME NEW k \in 1 .. len, (list_lpop /\ k = 1) \/ (list_rpop /\ k = len)
        PROVE  /\ IInv' /\ value' = [value EXCEPT ![p[k]] = NULL] /\ len' = len - 1
               /\ \E q : q = Drop(p, len, k) /\ Chain(q)'
    <3>1. head = p[1] /\ tail = p[len]
      BY <1>1, <1>5, ChainFacts
    <3>2. /\ head' = node_del(p[k]).head /\ tail' = node_del(p[k]).tail
          /\ Release(p[k], node_del(p[k]).next, node_del(p[k]).prev)
      BY <1>1, <1>5, <2>1, <3>1, PopDeletes
    <3>3. /\ \E q : q = Drop(p, len, k) /\ Chain(q)'
          /\ Held' /\ len' \in Nat /\ head' \in Ptr /\ tail' \in Ptr
          /\ allocated' = allocated \ {p[k]}
          /\ value' \in [Nodes -> Values \cup {NULL}]
          /\ next' \in [Nodes -> Ptr] /\ prev' \in [Nodes -> Ptr]
      BY <1>1, <3>2, ReleaseUnlinks
    <3>4. Types'
      BY <1>1, <1>2, <3>3 DEF Types
    <3>5. value' = [value EXCEPT ![p[k]] = NULL] /\ len' = len - 1
      BY <3>2 DEF Release
    <3>6. IInv'
      BY <1>3, <3>3, <3>4 DEF IInv
    <3> QED BY <3>3, <3>5, <3>6
  <2>2. 1 \in 1 .. len /\ len \in 1 .. len
    BY <1>1, <1>5 DEF Types
  <2>3. IInv'
    BY <2>1, <2>2
  <2> QED BY <1>5, <2>1, <2>3
<1> QED BY <1>4, <1>5

-----------------------------------------------------------------------------
(* Walks *)

\* The walk along "next" visits the nodes of the chain, and ends.
LEMMA HopAlong ==
  ASSUME Types, NEW p, Chain(p)
  PROVE  Hop = [i \in Nat |-> IF i < len THEN p[i + 1] ELSE NULL]
<1> DEFINE f(h) == [i \in Nat |-> IF i = 0 THEN head
                                  ELSE IF h[i - 1] = NULL THEN NULL ELSE next[h[i - 1]]]
           g == [i \in Nat |-> IF i < len THEN p[i + 1] ELSE NULL]
<1>1. /\ len \in Nat /\ NULL \notin Nodes /\ p \in [1 .. len -> Nodes]
      /\ len = 0 => head = NULL
      /\ len # 0 => head = p[1]
      /\ \A i \in 1 .. len : next[p[i]] = IF i = len THEN NULL ELSE p[i + 1]
  BY ChainFacts
<1>2. \A i \in Nat : g[i] = f(g)[i]
  <2> TAKE i \in Nat
  <2>1. CASE i = 0
    BY <1>1, <2>1
  <2>2. CASE i # 0
    <3>1. i - 1 \in Nat /\ g[i - 1] = IF i - 1 < len THEN p[i] ELSE NULL
      BY <2>2
    <3>2. CASE i - 1 < len
      <4>1. i \in 1 .. len /\ p[i] # NULL
        BY <1>1, <2>2, <3>2
      <4>2. f(g)[i] = next[p[i]]
        BY <2>2, <3>1, <3>2, <4>1
      <4>3. next[p[i]] = IF i = len THEN NULL ELSE p[i + 1]
        BY <1>1, <4>1
      <4> QED BY <1>1, <4>1, <4>2, <4>3
    <3>3. CASE ~(i - 1 < len)
      BY <1>1, <2>2, <3>1, <3>3
    <3> QED BY <3>2, <3>3
  <2> QED BY <2>1, <2>2
<1>3. g = f(g)
  BY <1>2
<1>4. Hop = CHOOSE h : h = f(h)
  BY DEF Hop
<1> HIDE DEF g
<1>5. Hop = f(Hop)
  <2> DEFINE P(h) == h = f(h)
  <2>1. P(g)
    BY <1>3
  <2>2. Hop = CHOOSE h : P(h)
    BY <1>4
  <2> HIDE DEF P
  <2>3. P(Hop)
    BY <2>1, <2>2, Zenon
  <2> QED BY <2>3 DEF P
<1>6. \A i \in Nat : Hop[i] = g[i]
  <2> SUFFICES ASSUME \E i \in Nat : Hop[i] # g[i]  PROVE FALSE
    OBVIOUS
  <2> DEFINE Off == {i \in Nat : Hop[i] # g[i]}
  <2>1. PICK i \in Off : \A j \in Off : i <= j
    BY LeastExists
  <2>2. i \in Nat /\ Hop[i] # g[i] /\ \A j \in Nat : j < i => Hop[j] = g[j]
    BY <2>1
  <2>3. \A h : f(h)[i] = IF i = 0 THEN head ELSE IF h[i - 1] = NULL THEN NULL ELSE next[h[i - 1]]
    BY <2>2
  <2>4. i # 0 => i - 1 \in Nat /\ Hop[i - 1] = g[i - 1]
    BY <2>2
  <2> HIDE DEF f
  <2>5. f(Hop)[i] = f(g)[i]
    BY <2>3, <2>4
  <2> QED BY <1>3, <1>5, <2>2, <2>5
<1>7. Hop = g
  BY <1>5, <1>6 DEF g
<1> QED BY <1>7 DEF g

\* What an index in range names is a node of the list.
LEMMA IndexedNode ==
  ASSUME Types, NEW p, Chain(p), NEW id \in Indices, InRange(id)
  PROVE  /\ Resolved(id) + 1 \in 1 .. len
         /\ Hop[Resolved(id)] = p[Resolved(id) + 1]
         /\ Hop[Resolved(id)] \in allocated
<1>1. len \in Nat /\ id \in Int /\ \A i \in 1 .. len : p[i] \in allocated
  BY ChainFacts, ListAssumption
<1>2. Resolved(id) \in Nat /\ Resolved(id) < len
  BY <1>1 DEF InRange, Resolved
<1>3. Hop[Resolved(id)] = p[Resolved(id) + 1]
  BY <1>2, HopAlong
<1> QED BY <1>1, <1>2, <1>3

\* lset.
LEMMA SetKeeps ==
  ASSUME IInv, NEW p, Chain(p), NEW id \in Indices, NEW v \in Values, list_set(id, v)
  PROVE  IInv' /\ Chain(p)'
<1>1. Types /\ Held /\ NoUseAfterFree
  BY DEF IInv
<1>2. Chain(p)
  OBVIOUS
<1>3. UNCHANGED <<len, head, tail, next, prev, allocated, rem>>
  BY DEF list_set, NoChange, list
<1>4. Chain(p)' /\ NoUseAfterFree'
  BY <1>1, <1>2, <1>3 DEF Chain, NoUseAfterFree
<1>5. CASE UNCHANGED value
  BY <1>1, <1>3, <1>4, <1>5 DEF IInv, Types, Held
<1>6. CASE InRange(id) /\ value' = [value EXCEPT ![Hop[Resolved(id)]] = v]
  <2>1. PICK x \in allocated : x = Hop[Resolved(id)]
    BY <1>1, <1>2, <1>6, IndexedNode
  <2>2. value' = [value EXCEPT ![x] = v]
    BY <1>6, <2>1
  <2>3. Types'
    BY <1>1, <1>3, <2>2 DEF Types
  <2>4. Held'
    BY <1>1, <1>3, <2>2 DEF Types, Held
  <2> QED BY <1>4, <2>3, <2>4 DEF IInv
<1> QED BY <1>5, <1>6 DEF list_set, NoChange, list

\* The commands that read.
LEMMA ReadsKeep ==
  ASSUME IInv, UNCHANGED <<list, rem>>
  PROVE  IInv'
BY DEF IInv, Types, Chain, Held, NoUseAfterFree, list

\* lrem begins at an end of the list.
LEMMA RemBeginKeeps ==
  ASSUME IInv, NEW count \in Counts, NEW v \in Values, list_rem(count, v)
  PROVE  IInv'
<1>1. Types /\ Held
  BY DEF IInv
<1>2. PICK p : Chain(p)
  BY DEF IInv
<1>3. UNCHANGED list
  BY DEF list_rem
<1>4. Chain(p)' /\ Held'
  BY <1>1, <1>2, <1>3 DEF Chain, Held, list
<1>5. PICK c : c = IF count >= 0 THEN head ELSE tail
  OBVIOUS
<1>6. c \in Ptr /\ c \in allocated \cup {NULL}
  BY <1>1, <1>2, <1>5, ChainFacts DEF Types
<1>7. rem' = [value |-> v, i |-> 0, pos |-> count, count |-> count, cur |-> c]
  BY <1>5 DEF list_rem
<1>8. rem' \in Removal
  BY <1>6, <1>7, ListAssumption DEF Removal
<1>9. NoUseAfterFree'
  BY <1>3, <1>6, <1>7 DEF NoUseAfterFree, list
<1> QED BY <1>1, <1>3, <1>4, <1>8, <1>9 DEF IInv, Types, list

\* What the next step of a removal stands on.
LEMMA NextIteration ==
  ASSUME Types, NEW r, r = [rem EXCEPT !.cur = Onwards(next, prev)], rem # NULL,
         NEW p, Chain(p), NEW k \in 1 .. len, rem.cur = p[k]
  PROVE  r \in Removal /\ r.cur \in allocated \cup {NULL}
<1>1. /\ \A i \in 1 .. len : p[i] \in allocated
      /\ next[p[k]] = IF k = len THEN NULL ELSE p[k + 1]
      /\ prev[p[k]] = IF k = 1 THEN NULL ELSE p[k - 1]
      /\ len \in Nat
  BY ChainFacts
<1>2. next[p[k]] \in allocated \cup {NULL}
  BY <1>1
<1>3. prev[p[k]] \in allocated \cup {NULL}
  BY <1>1
<1>4. PICK c : c = Onwards(next, prev)
  OBVIOUS
<1>5. c \in allocated \cup {NULL}
  BY <1>2, <1>3, <1>4 DEF Onwards
<1>6. c \in Ptr
  BY <1>5 DEF Ptr, Types
<1>7. rem \in Removal
  BY DEF Types
<1> QED BY <1>4, <1>5, <1>6, <1>7 DEF Removal

\* A node that stays.
LEMMA SkipKeeps ==
  ASSUME IInv, RemSkip
  PROVE  IInv'
<1>1. Types /\ Held /\ NoUseAfterFree
  BY DEF IInv
<1>2. PICK p : Chain(p)
  BY DEF IInv
<1>3. rem # NULL /\ rem.cur # NULL /\ rem' = [rem EXCEPT !.cur = Onwards(next, prev)]
  BY DEF RemSkip, idle, RemEnds
<1>4. UNCHANGED list
  BY DEF RemSkip
<1>5. PICK k \in 1 .. len : rem.cur = p[k]
  BY <1>1, <1>2, <1>3 DEF NoUseAfterFree, Chain, NodesOf
<1>6. PICK r : r = [rem EXCEPT !.cur = Onwards(next, prev)]
  OBVIOUS
<1>7. r \in Removal /\ r.cur \in allocated \cup {NULL}
  BY <1>1, <1>2, <1>3, <1>5, <1>6, NextIteration
<1>8. rem' = r
  BY <1>3, <1>6
<1>9. Chain(p)' /\ Held'
  BY <1>1, <1>2, <1>4 DEF Chain, Held, list
<1>10. NoUseAfterFree'
  BY <1>4, <1>7, <1>8 DEF NoUseAfterFree, list
<1> QED BY <1>1, <1>4, <1>7, <1>8, <1>9, <1>10 DEF IInv, Types, list

\* A node that goes: the walk has moved on to another one before it is freed.
LEMMA DeleteKeeps ==
  ASSUME IInv, NEW p, Chain(p), NEW k \in 1 .. len, rem.cur = p[k], RemDelete
  PROVE  /\ IInv'
         /\ value' = [value EXCEPT ![p[k]] = NULL] /\ len' = len - 1
         /\ \E q : q = Drop(p, len, k) /\ Chain(q)'
         /\ rem' = [value |-> rem.value, i |-> rem.i + 1, pos |-> rem.pos,
                    count |-> IF rem.pos >= 0 THEN rem.count - 1 ELSE rem.count + 1,
                    cur |-> IF rem.pos >= 0 THEN next[p[k]] ELSE prev[p[k]]]
<1>1. Types /\ Held /\ NoUseAfterFree
  BY DEF IInv
<1>2. Chain(p)
  OBVIOUS
<1>3. PICK left : left = node_del(rem.cur)
  OBVIOUS
<1>4. /\ rem # NULL /\ rem.cur # NULL
      /\ head' = left.head /\ tail' = left.tail
      /\ rem' = [rem EXCEPT !.i = @ + 1, !.cur = Onwards(left.next, left.prev),
                            !.count = IF rem.pos >= 0 THEN @ - 1 ELSE @ + 1]
      /\ Release(rem.cur, left.next, left.prev)
  BY <1>3 DEF RemDelete, idle, RemEnds
<1>5. rem.cur = p[k]
  OBVIOUS
<1>6. /\ \E q : q = Drop(p, len, k) /\ Chain(q)'
      /\ Held' /\ allocated' = allocated \ {p[k]}
      /\ len' \in Nat /\ head' \in Ptr /\ tail' \in Ptr
      /\ value' \in [Nodes -> Values \cup {NULL}]
      /\ next' \in [Nodes -> Ptr] /\ prev' \in [Nodes -> Ptr]
  <2>1. left = node_del(p[k]) /\ Release(p[k], left.next, left.prev)
    BY <1>3, <1>4, <1>5
  <2> QED BY <1>1, <1>2, <1>4, <2>1, ReleaseUnlinks
<1>7. left.next[p[k]] = next[p[k]] /\ left.prev[p[k]] = prev[p[k]]
  <2>1. left = node_del(p[k])
    BY <1>3, <1>5
  <2> QED BY <1>1, <1>2, <2>1, NodeDelBypasses
<1>8. PICK c : c = Onwards(left.next, left.prev)
  OBVIOUS
<1>9. c \in (allocated \ {p[k]}) \cup {NULL}
  <2>1. /\ \A i \in 1 .. len : p[i] \in allocated
        /\ \A i, j \in 1 .. len : p[i] = p[j] => i = j
        /\ next[p[k]] = IF k = len THEN NULL ELSE p[k + 1]
        /\ prev[p[k]] = IF k = 1 THEN NULL ELSE p[k - 1]
        /\ len \in Nat
    BY <1>1, <1>2, ChainFacts
  <2>2. next[p[k]] \in (allocated \ {p[k]}) \cup {NULL}
    <3>1. k # len => k + 1 \in 1 .. len /\ k + 1 # k
      BY <2>1
    <3> QED BY <2>1, <3>1
  <2>3. prev[p[k]] \in (allocated \ {p[k]}) \cup {NULL}
    <3>1. k # 1 => k - 1 \in 1 .. len /\ k - 1 # k
      BY <2>1
    <3> QED BY <2>1, <3>1
  <2>4. c = left.next[p[k]] \/ c = left.prev[p[k]]
    BY <1>5, <1>8 DEF Onwards
  <2> QED BY <1>7, <2>2, <2>3, <2>4
<1>10. c \in Ptr
  BY <1>1, <1>9 DEF Ptr, Types
<1>11. PICK n \in Int : n = IF rem.pos >= 0 THEN rem.count - 1 ELSE rem.count + 1
  BY <1>1, <1>4, ListAssumption DEF Types, Removal
<1>12. /\ rem' = [value |-> rem.value, i |-> rem.i + 1, pos |-> rem.pos, count |-> n, cur |-> c]
       /\ rem' \in Removal
  <2>1. rem \in Removal
    BY <1>1, <1>4 DEF Types
  <2>2. rem' = [rem EXCEPT !.i = rem.i + 1, !.cur = c, !.count = n]
    BY <1>4, <1>8, <1>11
  <2>3. rem' = [value |-> rem.value, i |-> rem.i + 1, pos |-> rem.pos, count |-> n, cur |-> c]
    BY <2>1, <2>2 DEF Removal
  <2>4. rem' \in Removal
    BY <1>10, <1>11, <2>1, <2>3 DEF Removal
  <2> QED BY <2>3, <2>4
<1>13. NoUseAfterFree'
  BY <1>6, <1>9, <1>12 DEF NoUseAfterFree
<1>14. Types'
  BY <1>1, <1>6, <1>12 DEF Types
<1>15. IInv'
  BY <1>6, <1>13, <1>14 DEF IInv
<1>16. value' = [value EXCEPT ![p[k]] = NULL] /\ len' = len - 1
  BY <1>4, <1>5 DEF Release
<1>17. c = IF rem.pos >= 0 THEN next[p[k]] ELSE prev[p[k]]
  BY <1>5, <1>7, <1>8 DEF Onwards
<1>18. rem' = [value |-> rem.value, i |-> rem.i + 1, pos |-> rem.pos,
               count |-> IF rem.pos >= 0 THEN rem.count - 1 ELSE rem.count + 1,
               cur |-> IF rem.pos >= 0 THEN next[p[k]] ELSE prev[p[k]]]
  BY <1>11, <1>12, <1>17
<1> QED BY <1>6, <1>15, <1>16, <1>18

\* The end of a removal.
LEMMA ReturnKeeps ==
  ASSUME IInv, RemReturn
  PROVE  IInv'
<1>1. UNCHANGED list /\ rem' = NULL
  BY DEF RemReturn
<1> QED BY <1>1 DEF IInv, Types, Chain, Held, NoUseAfterFree, list

-----------------------------------------------------------------------------
(* The invariant *)

\* The list is empty and sound at first.
LEMMA ListInit == ASSUME Init  PROVE IInv
<1>1. Types /\ Held /\ NoUseAfterFree
  BY DEF Init, Types, Ptr, Held, NoUseAfterFree
<1>2. PICK p : p = [i \in 1 .. 0 |-> NULL]
  OBVIOUS
<1>3. Chain(p)
  BY <1>2 DEF Init, Chain, Linked, NodesOf
<1> QED BY <1>1, <1>3 DEF IInv

\* Whatever the list does, its nodes stay a chain.
LEMMA IInvInductive ==
  ASSUME IInv, [Next]_vars
  PROVE  IInv'
<1>1. ASSUME NEW v \in Values, list_lpush(v) \/ list_rpush(v)  PROVE IInv'
  <2>1. PICK p : Chain(p)
    BY DEF IInv
  <2> QED BY <1>1, <2>1, LPushKeeps, RPushKeeps
<1>2. ASSUME NEW v \in Values, list_pos(v)  PROVE IInv'
  BY <1>2, ReadsKeep DEF list_pos, NoChange
<1>3. CASE list_lpop \/ list_rpop
  <2>1. PICK p : Chain(p)
    BY DEF IInv
  <2> QED BY <1>3, <2>1, PopKeeps
<1>4. ASSUME NEW id \in Indices, list_index(id)  PROVE IInv'
  BY <1>4, ReadsKeep DEF list_index, NoChange
<1>5. ASSUME NEW id \in Indices, NEW v \in Values, list_set(id, v)  PROVE IInv'
  <2>1. PICK p : Chain(p)
    BY DEF IInv
  <2> QED BY <1>5, <2>1, SetKeeps
<1>6. ASSUME NEW b \in Indices, NEW e \in Indices, list_range(b, e)  PROVE IInv'
  BY <1>6, ReadsKeep DEF list_range, NoChange
<1>7. ASSUME NEW count \in Counts, NEW v \in Values, list_rem(count, v)  PROVE IInv'
  BY <1>7, RemBeginKeeps
<1>8. CASE RemSkip \/ RemReturn
  BY <1>8, SkipKeeps, ReturnKeeps
<1>9. CASE RemDelete
  <2>1. PICK p : Chain(p)
    BY DEF IInv
  <2>2. PICK k \in 1 .. len : rem.cur = p[k]
    BY <1>9, <2>1 DEF RemDelete, RemEnds, idle, IInv, NoUseAfterFree, Chain, NodesOf
  <2> QED BY <1>9, <2>1, <2>2, DeleteKeeps
<1>10. CASE UNCHANGED vars
  BY <1>10, ReadsKeep DEF vars
<1> QED BY <1>1, <1>2, <1>3, <1>4, <1>5, <1>6, <1>7, <1>8, <1>9, <1>10 DEF Next

\* The list is sound in every state of every behaviour.
LEMMA Invariance == Spec => []IInv
<1>1. Init => IInv
  BY ListInit
<1>2. IInv /\ [Next]_vars => IInv'
  BY IInvInductive
<1> QED BY <1>1, <1>2, PTL DEF Spec

\* No more nodes than the heap has.
LEMMA ChainFits ==
  ASSUME Types, NEW p, Chain(p)
  PROVE  len <= Cardinality(Nodes)
<1>1. /\ len \in Nat /\ p \in [1 .. len -> Nodes]
      /\ \A i, j \in 1 .. len : p[i] = p[j] => i = j
  BY ChainFacts
<1>2. IsFiniteSet(1 .. len) /\ Cardinality(1 .. len) = len
  BY <1>1, FS_Interval
<1>3. p \in Injection(1 .. len, Nodes)
  BY <1>1, Zenon DEF Injection, IsInjective
<1> QED BY <1>2, <1>3, ListAssumption, FS_Injection

\* The fields of the list and of its nodes, and the locals of list_rem, have
\* their types, and the list is never longer than the heap.
THEOREM ListTypes == Spec => []TypeOK
<1>1. IInv => TypeOK
  BY ChainFits DEF IInv, Types, TypeOK, Removal
<1> QED BY <1>1, Invariance, PTL

\* The walk from head along "next" reaches "len" nodes, each allocated, and then
\* NULL; tail is the last; "prev" leads back the same way. Also between two
\* iterations of list_rem.
THEOREM ListsAreLinked == Spec => []WellLinked
<1>1. ASSUME IInv  PROVE WellLinked
  <2>1. PICK p : Chain(p)
    BY <1>1 DEF IInv
  <2>2. Types
    BY <1>1 DEF IInv
  <2>3. /\ len \in Nat
        /\ len = 0 => tail = NULL
        /\ len # 0 => tail = p[len]
        /\ \A i \in 1 .. len : p[i] \in allocated
        /\ \A i \in 1 .. len : prev[p[i]] = IF i = 1 THEN NULL ELSE p[i - 1]
    BY <2>1, <2>2, ChainFacts
  <2>4. \A i \in Nat : Hop[i] = IF i < len THEN p[i + 1] ELSE NULL
    BY <2>1, <2>2, HopAlong
  <2>5. Hop[len] = NULL /\ \A i \in 0 .. len - 1 : Hop[i] \in allocated
    BY <2>3, <2>4
  <2>6. tail = IF len = 0 THEN NULL ELSE Hop[len - 1]
    BY <2>3, <2>4
  <2>7. ASSUME NEW i \in 0 .. len - 1
        PROVE  prev[Hop[i]] = IF i = 0 THEN NULL ELSE Hop[i - 1]
    <3>1. i + 1 \in 1 .. len /\ Hop[i] = p[i + 1]
      BY <2>3, <2>4
    <3>2. prev[p[i + 1]] = IF i = 0 THEN NULL ELSE p[i]
      BY <2>3, <3>1
    <3>3. i # 0 => Hop[i - 1] = p[i]
      BY <2>3, <2>4
    <3> QED BY <3>1, <3>2, <3>3
  <2> QED BY <2>5, <2>6, <2>7 DEF WellLinked
<1>2. IInv => WellLinked
  BY <1>1
<1> QED BY <1>2, Invariance, PTL

\* Every node that was allocated and not freed is reached from head: list_rem
\* and the pops lose no node.
THEOREM ListsLeakNothing == Spec => []NoLeak
<1>1. ASSUME IInv  PROVE NoLeak
  <2>1. PICK p : Chain(p)
    BY <1>1 DEF IInv
  <2>2. Types
    BY <1>1 DEF IInv
  <2>3. len \in Nat /\ allocated = NodesOf(p, len)
    BY <2>1, <2>2, ChainFacts
  <2>4. \A i \in Nat : Hop[i] = IF i < len THEN p[i + 1] ELSE NULL
    BY <2>1, <2>2, HopAlong
  <2>5. ASSUME NEW n \in allocated  PROVE \E i \in 0 .. len - 1 : n = Hop[i]
    <3>1. PICK k \in 1 .. len : n = p[k]
      BY <2>3 DEF NodesOf
    <3>2. k - 1 \in 0 .. len - 1 /\ Hop[k - 1] = p[k]
      BY <2>3, <2>4
    <3> QED BY <3>1, <3>2
  <2> QED BY <2>5 DEF NoLeak
<1>2. IInv => NoLeak
  BY <1>1
<1> QED BY <1>2, Invariance, PTL

\* list_rem reads the next node before it frees the one it stands on, and the
\* one it goes to is not freed, or is NULL.
THEOREM RemovalsStandOnNodes == Spec => []NoUseAfterFree
<1>1. IInv => NoUseAfterFree
  BY DEF IInv
<1> QED BY <1>1, Invariance, PTL

-----------------------------------------------------------------------------
(* The strings of a list *)

\* The values along a chain are what the list contains.
Shows(p) ==
  /\ len \in Nat /\ Contents = [i \in 1 .. len |-> value[p[i]]]
  /\ Contents \in Seq(Values) /\ Len(Contents) = len

ChainShows == \A p : Chain(p) => Shows(p)

\* The strings of the chain are the contents.
LEMMA ContentsShown == ASSUME IInv  PROVE ChainShows
<1> SUFFICES ASSUME NEW p, Chain(p)  PROVE Shows(p)
  BY DEF ChainShows
<1>1. Types /\ Held
  BY DEF IInv
<1>2. len \in Nat /\ \A i \in 1 .. len : p[i] \in allocated
  BY <1>1, ChainFacts
<1>3. \A i \in 1 .. len : Hop[i - 1] = p[i]
  BY <1>1, <1>2, HopAlong
<1>4. Contents = [i \in 1 .. len |-> value[p[i]]]
  BY <1>3 DEF Contents
<1>5. [i \in 1 .. len |-> value[p[i]]] \in [1 .. len -> Values]
  BY <1>1, <1>2 DEF Held
<1>6. Contents \in Seq(Values) /\ Len(Contents) = len
  BY <1>2, <1>4, <1>5, FunctionIsSeq
<1> QED BY <1>2, <1>4, <1>6 DEF Shows

\* The same, of the next state.
LEMMA ContentsShownNext == IInv' => ChainShows'
<1>1. IInv => ChainShows
  BY ContentsShown
<1>2. IInv' => ChainShows'
  BY <1>1, PTL
<1> QED BY <1>2

\* The heap is large enough for the list.
Fits == len <= Cardinality(Nodes)

\* The list that a step makes fits in the heap.
LEMMA ChainFitsNext == IInv' => Fits'
<1>1. IInv => Fits
  BY ChainFits DEF IInv, Fits
<1> QED BY <1>1, PTL

\* The sequence that the list is to its clients.
TheSeq == IF idle THEN Contents ELSE before

\* lpush.
LEMMA LPushRefines ==
  ASSUME IInv, NEW v \in Values, list_lpush(v)
  PROVE  Abstract!LPush(v)
<1>1. PICK p : Chain(p)
  BY DEF IInv
<1>2. PICK n, q :
        /\ n \in Nodes \ allocated
        /\ value' = [value EXCEPT ![n] = v] /\ len' = len + 1
        /\ q = First(p, len, n) /\ Chain(q)'
  BY <1>1, LPushKeeps
<1>3. IInv'
  BY <1>1, LPushKeeps
<1>4. Shows(p) /\ Shows(q)'
  BY <1>1, <1>2, <1>3, ContentsShown, ContentsShownNext DEF ChainShows
<1>5. Contents' = <<v>> \o Contents
  <2>1. /\ \A i \in 1 .. len : p[i] \in allocated
        /\ value \in [Nodes -> Values \cup {NULL}]
    BY <1>1, ChainFacts DEF IInv, Types
  <2>2. q[1] = n /\ \A i \in 1 .. len : q[i + 1] = p[i] /\ p[i] # n /\ p[i] \in Nodes
    BY <1>2, <1>4, <2>1 DEF First, Shows, IInv, Types
  <2>3. value'[q[1]] = v /\ \A i \in 1 .. len : value'[q[i + 1]] = value[p[i]]
    BY <1>2, <2>1, <2>2
  <2>4. /\ Contents'[1] = v
        /\ \A i \in 1 .. len : Contents'[i + 1] = Contents[i]
    BY <1>2, <1>4, <2>3 DEF Shows
  <2>5. /\ Contents \in Seq(Values) /\ Contents' \in Seq(Values) /\ Len(Contents') = Len(Contents) + 1
        /\ Contents'[1] = v
        /\ \A i \in 1 .. Len(Contents) : Contents'[i + 1] = Contents[i]
    BY <1>2, <1>4, <2>4 DEF Shows
  <2> QED BY <2>5, IsCons
<1>6. Len(Contents) < Cardinality(Nodes)
  BY <1>2, <1>3, <1>4, ChainFitsNext, FS_CardinalityType, ListAssumption DEF Shows, Fits
<1>7. idle /\ idle'
  BY DEF list_lpush, idle
<1>8. reply' = [cmd |-> <<"lpush", v>>, vals |-> <<>>, n |-> len + 1]
  BY DEF list_lpush, Answer
<1> QED BY <1>4, <1>5, <1>6, <1>7, <1>8 DEF Abstract!LPush, Abstract!Answer, Shows

\* rpush.
LEMMA RPushRefines ==
  ASSUME IInv, NEW v \in Values, list_rpush(v)
  PROVE  Abstract!RPush(v)
<1>1. PICK p : Chain(p)
  BY DEF IInv
<1>2. PICK n, q :
        /\ n \in Nodes \ allocated
        /\ value' = [value EXCEPT ![n] = v] /\ len' = len + 1
        /\ q = Final(p, len, n) /\ Chain(q)'
  BY <1>1, RPushKeeps
<1>3. IInv'
  BY <1>1, RPushKeeps
<1>4. Shows(p) /\ Shows(q)'
  BY <1>1, <1>2, <1>3, ContentsShown, ContentsShownNext DEF ChainShows
<1>5. Contents' = Append(Contents, v)
  <2>1. /\ \A i \in 1 .. len : p[i] \in allocated
        /\ value \in [Nodes -> Values \cup {NULL}]
    BY <1>1, ChainFacts DEF IInv, Types
  <2>2. q[len + 1] = n /\ \A i \in 1 .. len : q[i] = p[i] /\ p[i] # n /\ p[i] \in Nodes
    BY <1>2, <1>4, <2>1 DEF Final, Shows, IInv, Types
  <2>3. value'[q[len + 1]] = v
    BY <1>2, <2>1, <2>2
  <2>4. \A i \in 1 .. len : value'[q[i]] = value[p[i]]
    BY <1>2, <2>1, <2>2
  <2>5. /\ Contents'[len + 1] = v
        /\ \A i \in 1 .. len : Contents'[i] = Contents[i]
    BY <1>2, <1>4, <2>3, <2>4 DEF Shows
  <2>6. /\ Contents \in Seq(Values) /\ Contents' \in Seq(Values) /\ Len(Contents') = Len(Contents) + 1
        /\ Contents'[Len(Contents) + 1] = v
        /\ \A i \in 1 .. Len(Contents) : Contents'[i] = Contents[i]
    BY <1>2, <1>4, <2>5 DEF Shows
  <2> QED BY <2>6, IsAppend
<1>6. Len(Contents) < Cardinality(Nodes)
  BY <1>2, <1>3, <1>4, ChainFitsNext, FS_CardinalityType, ListAssumption DEF Shows, Fits
<1>7. idle /\ idle'
  BY DEF list_rpush, idle
<1>8. reply' = [cmd |-> <<"rpush", v>>, vals |-> <<>>, n |-> len + 1]
  BY DEF list_rpush, Answer
<1> QED BY <1>4, <1>5, <1>6, <1>7, <1>8 DEF Abstract!RPush, Abstract!Answer, Shows

\* What a list contains without its node p[k].
LEMMA DropShows ==
  ASSUME IInv, NEW p, Chain(p), NEW k \in 1 .. len, IInv',
         \E q : q = Drop(p, len, k) /\ Chain(q)',
         value' = [value EXCEPT ![p[k]] = NULL], len' = len - 1
  PROVE  /\ Contents' \in Seq(Values) /\ Len(Contents') = len - 1
         /\ \A i \in 1 .. len - 1 : Contents'[i] = IF i < k THEN Contents[i] ELSE Contents[i + 1]
<1>1. PICK q : q = Drop(p, len, k) /\ Chain(q)'
  OBVIOUS
<1>2. Shows(p) /\ Shows(q)'
  BY <1>1, ContentsShown, ContentsShownNext DEF ChainShows
<1>3. /\ len \in Nat
      /\ \A i \in 1 .. len : p[i] \in allocated
      /\ \A i, j \in 1 .. len : p[i] = p[j] => i = j
      /\ value \in [Nodes -> Values \cup {NULL}] /\ allocated \subseteq Nodes
  BY ChainFacts DEF IInv, Types
<1>4. \A l \in 1 .. len : l # k => value'[p[l]] = value[p[l]]
  BY <1>3
<1>5. ASSUME NEW i \in 1 .. len - 1
      PROVE  Contents'[i] = IF i < k THEN Contents[i] ELSE Contents[i + 1]
  <2>1. /\ i \in 1 .. len /\ i + 1 \in 1 .. len
        /\ (i < k => i # k) /\ (~(i < k) => i + 1 # k)
    BY <1>3
  <2>2. q[i] = IF i < k THEN p[i] ELSE p[i + 1]
    BY <1>1 DEF Drop
  <2>3. Contents'[i] = value'[q[i]]
    BY <1>2 DEF Shows
  <2>4. Contents[i] = value[p[i]] /\ Contents[i + 1] = value[p[i + 1]]
    BY <1>2, <2>1 DEF Shows
  <2> QED BY <1>4, <2>1, <2>2, <2>3, <2>4
<1>6. Contents' \in Seq(Values) /\ Len(Contents') = len - 1
  BY <1>2 DEF Shows
<1> QED BY <1>5, <1>6

\* lpop and rpop.
LEMMA PopRefines ==
  ASSUME IInv
  PROVE  (list_lpop => Abstract!LPop) /\ (list_rpop => Abstract!RPop)
<1>1. PICK p : Chain(p)
  BY DEF IInv
<1>2. Types /\ Shows(p)
  BY <1>1, ContentsShown DEF IInv, ChainShows
<1>3. (list_lpop \/ list_rpop) => idle /\ idle'
  BY DEF list_lpop, list_rpop, idle
<1>4. CASE len = 0
  <2>1. Contents = <<>>
    BY <1>2, <1>4, EmptySeq DEF Shows
  <2>2. list_lpop => UNCHANGED list /\ reply' = [cmd |-> <<"lpop">>, vals |-> <<>>, n |-> 0]
    BY <1>4 DEF list_lpop, PopEmpty, Answer
  <2>3. list_rpop => UNCHANGED list /\ reply' = [cmd |-> <<"rpop">>, vals |-> <<>>, n |-> 0]
    BY <1>4 DEF list_rpop, PopEmpty, Answer
  <2>4. UNCHANGED list => Contents' = Contents
    BY DEF list, Contents, Hop
  <2> QED BY <1>3, <2>1, <2>2, <2>3, <2>4 DEF Abstract!LPop, Abstract!RPop, Abstract!Answer
<1>5. CASE len # 0
  <2>1. /\ len \in Nat /\ head = p[1] /\ tail = p[len]
        /\ \A i \in 1 .. len : p[i] \in allocated
        /\ \A i, j \in 1 .. len : p[i] = p[j] => i = j
        /\ value \in [Nodes -> Values \cup {NULL}]
    BY <1>1, <1>2, <1>5, ChainFacts DEF Types
  <2>2. /\ Contents \in Seq(Values) /\ Len(Contents) = len /\ Contents # <<>>
        /\ \A i \in 1 .. len : Contents[i] = value[p[i]]
    BY <1>2, <1>5, EmptySeq DEF Shows
  <2>4. ASSUME list_lpop  PROVE Abstract!LPop
    <3>1. reply' = [cmd |-> <<"lpop">>, vals |-> <<Contents[1]>>, n |-> 0]
      BY <1>5, <2>1, <2>2, <2>4 DEF list_lpop, PopEmpty, Answer
    <3>2. /\ \E q : q = Drop(p, len, 1) /\ Chain(q)'
          /\ IInv' /\ value' = [value EXCEPT ![p[1]] = NULL] /\ len' = len - 1
      BY <1>1, <1>5, <2>1, <2>4, PopKeeps
    <3>3. /\ Contents' \in Seq(Values) /\ Len(Contents') = len - 1
          /\ \A i \in 1 .. len - 1 : Contents'[i] = IF i < 1 THEN Contents[i] ELSE Contents[i + 1]
      <4>1. 1 \in 1 .. len /\ len \in 1 .. len
        BY <1>5, <2>1
      <4> QED BY <1>1, <3>2, <4>1, DropShows
    <3>4. Contents' = Tail(Contents)
      BY <2>2, <3>3, IsTail
    <3> QED BY <1>3, <2>2, <2>4, <3>1, <3>4 DEF Abstract!LPop, Abstract!Answer
  <2>5. ASSUME list_rpop  PROVE Abstract!RPop
    <3>1. reply' = [cmd |-> <<"rpop">>, vals |-> <<Contents[len]>>, n |-> 0]
      <4>1. \/ Answer(<<"rpop">>, <<value[tail]>>, 0)
            \/ len = 1 /\ Answer(<<"rpop">>, <<value[tail]>>, 0)
        BY <1>5, <2>5 DEF list_rpop, PopEmpty
      <4> QED BY <1>5, <2>1, <2>2, <4>1 DEF Answer
    <3>2. /\ \E q : q = Drop(p, len, len) /\ Chain(q)'
          /\ IInv' /\ value' = [value EXCEPT ![p[len]] = NULL] /\ len' = len - 1
      BY <1>1, <1>5, <2>1, <2>5, PopKeeps
    <3>3. /\ Contents' \in Seq(Values) /\ Len(Contents') = len - 1
          /\ \A i \in 1 .. len - 1 : Contents'[i] = IF i < len THEN Contents[i] ELSE Contents[i + 1]
      <4>1. 1 \in 1 .. len /\ len \in 1 .. len
        BY <1>5, <2>1
      <4> QED BY <1>1, <3>2, <4>1, DropShows
    <3>4. Contents' = SubSeq(Contents, 1, len - 1)
      BY <2>1, <2>2, <3>3, IsFront
    <3> QED BY <1>3, <2>2, <2>5, <3>1, <3>4 DEF Abstract!RPop, Abstract!Answer, Abstract!Last, Abstract!Front
  <2> QED BY <2>4, <2>5
<1> QED BY <1>4, <1>5

\* An index names the same place to the walk and to the sequence.
LEMMA PlaceOfIndex ==
  ASSUME IInv, NEW id \in Indices
  PROVE  /\ Abstract!Place(Contents, id) = Resolved(id) + 1 /\ Resolved(id) \in Int
         /\ Abstract!Place(Contents, id) \in DOMAIN Contents <=> InRange(id)
         /\ InRange(id) => value[Hop[Resolved(id)]] = Contents[Resolved(id) + 1]
<1>1. PICK p : Chain(p)
  BY DEF IInv
<1>2. Shows(p) /\ Types
  BY <1>1, ContentsShown DEF ChainShows, IInv
<1>3. id \in Int /\ len \in Nat /\ Contents \in Seq(Values) /\ Len(Contents) = len /\ DOMAIN Contents = 1 .. len
  BY <1>2, ListAssumption DEF Shows
<1>4. Abstract!Place(Contents, id) = Resolved(id) + 1 /\ Resolved(id) \in Int
  BY <1>3 DEF Abstract!Place, Resolved
<1>5. Abstract!Place(Contents, id) \in DOMAIN Contents <=> InRange(id)
  BY <1>3, <1>4 DEF InRange
<1>6. ASSUME InRange(id)  PROVE value[Hop[Resolved(id)]] = Contents[Resolved(id) + 1]
  <2>1. Resolved(id) + 1 \in 1 .. len /\ Hop[Resolved(id)] = p[Resolved(id) + 1]
    BY <1>1, <1>2, <1>6, IndexedNode
  <2> QED BY <1>2, <2>1 DEF Shows
<1> QED BY <1>4, <1>5, <1>6

\* What does not change the pointers and the strings leaves the sequence.
LEMMA SameContents == ASSUME UNCHANGED list  PROVE Contents' = Contents
BY DEF list, Contents, Hop

\* lindex.
LEMMA IndexRefines ==
  ASSUME IInv, NEW id \in Indices, list_index(id)
  PROVE  Abstract!Index(id)
<1>1. idle /\ idle' /\ Contents' = Contents
  BY SameContents DEF list_index, NoChange, idle
<1>2. CASE InRange(id)
  <2>1. reply' = [cmd |-> <<"lindex", id>>, vals |-> <<Contents[Resolved(id) + 1]>>, n |-> 0]
    BY <1>2, PlaceOfIndex DEF list_index, Answer
  <2> QED BY <1>1, <1>2, <2>1, PlaceOfIndex DEF Abstract!Index, Abstract!Answer
<1>3. CASE ~InRange(id)
  <2>1. reply' = [cmd |-> <<"lindex", id>>, vals |-> <<>>, n |-> -2]
    BY <1>3 DEF list_index, OutOfRange, Answer
  <2> QED BY <1>1, <1>3, <2>1, PlaceOfIndex
          DEF Abstract!Index, Abstract!Answer, Abstract!OutOfRange
<1> QED BY <1>2, <1>3

\* lrange.
LEMMA RangeRefines ==
  ASSUME IInv, NEW b \in Indices, NEW e \in Indices, list_range(b, e)
  PROVE  Abstract!Slice(b, e)
<1>1. idle /\ idle' /\ Contents' = Contents
  BY SameContents DEF list_range, NoChange, idle
<1>2. PICK p : Chain(p)
  BY DEF IInv
<1>3. Shows(p) /\ Types
  BY <1>2, ContentsShown DEF ChainShows, IInv
<1> DEFINE i0 == Resolved(b)
           j0 == Resolved(e)
<1>4. i0 \in Int /\ j0 \in Int
  BY PlaceOfIndex
<1>5. CASE InRange(b) /\ InRange(e) /\ i0 <= j0
  <2> DEFINE out == [i \in 1 .. j0 - i0 + 1 |-> value[Hop[i0 + i - 1]]]
             sub == SubSeq(Contents, i0 + 1, j0 + 1)
  <2>1. i0 \in Nat /\ j0 \in Nat /\ j0 < len /\ len \in Nat
    BY <1>3, <1>4, <1>5 DEF InRange, Shows
  <2>2. \A i \in 1 .. len : Contents[i] = value[p[i]] /\ Contents[i] \in Values
    BY <1>3, ElementOfSeq DEF Shows
  <2>3. \A i \in 1 .. len : Hop[i - 1] = p[i]
    BY <1>2, <1>3, <2>1, HopAlong
  <2> HIDE DEF i0, j0
  <2>4. ASSUME NEW i \in 1 .. j0 - i0 + 1
        PROVE  out[i] = Contents[i0 + i] /\ out[i] \in Values
    <3>1. i0 + i \in 1 .. len /\ (i0 + i) - 1 = i0 + i - 1
      BY <1>5, <2>1
    <3> QED BY <2>2, <2>3, <3>1
  <2>5. \A i \in i0 + 1 .. j0 + 1 : Contents[i] \in Values
    BY <2>1, <2>2
  <2>6. i0 + 1 \in Int /\ j0 + 1 \in Int /\ j0 - i0 + 1 \in Nat
    BY <1>5, <2>1
  <2>7. /\ sub \in Seq(Values)
        /\ Len(sub) = IF i0 + 1 <= j0 + 1 THEN (j0 + 1) - (i0 + 1) + 1 ELSE 0
        /\ \A i \in 1 .. (j0 + 1) - (i0 + 1) + 1 : sub[i] = Contents[(i0 + 1) + i - 1]
    BY <2>5, <2>6, SubSeqProperties
  <2>8. out \in Seq(Values) /\ Len(out) = j0 - i0 + 1
    <3>1. out \in [1 .. j0 - i0 + 1 -> Values]
      BY <2>4
    <3> QED BY <2>6, <3>1, FunctionIsSeq
  <2> HIDE DEF out, sub
  <2>9. Len(sub) = Len(out)
    BY <1>5, <2>1, <2>7, <2>8
  <2>10. \A i \in 1 .. Len(out) : out[i] = sub[i]
    BY <2>1, <2>4, <2>7, <2>8
  <2>11. out = sub
    BY <2>7, <2>8, <2>9, <2>10, SeqEqual
  <2>12. reply' = [cmd |-> <<"lrange", b, e>>, vals |-> out, n |-> 0]
    BY <1>5 DEF list_range, Answer, out, i0, j0
  <2>13. /\ Abstract!Place(Contents, b) = i0 + 1 /\ Abstract!Place(Contents, e) = j0 + 1
         /\ Abstract!Place(Contents, b) \in DOMAIN Contents
         /\ Abstract!Place(Contents, e) \in DOMAIN Contents
         /\ i0 + 1 <= j0 + 1
    BY <1>5, <2>1, PlaceOfIndex DEF i0, j0
  <2> QED BY <1>1, <2>11, <2>12, <2>13 DEF Abstract!Slice, Abstract!Answer, sub
<1>6. CASE ~(InRange(b) /\ InRange(e) /\ i0 <= j0)
  <2>1. reply' = [cmd |-> <<"lrange", b, e>>, vals |-> <<>>, n |-> -2]
    BY <1>6 DEF list_range, OutOfRange, Answer
  <2>2. /\ Abstract!Place(Contents, b) = i0 + 1 /\ Abstract!Place(Contents, e) = j0 + 1
        /\ ~(/\ Abstract!Place(Contents, b) \in DOMAIN Contents
             /\ Abstract!Place(Contents, e) \in DOMAIN Contents
             /\ i0 + 1 <= j0 + 1)
    BY <1>4, <1>6, PlaceOfIndex
  <2> QED BY <1>1, <2>1, <2>2 DEF Abstract!Slice, Abstract!Answer, Abstract!OutOfRange
<1> QED BY <1>5, <1>6

\* lset.
LEMMA SetRefines ==
  ASSUME IInv, NEW id \in Indices, NEW v \in Values, list_set(id, v)
  PROVE  Abstract!Set(id, v)
<1>1. idle /\ idle'
  BY DEF list_set, NoChange, idle
<1>2. PICK p : Chain(p)
  BY DEF IInv
<1>3. Chain(p)' /\ IInv' /\ Types
  BY <1>2, SetKeeps DEF IInv
<1>4. Shows(p) /\ Shows(p)'
  BY <1>2, <1>3, ContentsShown, ContentsShownNext DEF ChainShows
<1>5. CASE InRange(id)
  <2> DEFINE l == Resolved(id) + 1
  <2>1. /\ value' = [value EXCEPT ![Hop[Resolved(id)]] = v] /\ len' = len
        /\ reply' = [cmd |-> <<"lset", id, v>>, vals |-> <<>>, n |-> 0]
    BY <1>5 DEF list_set, Answer
  <2>2. l \in 1 .. len /\ Hop[Resolved(id)] = p[l]
    BY <1>2, <1>3, <1>5, IndexedNode
  <2>3. /\ \A i, j \in 1 .. len : p[i] = p[j] => i = j
        /\ value \in [Nodes -> Values \cup {NULL}] /\ p \in [1 .. len -> Nodes]
    BY <1>2, <1>3, ChainFacts DEF Types
  <2> HIDE DEF l
  <2>4. \A i \in 1 .. len : value'[p[i]] = IF i = l THEN v ELSE value[p[i]]
    BY <2>1, <2>2, <2>3
  <2>5. Contents' = [Contents EXCEPT ![l] = v]
    BY <1>4, <2>1, <2>2, <2>4 DEF Shows
  <2>6. Abstract!Place(Contents, id) = l /\ Abstract!Place(Contents, id) \in DOMAIN Contents
    BY <1>5, PlaceOfIndex DEF l
  <2> QED BY <1>1, <2>1, <2>5, <2>6 DEF Abstract!Set, Abstract!Answer
<1>6. CASE ~InRange(id)
  <2>1. UNCHANGED list /\ reply' = [cmd |-> <<"lset", id, v>>, vals |-> <<>>, n |-> -2]
    BY <1>6 DEF list_set, OutOfRange, Answer, NoChange
  <2>2. Contents' = Contents
    BY <2>1, SameContents
  <2> QED BY <1>1, <1>6, <2>1, <2>2, PlaceOfIndex
          DEF Abstract!Set, Abstract!Answer, Abstract!OutOfRange
<1> QED BY <1>5, <1>6

\* lpos.
LEMMA PosRefines ==
  ASSUME IInv, NEW v \in Values, list_pos(v)
  PROVE  Abstract!Pos(v)
<1>1. idle /\ idle' /\ Contents' = Contents
  BY SameContents DEF list_pos, NoChange, idle
<1>2. PICK p : Chain(p)
  BY DEF IInv
<1>3. Shows(p) /\ Types /\ len <= Cardinality(Nodes)
  BY <1>2, ContentsShown, ChainFits DEF ChainShows, IInv
<1> DEFINE A == {i \in 0 .. Cardinality(Nodes) : Hop[i] # NULL /\ value[Hop[i]] = v}
           B == {i \in DOMAIN Contents : Contents[i] = v}
<1>4. /\ \A i \in Nat : Hop[i] = IF i < len THEN p[i + 1] ELSE NULL
      /\ \A i \in 1 .. len : p[i] # NULL
      /\ len \in Nat /\ Cardinality(Nodes) \in Nat
  <2>1. /\ len \in Nat /\ NULL \notin Nodes
        /\ \A i \in 1 .. len : p[i] \in allocated
    BY <1>2, <1>3, ChainFacts
  <2>2. \A i \in 1 .. len : p[i] # NULL
    BY <1>3, <2>1 DEF Types
  <2>3. \A i \in Nat : Hop[i] = IF i < len THEN p[i + 1] ELSE NULL
    BY <1>2, <1>3, HopAlong
  <2> QED BY <2>1, <2>2, <2>3, FS_CardinalityType, ListAssumption
<1>5. DOMAIN Contents = 1 .. len /\ \A i \in 1 .. len : Contents[i] = value[p[i]]
  BY <1>3 DEF Shows
<1>6. ASSUME NEW i \in A  PROVE i + 1 \in B
  <2>1. i \in Nat /\ i < len /\ Hop[i] = p[i + 1]
    BY <1>4, <1>6
  <2>2. i + 1 \in 1 .. len
    BY <1>4, <2>1
  <2> QED BY <1>5, <1>6, <2>1, <2>2
<1>7. ASSUME NEW i \in B  PROVE i - 1 \in A
  <2>1. i \in 1 .. len /\ value[p[i]] = v
    BY <1>5, <1>7
  <2>2. i - 1 \in 0 .. Cardinality(Nodes) /\ Hop[i - 1] = p[i]
    BY <1>3, <1>4, <2>1
  <2> QED BY <1>4, <2>1, <2>2
<1>8. A \subseteq Nat /\ B \subseteq Nat
  BY <1>4, <1>5
<1> HIDE DEF A, B
<1>9. reply' = [cmd |-> <<"lpos", v>>, vals |-> <<>>,
                n |-> IF A = {} THEN -1 ELSE CHOOSE i \in A : \A j \in A : i <= j]
  BY DEF list_pos, Answer, A
<1>10. Abstract!IndexOf(Contents, v)
         = IF B = {} THEN -1 ELSE (CHOOSE i \in B : \A j \in B : i <= j) - 1
  BY DEF Abstract!IndexOf, Abstract!Min, B
<1>11. (IF A = {} THEN -1 ELSE CHOOSE i \in A : \A j \in A : i <= j)
         = IF B = {} THEN -1 ELSE (CHOOSE i \in B : \A j \in B : i <= j) - 1
  <2>1. CASE A = {}
    BY <1>7, <2>1
  <2>2. CASE A # {}
    <3>1. PICK a \in A : a = CHOOSE i \in A : \A j \in A : i <= j
      BY <1>8, <2>2, LeastExists
    <3>2. \A j \in A : a <= j
      BY <1>8, <2>2, <3>1, LeastExists
    <3>3. B # {}
      BY <1>6, <2>2
    <3>4. PICK b \in B : b = CHOOSE i \in B : \A j \in B : i <= j
      BY <1>8, <3>3, LeastExists
    <3>5. \A j \in B : b <= j
      BY <1>8, <3>3, <3>4, LeastExists
    <3>6. b <= a + 1 /\ a <= b - 1
      BY <1>6, <1>7, <3>2, <3>5
    <3>7. a = b - 1
      BY <1>8, <3>6
    <3> QED BY <2>2, <3>1, <3>3, <3>4, <3>7
  <2> QED BY <2>1, <2>2
<1>12. Abstract!IndexOf(Contents, v) = IF A = {} THEN -1 ELSE CHOOSE i \in A : \A j \in A : i <= j
  BY <1>10, <1>11
<1> QED BY <1>1, <1>9, <1>12 DEF Abstract!Pos, Abstract!Answer

-----------------------------------------------------------------------------
(* Removals, as the client sees them *)

\* The walk from "pos" has been at place j before it is at c.
Passed(pos, c, j) == IF pos >= 0 THEN j < c ELSE j > c

\* A removal is at place c of the m strings it began with. The places "kept"
\* are those it has not removed, and the chain p holds their strings in order.
Standing(p, m, kept, c) ==
  /\ m \in Nat /\ m = Len(before) /\ kept \in SUBSET (1 .. m) /\ c \in 0 .. m + 1
  /\ \A j \in 1 .. m : j \in kept <=> ~(before[j] = rem.value /\ Passed(rem.pos, c, j))
  /\ Cardinality(kept) = len
  /\ \A j \in kept : value[p[Rank(kept, j)]] = before[j]
  /\ rem.cur = IF c \in 1 .. m THEN p[Rank(kept, c)] ELSE NULL
  /\ IF rem.pos >= 0 THEN c # 0 ELSE c # m + 1
  /\ rem.i = m - len
  /\ rem.count = IF rem.pos >= 0 THEN rem.pos - rem.i ELSE rem.pos + rem.i
  /\ rem.pos > 0 => rem.count >= 0
  /\ rem.pos < 0 => rem.count <= 0

Halfway ==
  rem # NULL =>
    /\ reply = NoAnswer /\ before \in Seq(Values)
    /\ \E p, m, kept, c : Chain(p) /\ Standing(p, m, kept, c)

\* A removal begins at the first place or the last.
LEMMA BeginStands ==
  ASSUME IInv, NEW count \in Counts, NEW v \in Values, list_rem(count, v)
  PROVE  Halfway' /\ idle /\ before' = Contents /\ reply' = NoAnswer /\ rem' # NULL
<1>1. PICK p : Chain(p)
  BY DEF IInv
<1>2. Types /\ Shows(p) /\ IInv'
  BY <1>1, ContentsShown, RemBeginKeeps DEF IInv, ChainShows
<1>3. PICK m : m = len
  OBVIOUS
<1>4. PICK c : c = IF count >= 0 THEN 1 ELSE m
  OBVIOUS
<1>5. idle /\ UNCHANGED list /\ before' = Contents /\ reply' = NoAnswer
  BY DEF list_rem
<1>6. PICK x : x = IF count >= 0 THEN head ELSE tail
  OBVIOUS
<1>7. rem' = [value |-> v, i |-> 0, pos |-> count, count |-> count, cur |-> x]
  BY <1>6 DEF list_rem
<1>8. rem' # NULL
  <2>1. x \in Ptr
    BY <1>2, <1>6 DEF Types
  <2>2. rem' \in Removal
    BY <1>7, <2>1, ListAssumption DEF Removal
  <2> QED BY <2>2, NullAssumption
<1>9. Chain(p)'
  BY <1>1, <1>5 DEF Chain, list
<1>10. /\ len \in Nat /\ count \in Int
       /\ len = 0 => head = NULL /\ tail = NULL
       /\ len # 0 => head = p[1] /\ tail = p[len]
  BY <1>1, <1>2, ChainFacts, ListAssumption
<1>11. \A j \in 0 .. m : Rank(1 .. m, j) = j
  BY <1>3, <1>10, RankAll
<1>12. Cardinality(1 .. m) = m
  BY <1>3, <1>10, FS_Interval
<1>13. PICK kept : kept = 1 .. m
  OBVIOUS
<1>14. /\ len' = m /\ m \in Nat /\ value' = value /\ before' \in Seq(Values) /\ Len(before') = m
       /\ \A j \in 1 .. m : before'[j] = value[p[j]]
  BY <1>2, <1>3, <1>5 DEF Shows, list
<1>15. /\ rem'.value = v /\ rem'.i = 0 /\ rem'.pos = count /\ rem'.count = count /\ rem'.cur = x
  BY <1>7
<1>16. c \in 0 .. m + 1 /\ (IF count >= 0 THEN c # 0 ELSE c # m + 1)
  BY <1>4, <1>10, <1>14
<1>17. \A j \in 1 .. m : j \in kept <=> ~(before'[j] = v /\ Passed(count, c, j))
  BY <1>4, <1>10, <1>13, <1>14 DEF Passed
<1>18. \A j \in kept : value'[p[Rank(kept, j)]] = before'[j]
  <2> TAKE j \in kept
  <2>1. j \in 1 .. m /\ Rank(kept, j) = j
    BY <1>11, <1>13
  <2> QED BY <1>14, <2>1
<1>19. x = IF c \in 1 .. m THEN p[Rank(kept, c)] ELSE NULL
  <2>1. c \in 1 .. m => Rank(kept, c) = c
    BY <1>11, <1>13
  <2> QED BY <1>3, <1>4, <1>6, <1>10, <2>1
<1>20. Cardinality(kept) = m
  BY <1>12, <1>13
<1>21. kept \in SUBSET (1 .. m)
  BY <1>13
<1>22. Standing(p, m, kept, c)'
  BY <1>10, <1>14, <1>15, <1>16, <1>17, <1>18, <1>19, <1>20, <1>21 DEF Standing
<1> QED BY <1>5, <1>8, <1>9, <1>14, <1>22 DEF Halfway

\* Where a removal stands, there is a node, unless it is past the end.
LEMMA StandsOn ==
  ASSUME IInv, NEW p, Chain(p), NEW m, NEW kept, NEW c, Standing(p, m, kept, c), rem # NULL
  PROVE  /\ rem.cur = NULL <=> c \notin 1 .. m
         /\ c \in 1 .. m => /\ c \in kept /\ Rank(kept, c) \in 1 .. len
                            /\ rem.cur = p[Rank(kept, c)] /\ value[rem.cur] = before[c]
<1>1. /\ p \in [1 .. len -> Nodes] /\ NULL \notin Nodes
  BY ChainFacts DEF IInv
<1>2. m \in Nat /\ kept \in SUBSET (1 .. m) /\ Cardinality(kept) = len
  BY DEF Standing
<1>3. ASSUME c \in 1 .. m
      PROVE  /\ c \in kept /\ Rank(kept, c) \in 1 .. len
             /\ rem.cur = p[Rank(kept, c)] /\ value[rem.cur] = before[c]
  <2>1. c \in kept
    BY <1>3 DEF Standing, Passed
  <2>2. Rank(kept, c) \in 1 .. len
    BY <1>2, <2>1, RankNeighbours
  <2> QED BY <1>3, <2>1, <2>2 DEF Standing
<1>4. c \notin 1 .. m => rem.cur = NULL
  BY DEF Standing
<1> QED BY <1>1, <1>3, <1>4

\* The neighbours of the place where a removal stands are the neighbours of
\* its node.
LEMMA Neighbours ==
  ASSUME IInv, NEW p, Chain(p), NEW m, NEW kept, NEW c, Standing(p, m, kept, c), rem # NULL,
         c \in 1 .. m, NEW k, k = Rank(kept, c)
  PROVE  /\ rem.pos >= 0 => /\ next[p[k]] = IF c + 1 \in 1 .. m THEN p[k + 1] ELSE NULL
                            /\ c + 1 \in 1 .. m => c + 1 \in kept /\ Rank(kept, c + 1) = k + 1
         /\ rem.pos < 0 => /\ prev[p[k]] = IF c - 1 \in 1 .. m THEN p[k - 1] ELSE NULL
                           /\ c - 1 \in 1 .. m => c - 1 \in kept /\ Rank(kept, c - 1) = k - 1
<1>1. /\ \A i \in 1 .. len : next[p[i]] = IF i = len THEN NULL ELSE p[i + 1]
      /\ \A i \in 1 .. len : prev[p[i]] = IF i = 1 THEN NULL ELSE p[i - 1]
  BY ChainFacts DEF IInv
<1>2. m \in Nat /\ kept \in SUBSET (1 .. m) /\ Cardinality(kept) = len /\ rem.pos \in Int
  BY ListAssumption DEF Standing, IInv, Types, Removal
<1>3. c \in kept /\ k \in 1 .. len
  BY StandsOn
<1>4. /\ c = m => k = len
      /\ c = 1 => k = 1
      /\ c + 1 \in kept => Rank(kept, c + 1) = k + 1 /\ k # len
      /\ c - 1 \in kept => Rank(kept, c - 1) = k - 1 /\ k # 1
  <2>1. /\ c = m => Rank(kept, c) = Cardinality(kept)
        /\ c = 1 => Rank(kept, c) = 1
        /\ c + 1 \in kept => Rank(kept, c + 1) = Rank(kept, c) + 1 /\ Rank(kept, c) # Cardinality(kept)
        /\ c - 1 \in kept => Rank(kept, c - 1) = Rank(kept, c) - 1 /\ Rank(kept, c) # 1
    BY <1>2, <1>3, RankNeighbours
  <2>2. k = Rank(kept, c) /\ Cardinality(kept) = len
    BY <1>2
  <2> QED BY <2>1, <2>2, Zenon
<1>5. rem.pos >= 0 /\ c + 1 \in 1 .. m => c + 1 \in kept
  BY DEF Standing, Passed
<1>6. rem.pos < 0 /\ c - 1 \in 1 .. m => c - 1 \in kept
  BY <1>2 DEF Standing, Passed
<1>7. (c + 1 \notin 1 .. m => c = m) /\ (c - 1 \notin 1 .. m => c = 1)
  BY <1>2
<1> QED BY <1>1, <1>2, <1>3, <1>4, <1>5, <1>6, <1>7

\* A removal passes a string that stays.
LEMMA SkipStands ==
  ASSUME IInv, Halfway, RemSkip
  PROVE  Halfway' /\ rem # NULL /\ rem' # NULL /\ UNCHANGED <<list, before, reply>>
<1>1. /\ rem # NULL /\ rem.cur # NULL /\ value[rem.cur] # rem.value
      /\ rem' = [rem EXCEPT !.cur = Onwards(next, prev)]
      /\ UNCHANGED <<list, before, reply>>
  BY DEF RemSkip, idle, RemEnds
<1>2. PICK p, m, kept, c : Chain(p) /\ Standing(p, m, kept, c)
  BY <1>1 DEF Halfway
<1>3. PICK k : k = Rank(kept, c)
  OBVIOUS
<1>4. c \in 1 .. m /\ c \in kept /\ k \in 1 .. len /\ rem.cur = p[k] /\ before[c] # rem.value
  BY <1>1, <1>2, <1>3, StandsOn
<1>5. PICK d : d = IF rem.pos >= 0 THEN c + 1 ELSE c - 1
  OBVIOUS
<1>6. PICK x : x = Onwards(next, prev)
  OBVIOUS
<1>7. x = IF d \in 1 .. m THEN p[Rank(kept, d)] ELSE NULL
  <2>1. x = IF rem.pos >= 0 THEN next[p[k]] ELSE prev[p[k]]
    BY <1>4, <1>6 DEF Onwards
  <2>2. rem.pos \in Int
    BY <1>1, ListAssumption DEF IInv, Types, Removal
  <2>3. CASE rem.pos >= 0
    BY <1>1, <1>2, <1>3, <1>4, <1>5, <2>1, <2>3, Neighbours
  <2>4. CASE rem.pos < 0
    BY <1>1, <1>2, <1>3, <1>4, <1>5, <2>1, <2>2, <2>4, Neighbours
  <2> QED BY <2>2, <2>3, <2>4
<1>8. /\ rem \in Removal /\ rem' = [rem EXCEPT !.cur = x]
      /\ rem'.value = rem.value /\ rem'.i = rem.i /\ rem'.pos = rem.pos
      /\ rem'.count = rem.count /\ rem'.cur = x
  BY <1>1, <1>6 DEF IInv, Types, Removal
<1>9. rem' # NULL
  <2>1. p[k] \in Nodes /\ next \in [Nodes -> Ptr] /\ prev \in [Nodes -> Ptr]
    BY <1>2, <1>4 DEF IInv, Types, Chain, Linked
  <2>2. x \in Ptr
    BY <1>4, <1>6, <2>1 DEF Onwards
  <2>3. rem' \in Removal
    BY <1>8, <2>2 DEF Removal
  <2> QED BY <2>3, NullAssumption
<1>10. UNCHANGED <<len, value, before>> /\ Chain(p)'
  BY <1>1, <1>2 DEF list, Chain
<1>11. m \in Nat /\ c \in 1 .. m
  BY <1>2, <1>4 DEF Standing
<1>12. d \in 0 .. m + 1 /\ (IF rem.pos >= 0 THEN d # 0 ELSE d # m + 1)
  BY <1>5, <1>11
<1>13. \A j \in 1 .. m : j \in kept <=> ~(before[j] = rem.value /\ Passed(rem.pos, d, j))
  <2>1. \A j \in 1 .. m : Passed(rem.pos, d, j) <=> Passed(rem.pos, c, j) \/ j = c
    BY <1>5, <1>11 DEF Passed
  <2>2. \A j \in 1 .. m : j \in kept <=> ~(before[j] = rem.value /\ Passed(rem.pos, c, j))
    BY <1>2 DEF Standing
  <2> QED BY <1>4, <2>1, <2>2
<1>14. Standing(p, m, kept, d)'
  <2>1. /\ m \in Nat /\ m = Len(before) /\ kept \in SUBSET (1 .. m)
        /\ Cardinality(kept) = len /\ \A j \in kept : value[p[Rank(kept, j)]] = before[j]
        /\ rem.i = m - len
        /\ rem.count = IF rem.pos >= 0 THEN rem.pos - rem.i ELSE rem.pos + rem.i
        /\ (rem.pos > 0 => rem.count >= 0) /\ (rem.pos < 0 => rem.count <= 0)
    BY <1>2 DEF Standing
  <2> QED BY <1>7, <1>8, <1>10, <1>12, <1>13, <2>1 DEF Standing
<1> QED BY <1>1, <1>9, <1>10, <1>14 DEF Halfway

\* A removal takes a node out.
LEMMA DeleteStands ==
  ASSUME IInv, Halfway, RemDelete
  PROVE  Halfway' /\ rem # NULL /\ rem' # NULL /\ UNCHANGED <<before, reply>>
<1>1. /\ rem # NULL /\ rem.cur # NULL /\ value[rem.cur] = rem.value
      /\ ~(rem.pos # 0 /\ rem.count = 0) /\ UNCHANGED <<before, reply>>
  BY DEF RemDelete, idle, RemEnds
<1>2. PICK p, m, kept, c : Chain(p) /\ Standing(p, m, kept, c)
  BY <1>1 DEF Halfway
<1>3. PICK k : k = Rank(kept, c)
  OBVIOUS
<1>4. c \in 1 .. m /\ c \in kept /\ k \in 1 .. len /\ rem.cur = p[k] /\ before[c] = rem.value
  BY <1>1, <1>2, <1>3, StandsOn
<1>5. PICK d : d = IF rem.pos >= 0 THEN c + 1 ELSE c - 1
  OBVIOUS
<1>6. PICK x : x = IF rem.pos >= 0 THEN next[p[k]] ELSE prev[p[k]]
  OBVIOUS
<1>7. PICK n : n = IF rem.pos >= 0 THEN rem.count - 1 ELSE rem.count + 1
  OBVIOUS
<1>8. /\ IInv' /\ value' = [value EXCEPT ![p[k]] = NULL] /\ len' = len - 1
      /\ \E q : q = Drop(p, len, k) /\ Chain(q)'
      /\ rem' = [value |-> rem.value, i |-> rem.i + 1, pos |-> rem.pos, count |-> n, cur |-> x]
  BY <1>2, <1>4, <1>6, <1>7, DeleteKeeps
<1>9. PICK q : q = Drop(p, len, k) /\ Chain(q)'
  BY <1>8
<1>10. /\ rem'.value = rem.value /\ rem'.i = rem.i + 1 /\ rem'.pos = rem.pos
       /\ rem'.count = n /\ rem'.cur = x
  BY <1>8
<1>11. rem.i \in Nat /\ rem.pos \in Int /\ rem.count \in Int /\ rem.value \in Values
  BY <1>1, ListAssumption DEF IInv, Types, Removal
<1>12. rem' # NULL
  <2>1. x \in Ptr
    BY <1>4, <1>6, <1>2 DEF IInv, Types, Chain, Linked
  <2>2. n \in Int /\ rem.pos \in Counts
    BY <1>1, <1>7, <1>11 DEF IInv, Types, Removal
  <2>3. rem' \in Removal
    BY <1>8, <1>11, <2>1, <2>2 DEF Removal
  <2> QED BY <2>3, NullAssumption
<1>13. PICK left : left = kept \ {c}
  OBVIOUS
<1>14. /\ m \in Nat /\ m = Len(before) /\ kept \in SUBSET (1 .. m) /\ Cardinality(kept) = len
       /\ \A j \in kept : value[p[Rank(kept, j)]] = before[j]
       /\ rem.i = m - len /\ len \in Nat
       /\ rem.count = IF rem.pos >= 0 THEN rem.pos - rem.i ELSE rem.pos + rem.i
       /\ (rem.pos > 0 => rem.count >= 0) /\ (rem.pos < 0 => rem.count <= 0)
  BY <1>2 DEF Standing, IInv, Types
<1>15. left \in SUBSET (1 .. m) /\ Cardinality(left) = len - 1
  <2>1. IsFiniteSet(kept)
    BY <1>14, RankStep, 0 \in Nat
  <2>2. Cardinality(kept \ {c}) = Cardinality(kept) - 1
    BY <1>4, <2>1, FS_RemoveElement
  <2> QED BY <1>13, <1>14, <2>2
<1>16. \A j \in left : Rank(left, j) = IF j < c THEN Rank(kept, j) ELSE Rank(kept, j) - 1
  <2>1. \A j \in kept \ {c} : Rank(kept \ {c}, j) = IF j < c THEN Rank(kept, j) ELSE Rank(kept, j) - 1
    BY <1>4, <1>14, RankWithout
  <2> QED BY <1>13, <2>1
<1>17. \A j \in left : /\ j < c => Rank(kept, j) \in 1 .. len /\ Rank(kept, j) < k
                       /\ ~(j < c) => Rank(kept, j) \in 1 .. len /\ Rank(kept, j) > k
  <2> TAKE j \in left
  <2>1. j \in kept /\ j # c /\ j \in Nat /\ c \in Nat
    BY <1>4, <1>13, <1>14
  <2>2. Rank(kept, j) \in 1 .. len
    BY <1>14, <2>1, RankNeighbours
  <2>3. j < c => Rank(kept, j) < Rank(kept, c)
    BY <1>4, <1>14, <2>1, RankGrows
  <2>4. c < j => Rank(kept, c) < Rank(kept, j)
    BY <1>14, <2>1, RankGrows
  <2> QED BY <1>3, <1>4, <2>1, <2>2, <2>3, <2>4
<1>18. /\ p \in [1 .. len -> Nodes] /\ \A i, j \in 1 .. len : p[i] = p[j] => i = j
       /\ value \in [Nodes -> Values \cup {NULL}]
  BY <1>2, ChainFacts DEF IInv, Types
<1>19. /\ \A i \in 1 .. len : i < k => q[i] = p[i]
       /\ \A i \in 1 .. len : i > k => q[i - 1] = p[i]
  BY <1>4, <1>9, <1>14 DEF Drop
<1>20. \A i \in 1 .. len : i # k => value'[p[i]] = value[p[i]]
  BY <1>4, <1>8, <1>18
<1>21. \A j \in left : q[Rank(left, j)] = p[Rank(kept, j)]
  BY <1>16, <1>17, <1>19
<1>22. \A j \in left : value'[q[Rank(left, j)]] = before[j]
  <2> TAKE j \in left
  <2>1. j \in kept /\ Rank(kept, j) \in 1 .. len /\ Rank(kept, j) # k
    BY <1>4, <1>13, <1>17
  <2>2. value'[p[Rank(kept, j)]] = value[p[Rank(kept, j)]]
    BY <1>20, <2>1
  <2> QED BY <1>14, <1>21, <2>1, <2>2
<1>23. d \in 0 .. m + 1 /\ (IF rem.pos >= 0 THEN d # 0 ELSE d # m + 1)
  BY <1>4, <1>5, <1>14
<1>24. x = IF d \in 1 .. m THEN q[Rank(left, d)] ELSE NULL
  <2>1. CASE rem.pos >= 0
    <3>1. next[p[k]] = IF c + 1 \in 1 .. m THEN p[k + 1] ELSE NULL
      BY <1>1, <1>2, <1>3, <1>4, <2>1, Neighbours
    <3>2. c + 1 \in 1 .. m => c + 1 \in left /\ Rank(kept, c + 1) = k + 1
      BY <1>1, <1>2, <1>3, <1>4, <1>13, <2>1, Neighbours
    <3> QED BY <1>5, <1>6, <1>21, <2>1, <3>1, <3>2
  <2>2. CASE rem.pos < 0
    <3>1. prev[p[k]] = IF c - 1 \in 1 .. m THEN p[k - 1] ELSE NULL
      BY <1>1, <1>2, <1>3, <1>4, <2>2, Neighbours
    <3>2. c - 1 \in 1 .. m => c - 1 \in left /\ Rank(kept, c - 1) = k - 1
      BY <1>1, <1>2, <1>3, <1>4, <1>13, <2>2, Neighbours
    <3> QED BY <1>5, <1>6, <1>11, <1>21, <2>2, <3>1, <3>2
  <2> QED BY <1>11, <2>1, <2>2
<1>25. \A j \in 1 .. m : j \in left <=> ~(before[j] = rem.value /\ Passed(rem.pos, d, j))
  <2>1. \A j \in 1 .. m : Passed(rem.pos, d, j) <=> Passed(rem.pos, c, j) \/ j = c
    BY <1>4, <1>5, <1>14 DEF Passed
  <2>2. \A j \in 1 .. m : j \in kept <=> ~(before[j] = rem.value /\ Passed(rem.pos, c, j))
    BY <1>2 DEF Standing
  <2> QED BY <1>4, <1>13, <2>1, <2>2
<1>26. /\ rem.i + 1 = m - (len - 1)
       /\ n = IF rem.pos >= 0 THEN rem.pos - (rem.i + 1) ELSE rem.pos + (rem.i + 1)
       /\ rem.pos > 0 => n >= 0
       /\ rem.pos < 0 => n <= 0
  BY <1>1, <1>7, <1>11, <1>14
<1>27. Standing(q, m, left, d)'
  BY <1>1, <1>8, <1>10, <1>14, <1>15, <1>22, <1>23, <1>24, <1>25, <1>26 DEF Standing
<1> QED BY <1>1, <1>9, <1>12, <1>27 DEF Halfway

\* When a removal returns, the places it did not keep are those that are to go.
LEMMA RemovedTheRightOnes ==
  ASSUME IInv, NEW p, Chain(p), NEW m, NEW kept, NEW c, Standing(p, m, kept, c), rem # NULL,
         before \in Seq(Values), RemEnds
  PROVE  (1 .. m) \ kept = Doomed(before, rem.pos, rem.value) /\ DOMAIN before = 1 .. m
<1> DEFINE all == {i \in DOMAIN before : before[i] = rem.value}
           gone == (1 .. m) \ kept
<1>1. /\ m \in Nat /\ m = Len(before) /\ kept \in SUBSET (1 .. m) /\ Cardinality(kept) = len
      /\ c \in 0 .. m + 1 /\ len \in Nat /\ rem.i = m - len
      /\ rem.count = IF rem.pos >= 0 THEN rem.pos - rem.i ELSE rem.pos + rem.i
      /\ (rem.pos > 0 => rem.count >= 0) /\ (rem.pos < 0 => rem.count <= 0)
      /\ IF rem.pos >= 0 THEN c # 0 ELSE c # m + 1
      /\ rem.pos \in Int
  BY ListAssumption DEF Standing, IInv, Types, Removal
<1>2. DOMAIN before = 1 .. m
  BY <1>1
<1>3. Cardinality(gone) = rem.i
  BY <1>1, Others
<1>4. \A j \in 1 .. m : j \in kept <=> ~(before[j] = rem.value /\ Passed(rem.pos, c, j))
  BY DEF Standing
<1>5. all \in SUBSET (1 .. m)
  BY <1>2
<1>6. \A j : j \in gone <=> j \in all /\ Passed(rem.pos, c, j)
  BY <1>2, <1>4
<1>7. (rem.pos # 0 /\ rem.count = 0) \/ c \notin 1 .. m
  BY StandsOn DEF RemEnds
<1>8. c \notin 1 .. m => \A j \in 1 .. m : Passed(rem.pos, c, j)
  BY <1>1 DEF Passed
<1> HIDE DEF all, gone
<1>9. c \notin 1 .. m => gone = all
  BY <1>5, <1>6, <1>8
<1>10. Doomed(before, rem.pos, rem.value)
         = CASE rem.pos = 0 -> all
             [] rem.pos > 0 -> FirstOnes(all, rem.pos)
             [] rem.pos < 0 -> LastOnes(all, -rem.pos)
  BY DEF Doomed, all, FirstOnes, LastOnes
<1>11. CASE rem.pos = 0
  BY <1>2, <1>7, <1>9, <1>10, <1>11 DEF gone
<1>12. CASE rem.pos > 0
  <2>1. gone = Under(all, c)
    BY <1>1, <1>6, <1>12 DEF Under, Passed
  <2>2. Cardinality(gone) <= rem.pos /\ (Cardinality(gone) = rem.pos \/ gone = all)
    BY <1>1, <1>3, <1>7, <1>9, <1>12
  <2>3. rem.pos \in Nat /\ c \in Int
    BY <1>1, <1>12
  <2>4. Under(all, c) = FirstOnes(all, rem.pos)
    <3>1. Cardinality(Under(all, c)) <= rem.pos
      BY <2>1, <2>2
    <3>2. Cardinality(Under(all, c)) = rem.pos \/ Under(all, c) = all
      BY <2>1, <2>2
    <3> QED BY <1>1, <1>5, <2>3, <3>1, <3>2, TheFirst
  <2>5. Doomed(before, rem.pos, rem.value) = FirstOnes(all, rem.pos)
    BY <1>1, <1>10, <1>12
  <2> QED BY <1>2, <2>1, <2>4, <2>5, Zenon DEF gone
<1>13. CASE rem.pos < 0
  <2>1. gone = Over(all, c)
    BY <1>1, <1>6, <1>13 DEF Over, Passed
  <2>2. Cardinality(gone) <= -rem.pos /\ (Cardinality(gone) = -rem.pos \/ gone = all)
    BY <1>1, <1>3, <1>7, <1>9, <1>13
  <2>3. -rem.pos \in Nat /\ c \in Int
    BY <1>1, <1>13
  <2>4. Over(all, c) = LastOnes(all, -rem.pos)
    <3>1. Cardinality(Over(all, c)) <= -rem.pos
      BY <2>1, <2>2
    <3>2. Cardinality(Over(all, c)) = -rem.pos \/ Over(all, c) = all
      BY <2>1, <2>2
    <3> QED BY <1>1, <1>5, <2>3, <3>1, <3>2, TheLast
  <2>5. Doomed(before, rem.pos, rem.value) = LastOnes(all, -rem.pos)
    BY <1>1, <1>10, <1>13
  <2> QED BY <1>2, <2>1, <2>4, <2>5, Zenon DEF gone
<1> QED BY <1>1, <1>11, <1>12, <1>13

\* The specification of a list counts as the list does.
LEMMA SameCardinality == \A S : Abstract!Cardinality(S) = Cardinality(S)
BY DEF Abstract!Cardinality, Cardinality

\* A removal returns with what a list without those strings contains.
LEMMA ReturnRefines ==
  ASSUME IInv, Halfway, RemReturn
  PROVE  \E count \in Counts, v \in Values : Abstract!Rem(count, v)
<1>1. rem # NULL /\ RemEnds /\ rem' = NULL /\ UNCHANGED list
  BY DEF RemReturn, idle
<1>2. reply' = [cmd |-> <<"lrem", rem.pos, rem.value>>, vals |-> <<>>, n |-> rem.i]
  BY DEF RemReturn, Answer
<1>3. PICK p, m, kept, c : Chain(p) /\ Standing(p, m, kept, c)
  BY <1>1 DEF Halfway
<1>4. Shows(p) /\ Contents' = Contents /\ before \in Seq(Values)
  BY <1>1, <1>3, ContentsShown, SameContents DEF ChainShows, Halfway
<1>5. /\ m \in Nat /\ kept \in SUBSET (1 .. m) /\ Cardinality(kept) = len
      /\ \A j \in kept : value[p[Rank(kept, j)]] = before[j]
      /\ rem.i = m - len /\ rem.pos \in Counts /\ rem.value \in Values
  BY <1>1, <1>3 DEF Standing, IInv, Types, Removal
<1> DEFINE doomed == Doomed(before, rem.pos, rem.value)
<1>6. (1 .. m) \ kept = doomed /\ DOMAIN before = 1 .. m
  BY <1>1, <1>3, <1>4, RemovedTheRightOnes
<1>7. Cardinality(doomed) = rem.i
  <2>1. Cardinality((1 .. m) \ kept) = rem.i
    BY <1>5, Others
  <2> HIDE DEF doomed
  <2> QED BY <1>6, <2>1, Zenon
<1>8. DOMAIN before \ doomed = kept
  BY <1>5, <1>6
<1>9. Without(before, rem.pos, rem.value) = [i \in 1 .. Cardinality(kept) |-> before[Nth(kept, i)]]
  <2> DEFINE w == DOMAIN before \ doomed
  <2>1. Without(before, rem.pos, rem.value) = [i \in 1 .. Cardinality(w) |-> before[Nth(w, i)]]
    BY DEF Without
  <2>2. w = kept
    BY <1>8
  <2> HIDE DEF w
  <2> QED BY <2>1, <2>2
<1>10. \A i \in 1 .. len : value[p[i]] = before[Nth(kept, i)]
  <2> TAKE i \in 1 .. len
  <2>1. Nth(kept, i) \in kept /\ Rank(kept, Nth(kept, i)) = i
    BY <1>5, NthExists
  <2> QED BY <1>5, <2>1
<1>11. Contents = Without(before, rem.pos, rem.value)
  BY <1>4, <1>5, <1>9, <1>10 DEF Shows
<1>12. /\ Abstract!Without(before, rem.pos, rem.value) = Without(before, rem.pos, rem.value)
       /\ Abstract!Doomed(before, rem.pos, rem.value) = doomed
  <2>1. \A t, n, v : Abstract!Doomed(t, n, v) = Doomed(t, n, v)
    BY SameCardinality DEF Abstract!Doomed, Doomed
  <2>2. \A S, i : Abstract!Nth(S, i) = Nth(S, i)
    BY SameCardinality DEF Abstract!Nth, Nth
  <2> HIDE DEF doomed
  <2>3. Abstract!Without(before, rem.pos, rem.value) = Without(before, rem.pos, rem.value)
    BY <2>1, <2>2, SameCardinality, Zenon DEF Abstract!Without, Without
  <2> QED BY <2>1, <2>3 DEF doomed
<1> HIDE DEF doomed
<1>13. Abstract!Rem(rem.pos, rem.value)
  <2>1. ~idle /\ idle'
    BY <1>1 DEF idle
  <2>2. (IF idle THEN Contents ELSE before)' = Abstract!Without(before, rem.pos, rem.value)
    BY <1>4, <1>11, <1>12, <2>1
  <2>3. rem.i = Abstract!Cardinality(Abstract!Doomed(before, rem.pos, rem.value))
    BY <1>7, <1>12, SameCardinality
  <2> QED BY <1>2, <2>1, <2>2, <2>3 DEF Abstract!Rem, Abstract!Answer
<1> QED BY <1>5, <1>13

\* No removal is under way before the first command.
LEMMA HalfwayInit == ASSUME Init  PROVE Halfway
BY DEF Init, Halfway

\* Every step of the pointers is a step of the sequence, or none.
LEMMA StepRefines ==
  ASSUME IInv, Halfway, [Next]_vars
  PROVE  Halfway' /\ [Abstract!Next]_(Abstract!vars)
<1>1. ASSUME idle, UNCHANGED rem  PROVE Halfway'
  BY <1>1 DEF idle, Halfway
<1>2. ASSUME NEW v \in Values, list_lpush(v) \/ list_rpush(v) \/ list_pos(v)
      PROVE  Halfway' /\ Abstract!Next
  <2>1. Halfway'
    BY <1>1, <1>2 DEF list_lpush, list_rpush, list_pos, NoChange
  <2>2. Abstract!LPush(v) \/ Abstract!RPush(v) \/ Abstract!Pos(v)
    BY <1>2, LPushRefines, RPushRefines, PosRefines
  <2> QED BY <2>1, <2>2 DEF Abstract!Next
<1>3. ASSUME list_lpop \/ list_rpop  PROVE Halfway' /\ Abstract!Next
  <2>1. Halfway'
    BY <1>1, <1>3 DEF list_lpop, list_rpop
  <2>2. Abstract!LPop \/ Abstract!RPop
    BY <1>3, PopRefines
  <2> QED BY <2>1, <2>2 DEF Abstract!Next
<1>4. ASSUME NEW id \in Indices, list_index(id)  PROVE Halfway' /\ Abstract!Next
  <2>1. Halfway'
    BY <1>1, <1>4 DEF list_index, NoChange
  <2>2. Abstract!Index(id)
    BY <1>4, IndexRefines
  <2> QED BY <2>1, <2>2 DEF Abstract!Next
<1>5. ASSUME NEW id \in Indices, NEW v \in Values, list_set(id, v)  PROVE Halfway' /\ Abstract!Next
  <2>1. Halfway'
    BY <1>1, <1>5 DEF list_set, NoChange
  <2>2. Abstract!Set(id, v)
    BY <1>5, SetRefines
  <2> QED BY <2>1, <2>2 DEF Abstract!Next
<1>6. ASSUME NEW b \in Indices, NEW e \in Indices, list_range(b, e)  PROVE Halfway' /\ Abstract!Next
  <2>1. Halfway'
    BY <1>1, <1>6 DEF list_range, NoChange
  <2>2. Abstract!Slice(b, e)
    BY <1>6, RangeRefines
  <2> QED BY <2>1, <2>2 DEF Abstract!Next
<1>7. ASSUME NEW count \in Counts, NEW v \in Values, list_rem(count, v)
      PROVE  Halfway' /\ Abstract!Next
  <2>1. Halfway' /\ idle /\ before' = Contents /\ reply' = NoAnswer /\ rem' # NULL
    BY <1>7, BeginStands
  <2>2. Abstract!Taken
    BY <2>1 DEF Abstract!Taken, Abstract!NoAnswer, NoAnswer, idle
  <2> QED BY <2>1, <2>2 DEF Abstract!Next
<1>8. ASSUME RemSkip \/ RemDelete  PROVE Halfway' /\ UNCHANGED Abstract!vars
  <2>1. Halfway' /\ rem # NULL /\ rem' # NULL /\ UNCHANGED <<before, reply>>
    BY <1>8, SkipStands, DeleteStands
  <2> QED BY <2>1 DEF Abstract!vars, idle
<1>9. ASSUME RemReturn  PROVE Halfway' /\ Abstract!Next
  <2>1. Halfway'
    BY <1>9 DEF RemReturn, Halfway
  <2>2. \E count \in Counts, v \in Values : Abstract!Rem(count, v)
    BY <1>9, ReturnRefines
  <2> QED BY <2>1, <2>2 DEF Abstract!Next
<1>10. ASSUME UNCHANGED vars  PROVE Halfway' /\ UNCHANGED Abstract!vars
  <2>1. Contents' = Contents
    BY <1>10, SameContents DEF vars
  <2>2. UNCHANGED <<len, head, tail, value, next, prev, allocated, rem, before, reply>>
    BY <1>10 DEF vars, list
  <2>3. \A p, m, kept, c : Chain(p) /\ Standing(p, m, kept, c) => (Chain(p) /\ Standing(p, m, kept, c))'
    BY <2>2 DEF Chain, Standing
  <2>4. Halfway'
    BY <2>2, <2>3 DEF Halfway
  <2> QED BY <1>10, <2>1, <2>4 DEF Abstract!vars, vars, idle
<1> QED BY <1>2, <1>3, <1>4, <1>5, <1>6, <1>7, <1>8, <1>9, <1>10 DEF Next

\* The empty list is the empty sequence.
LEMMA InitRefines == ASSUME Init  PROVE Abstract!Init
<1>1. IInv
  BY ListInit
<1>2. PICK p : Chain(p)
  BY <1>1 DEF IInv
<1>3. Shows(p) /\ len = 0
  BY <1>1, <1>2, ContentsShown DEF ChainShows, Init
<1>4. Contents = <<>>
  BY <1>3, EmptySeq DEF Shows
<1> QED BY <1>4 DEF Init, Abstract!Init, Abstract!NoAnswer, NoAnswer, idle

\* The nodes and pointers of list.c implement a sequence: each command changes
\* the sequence as its specification says and gives that answer, and lrem, which
\* frees one node after the other, takes effect when it returns.
THEOREM ListsAreSequences == Spec => IsSequence
<1>1. Init => IInv /\ Halfway /\ Abstract!Init
  BY ListInit, HalfwayInit, InitRefines
<1>2. IInv /\ Halfway /\ [Next]_vars => IInv' /\ Halfway' /\ [Abstract!Next]_(Abstract!vars)
  BY IInvInductive, StepRefines
<1> QED BY <1>1, <1>2, PTL DEF Spec, IsSequence, Abstract!Spec

-----------------------------------------------------------------------------
(* The end of a removal *)

\* The place of the node that list_rem stands on.
CurPlace == CHOOSE i \in 1 .. len : Hop[i - 1] = rem.cur

\* The nodes that list_rem has yet to look at, that one included.
Ahead == IF rem.cur = NULL THEN 0 ELSE IF rem.pos >= 0 THEN len - CurPlace + 1 ELSE CurPlace

\* Ahead counts from the place of the current node in the chain.
Counted(p, k) ==
  Chain(p) /\ k \in 1 .. len /\ rem.cur = p[k] =>
    Ahead = IF rem.pos >= 0 THEN len - k + 1 ELSE k

AheadCounts == \A p, k : Counted(p, k)

\* A node has one place in the chain.
LEMMA AheadCounted == ASSUME IInv  PROVE AheadCounts
<1> SUFFICES ASSUME NEW p, NEW k, Chain(p), k \in 1 .. len, rem.cur = p[k]
             PROVE  Ahead = IF rem.pos >= 0 THEN len - k + 1 ELSE k
  BY DEF AheadCounts, Counted
<1>1. /\ p \in [1 .. len -> Nodes] /\ NULL \notin Nodes /\ len \in Nat
      /\ \A i, j \in 1 .. len : p[i] = p[j] => i = j
  BY ChainFacts DEF IInv
<1>2. \A i \in 1 .. len : Hop[i - 1] = p[i]
  <2>1. Hop = [i \in Nat |-> IF i < len THEN p[i + 1] ELSE NULL]
    BY HopAlong DEF IInv
  <2>2. \A i \in 1 .. len : i - 1 \in Nat /\ i - 1 < len /\ (i - 1) + 1 = i
    BY <1>1
  <2> QED BY <2>1, <2>2
<1>3. CurPlace = k
  BY <1>1, <1>2 DEF CurPlace
<1>4. rem.cur # NULL
  BY <1>1
<1> QED BY <1>3, <1>4 DEF Ahead

\* And so after a step.
LEMMA AheadCountedNext == IInv' => AheadCounts'
<1>1. IInv => AheadCounts
  BY AheadCounted
<1> QED BY <1>1, PTL

\* A turn of the loop leaves one node less ahead.
LEMMA AheadShrinks ==
  ASSUME IInv, IInv', RemSkip \/ RemDelete
  PROVE  Ahead \in 1 .. len /\ Ahead' = Ahead - 1
<1>1. Types /\ NoUseAfterFree /\ rem # NULL /\ rem.cur # NULL
  BY DEF IInv, RemSkip, RemDelete, idle, RemEnds
<1>2. PICK p : Chain(p)
  BY DEF IInv
<1>3. PICK k \in 1 .. len : rem.cur = p[k]
  BY <1>1, <1>2 DEF NoUseAfterFree, Chain, NodesOf
<1>4. /\ len \in Nat /\ p \in [1 .. len -> Nodes] /\ NULL \notin Nodes
      /\ next[p[k]] = IF k = len THEN NULL ELSE p[k + 1]
      /\ prev[p[k]] = IF k = 1 THEN NULL ELSE p[k - 1]
  BY <1>1, <1>2, <1>3, ChainFacts
<1>5. Ahead = IF rem.pos >= 0 THEN len - k + 1 ELSE k
  BY <1>2, <1>3, AheadCounted DEF AheadCounts, Counted
<1>6. /\ rem'.pos = rem.pos
      /\ rem'.cur = IF rem.pos >= 0 THEN next[p[k]] ELSE prev[p[k]]
      /\ \E q : /\ Chain(q)'
                /\ rem.pos >= 0 /\ k # len =>
                     \E j \in 1 .. len' : q[j] = p[k + 1] /\ len' - j + 1 = len - k
                /\ rem.pos < 0 /\ k # 1 => k - 1 \in 1 .. len' /\ q[k - 1] = p[k - 1]
  <2>1. CASE RemSkip
    <3>1. rem' = [rem EXCEPT !.cur = Onwards(next, prev)] /\ UNCHANGED list
      BY <2>1 DEF RemSkip
    <3>2. rem'.pos = rem.pos /\ rem'.cur = Onwards(next, prev)
      BY <1>1, <3>1 DEF Types, Removal
    <3>3. Chain(p)' /\ len' = len
      BY <1>2, <3>1 DEF Chain, list
    <3>4. k # len => k + 1 \in 1 .. len' /\ len' - (k + 1) + 1 = len - k
      BY <1>4, <3>3
    <3>5. k # 1 => k - 1 \in 1 .. len'
      BY <1>4, <3>3
    <3> QED BY <1>3, <3>2, <3>3, <3>4, <3>5 DEF Onwards
  <2>2. CASE RemDelete
    <3>1. /\ len' = len - 1
          /\ \E q : q = Drop(p, len, k) /\ Chain(q)'
          /\ rem' = [value |-> rem.value, i |-> rem.i + 1, pos |-> rem.pos,
                     count |-> IF rem.pos >= 0 THEN rem.count - 1 ELSE rem.count + 1,
                     cur |-> IF rem.pos >= 0 THEN next[p[k]] ELSE prev[p[k]]]
      BY <1>2, <1>3, <2>2, DeleteKeeps
    <3>2. PICK q : q = Drop(p, len, k) /\ Chain(q)'
      BY <3>1
    <3>3. k # len => k \in 1 .. len' /\ q[k] = p[k + 1] /\ len' - k + 1 = len - k
      BY <1>4, <3>1, <3>2 DEF Drop
    <3>4. k # 1 => k - 1 \in 1 .. len' /\ q[k - 1] = p[k - 1]
      BY <1>4, <3>1, <3>2 DEF Drop
    <3>5. /\ rem'.pos = rem.pos
          /\ rem'.cur = IF rem.pos >= 0 THEN next[p[k]] ELSE prev[p[k]]
      BY <3>1
    <3> QED BY <3>2, <3>3, <3>4, <3>5
  <2> QED BY <2>1, <2>2
<1>7. PICK q : /\ Chain(q)'
               /\ rem.pos >= 0 /\ k # len =>
                    \E j \in 1 .. len' : q[j] = p[k + 1] /\ len' - j + 1 = len - k
               /\ rem.pos < 0 /\ k # 1 => k - 1 \in 1 .. len' /\ q[k - 1] = p[k - 1]
  BY <1>6
<1>8. \A j \in 1 .. len' : rem'.cur = q[j] =>
        Ahead' = IF rem'.pos >= 0 THEN len' - j + 1 ELSE j
  BY <1>7, AheadCountedNext DEF AheadCounts, Counted
<1>9. rem.pos \in Int
  BY <1>1, ListAssumption DEF Types, Removal
<1>10. rem'.cur = NULL => Ahead' = 0
  BY DEF Ahead
<1>11. CASE rem.pos >= 0 /\ k = len
  BY <1>4, <1>5, <1>6, <1>10, <1>11
<1>12. CASE rem.pos >= 0 /\ k # len
  <2>1. PICK j \in 1 .. len' : q[j] = p[k + 1] /\ len' - j + 1 = len - k
    BY <1>7, <1>12
  <2>2. Ahead' = len' - j + 1
    BY <1>4, <1>6, <1>8, <1>12, <2>1
  <2> QED BY <1>4, <1>5, <1>12, <2>1, <2>2
<1>13. CASE rem.pos < 0 /\ k = 1
  BY <1>4, <1>5, <1>6, <1>9, <1>10, <1>13
<1>14. CASE rem.pos < 0 /\ k # 1
  <2>1. Ahead' = k - 1
    BY <1>4, <1>6, <1>7, <1>8, <1>9, <1>14
  <2> QED BY <1>4, <1>5, <1>9, <1>14, <2>1
<1> QED BY <1>9, <1>11, <1>12, <1>13, <1>14

\* The loop of list_rem ends, for every count and from either end: each of its
\* turns, also one that frees a node, leaves one less of the nodes to look at,
\* of which there are at most as many as the list has.
THEOREM RemovalsEnd ==
  Spec => [][RemSkip \/ RemDelete => Ahead \in 1 .. len /\ Ahead' = Ahead - 1]_vars
<1>1. IInv /\ [Next]_vars => [RemSkip \/ RemDelete => Ahead \in 1 .. len /\ Ahead' = Ahead - 1]_vars
  BY IInvInductive, AheadShrinks
<1> QED BY <1>1, Invariance, PTL DEF Spec
=============================================================================
