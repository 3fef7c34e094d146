----------------------------- MODULE BTreeLemmas ------------------------------
(***************************************************************************)
(* What the proofs about BTree rest on: the inductive invariant, and what  *)
(* holds of any file with a search tree, for any ranks: where a search     *)
(* ends, what the change of one entry leaves, and what a split does, up to *)
(* a new root.  The invariant speaks about each node and its children;     *)
(* what holds of whole subtrees is a height and a set of keys for every    *)
(* node that fit these conditions.                                         *)
(***************************************************************************)
EXTENDS BTree, DataLemmas

-----------------------------------------------------------------------------
(* The inductive invariant *)

NodeRecs ==
  [kind : {"node"}, isLeaf : BOOLEAN, keys : Seq(Keys), children : Seq(Locs), parent : Locs \cup {NoLoc}]
Heaps == [Locs -> {Free} \cup DataRecs \cup NodeRecs]

NodesIn(h) == {l \in Locs : h[l].kind = "node"}
DataIn(h) == {l \in Locs : h[l].kind = "data"}

Ascending(s) == \A i, j \in DOMAIN s : i < j => s[i] < s[j]

(* The keys in x belong below child i of a node with these keys.            *)
Between(keys, i, x) == (i > 1 => keys[i - 1] <= x) /\ (i <= Len(keys) => x < keys[i])

(* What a node l says of its child i.  K[l]: the keys in the leaves below l.*)
(* ht[l]: the levels below l.                                               *)
ChildOK(h, l, i, ht, K) ==
  LET c == h[l].children[i]
  IN  /\ c \in NodesIn(h) /\ h[c].parent = l /\ ht[l] = ht[c] + 1 /\ K[c] \subseteq K[l]
      /\ \A x \in K[c] : Between(h[l].keys, i, x)

(* The lists of a node fit each other; it may have a key too many.          *)
ShapeOK(n) ==
  /\ Len(n.children) = Len(n.keys) + (IF n.isLeaf THEN 0 ELSE 1)
  /\ Ascending(n.keys)

(* A node fits its height and its set of keys.                              *)
LeafOK(h, l, ht, K) == ht[l] = 0 /\ K[l] = ToSet(h[l].keys)

InnerOK(h, l, ht, K) ==
  /\ \A i \in DOMAIN h[l].children : ChildOK(h, l, i, ht, K)
  /\ \A x \in K[l] : \E i \in DOMAIN h[l].children : x \in K[h[l].children[i]]
  /\ IsInjective(h[l].children)

NodeOK(h, l, ht, K) ==
  /\ ShapeOK(h[l])
  /\ h[l].isLeaf => LeafOK(h, l, ht, K)
  /\ ~h[l].isLeaf => InnerOK(h, l, ht, K)

(* l is child i of p.                                                       *)
ChildOf(h, l, p, i) ==
  p \in NodesIn(h) /\ ~h[p].isLeaf /\ i \in DOMAIN h[p].children /\ h[p].children[i] = l

(* The file h holds a search tree with root r: every node fits, and every   *)
(* node but the root is a child of the one it has stored as its parent.     *)
Tree(h, r, ht, K) ==
  /\ h \in Heaps /\ ht \in [Locs -> Nat] /\ K \in [Locs -> SUBSET Keys]
  /\ r \in NodesIn(h) /\ h[r].parent = NoLoc
  /\ \A l \in NodesIn(h) : NodeOK(h, l, ht, K) /\ ht[l] <= ht[r]
  /\ \A l \in NodesIn(h) \ {r} : \E i \in Nat : ChildOf(h, l, h[l].parent, i)

(* The least number of children of an inner node.                           *)
LeastKids == Min({2, BRankMin, BRankMax - Half})

(* A node can be written; an inner node has children enough; no leaf is     *)
(* empty.                                                                   *)
KeysFit(h, l) == Len(h[l].keys) < BRankMax
KidsFit(h) == \A l \in NodesIn(h) : ~h[l].isLeaf => Len(h[l].children) >= LeastKids
Filled(h) == \A l \in NodesIn(h) : h[l].isLeaf => h[l].keys # <<>>

(* The keys with the locations of their data.                               *)
Entries(h) ==
  {e \in Keys \X Locs : \E l \in NodesIn(h) : \E i \in DOMAIN h[l].keys :
     h[l].isLeaf /\ e = <<h[l].keys[i], h[l].children[i]>>}

(* Each data record is that of one key.                                     *)
DataOK(h) ==
  /\ \A e, f \in Entries(h) : e[2] = f[2] => e[1] = f[1]
  /\ DataIn(h) = {e[2] : e \in Entries(h)}

(* A file between two operations: a tree whose nodes have legal sizes.      *)
FileOK(h, r, ht, K) ==
  /\ Tree(h, r, ht, K)
  /\ \A l \in NodesIn(h) : KeysFit(h, l)
  /\ KidsFit(h)

(* The inductive invariant.  A leaf may be empty only when deleteNode ended *)
(* the process, a leaf may refer to no data only after a traversal lost it. *)
IInv ==
  /\ heap \in Heaps /\ root \in Locs \cup {NoLoc} /\ status \in Ends \cup {"alive"}
  /\ root = NoLoc => \A l \in Locs : heap[l] = Free
  /\ root # NoLoc => \E ht \in [Locs -> Nat], K \in [Locs -> SUBSET Keys] : FileOK(heap, root, ht, K)
  /\ status = "alive" => Filled(heap)
  /\ status # "dangling" => DataOK(heap)


-----------------------------------------------------------------------------
(* Lists *)

LEMMA ConcatAt ==
  ASSUME NEW S, NEW a \in Seq(S), NEW b \in Seq(S)
  PROVE  /\ a \o b \in Seq(S) /\ Len(a \o b) = Len(a) + Len(b)
         /\ \A j \in 1 .. Len(a) + Len(b) : (a \o b)[j] = IF j <= Len(a) THEN a[j] ELSE b[j - Len(a)]
OBVIOUS

(* s with e before its i-th element.                                        *)
LEMMA InsertedAt ==
  ASSUME NEW S, NEW s \in Seq(S), NEW i \in 1 .. Len(s) + 1, NEW e \in S
  PROVE  /\ InsertAt(s, i, e) \in Seq(S)
         /\ Len(InsertAt(s, i, e)) = Len(s) + 1
         /\ \A j \in 1 .. Len(s) + 1 :
              InsertAt(s, i, e)[j] = IF j < i THEN s[j] ELSE IF j = i THEN e ELSE s[j - 1]
<1> DEFINE a == SubSeq(s, 1, i - 1)
           b == SubSeq(s, i, Len(s))
<1>1. Len(s) \in Nat /\ \A j \in 1 .. Len(s) : s[j] \in S
  OBVIOUS
<1>2. a \in Seq(S) /\ Len(a) = i - 1 /\ \A j \in 1 .. i - 1 : a[j] = s[j]
  BY <1>1
<1>3. b \in Seq(S) /\ Len(b) = Len(s) - i + 1 /\ \A j \in 1 .. Len(s) - i + 1 : b[j] = s[j + i - 1]
  BY <1>1
<1>4. InsertAt(s, i, e) = (a \o <<e>>) \o b
  BY DEF InsertAt
<1> HIDE DEF a, b
<1>5. /\ a \o <<e>> \in Seq(S) /\ Len(a \o <<e>>) = i
      /\ \A j \in 1 .. i : (a \o <<e>>)[j] = IF j < i THEN a[j] ELSE e
  BY <1>1, <1>2
<1> DEFINE c == a \o <<e>>
<1> HIDE DEF c
<1>6. /\ c \in Seq(S) /\ Len(c) = i /\ \A j \in 1 .. i : c[j] = IF j < i THEN a[j] ELSE e
      /\ InsertAt(s, i, e) = c \o b
  BY <1>4, <1>5 DEF c
<1>7. /\ c \o b \in Seq(S) /\ Len(c \o b) = Len(s) + 1
      /\ \A j \in 1 .. Len(s) + 1 : (c \o b)[j] = IF j <= i THEN c[j] ELSE b[j - i]
  <2>1. Len(c) + Len(b) = Len(s) + 1 /\ Len(c) = i
    BY <1>1, <1>3, <1>6
  <2>2. c \in Seq(S) /\ b \in Seq(S)
    BY <1>3, <1>6
  <2>3. /\ c \o b \in Seq(S) /\ Len(c \o b) = Len(c) + Len(b)
        /\ \A j \in 1 .. Len(c) + Len(b) : (c \o b)[j] = IF j <= Len(c) THEN c[j] ELSE b[j - Len(c)]
    BY <2>2, ConcatAt
  <2> QED BY <2>1, <2>3
<1>8. ASSUME NEW j \in 1 .. Len(s) + 1
      PROVE  (c \o b)[j] = IF j < i THEN s[j] ELSE IF j = i THEN e ELSE s[j - 1]
  <2>1. CASE j <= i
    BY <1>1, <1>2, <1>6, <1>7, <2>1
  <2>2. CASE j > i
    <3>1. j - i \in 1 .. Len(s) - i + 1 /\ (j - i) + i - 1 = j - 1 /\ ~(j <= i) /\ ~(j < i) /\ j # i
      BY <1>1, <2>2
    <3>2. (c \o b)[j] = b[j - i]
      BY <1>7, <3>1
    <3>3. b[j - i] = s[j - 1]
      BY <1>3, <3>1
    <3> QED BY <3>1, <3>2, <3>3
  <2>3. j <= i \/ j > i
    BY <1>1
  <2> QED BY <2>1, <2>2, <2>3
<1> QED BY <1>6, <1>7, <1>8

(* t is s with e at place i.                                                *)
Inserted(t, S, s, i, e) ==
  /\ t \in Seq(S) /\ Len(t) = Len(s) + 1
  /\ \A j \in 1 .. Len(s) + 1 : t[j] = IF j < i THEN s[j] ELSE IF j = i THEN e ELSE s[j - 1]

(* The same as InsertedAt, in one word.                                     *)
LEMMA InsertedIs ==
  ASSUME NEW S, NEW s \in Seq(S), NEW i \in 1 .. Len(s) + 1, NEW e \in S
  PROVE  Inserted(InsertAt(s, i, e), S, s, i, e)
<1>1. InsertAt(s, i, e) \in Seq(S) /\ Len(InsertAt(s, i, e)) = Len(s) + 1
  BY InsertedAt
<1>2. \A j \in 1 .. Len(s) + 1 :
        InsertAt(s, i, e)[j] = IF j < i THEN s[j] ELSE IF j = i THEN e ELSE s[j - 1]
  BY InsertedAt
<1> QED BY <1>1, <1>2, Zenon DEF Inserted

(* s without its i-th element.                                              *)
LEMMA RemovedAt ==
  ASSUME NEW S, NEW s \in Seq(S), NEW i \in 1 .. Len(s)
  PROVE  /\ RemoveAt(s, i) \in Seq(S)
         /\ Len(RemoveAt(s, i)) = Len(s) - 1
         /\ \A j \in 1 .. Len(s) - 1 :
              RemoveAt(s, i)[j] = IF j < i THEN s[j] ELSE s[j + 1]
<1> DEFINE a == SubSeq(s, 1, i - 1)
           b == SubSeq(s, i + 1, Len(s))
<1>1. Len(s) \in Nat /\ \A j \in 1 .. Len(s) : s[j] \in S
  OBVIOUS
<1>2. a \in Seq(S) /\ Len(a) = i - 1 /\ \A j \in 1 .. i - 1 : a[j] = s[j]
  BY <1>1
<1>3. b \in Seq(S) /\ Len(b) = Len(s) - i /\ \A j \in 1 .. Len(s) - i : b[j] = s[j + i]
  BY <1>1
<1>4. RemoveAt(s, i) = a \o b
  BY DEF RemoveAt
<1> HIDE DEF a, b
<1>5. /\ a \o b \in Seq(S) /\ Len(a \o b) = Len(s) - 1
      /\ \A j \in 1 .. Len(s) - 1 : (a \o b)[j] = IF j <= i - 1 THEN a[j] ELSE b[j - (i - 1)]
  <2>1. Len(a) + Len(b) = Len(s) - 1 /\ Len(a) = i - 1
    BY <1>1, <1>2, <1>3
  <2>2. a \in Seq(S) /\ b \in Seq(S)
    BY <1>2, <1>3
  <2>3. /\ a \o b \in Seq(S) /\ Len(a \o b) = Len(a) + Len(b)
        /\ \A j \in 1 .. Len(a) + Len(b) : (a \o b)[j] = IF j <= Len(a) THEN a[j] ELSE b[j - Len(a)]
    BY <2>2, ConcatAt
  <2> QED BY <2>1, <2>3
<1>6. ASSUME NEW j \in 1 .. Len(s) - 1
      PROVE  (a \o b)[j] = IF j < i THEN s[j] ELSE s[j + 1]
  <2>1. CASE j < i
    BY <1>1, <1>2, <1>5, <2>1
  <2>2. CASE j >= i
    <3>1. j - (i - 1) \in 1 .. Len(s) - i /\ (j - (i - 1)) + i = j + 1 /\ ~(j <= i - 1) /\ ~(j < i)
      BY <1>1, <2>2
    <3>2. (a \o b)[j] = b[j - (i - 1)]
      BY <1>5, <3>1
    <3>3. b[j - (i - 1)] = s[j + 1]
      BY <1>3, <3>1
    <3> QED BY <3>1, <3>2, <3>3
  <2>3. j < i \/ j >= i
    BY <1>1
  <2> QED BY <2>1, <2>2, <2>3
<1> QED BY <1>4, <1>5, <1>6

(* The elements from i to j of s.                                           *)
LEMMA CutFrom ==
  ASSUME NEW S, NEW s \in Seq(S), NEW i \in 1 .. Len(s) + 1, NEW j \in i - 1 .. Len(s)
  PROVE  /\ SubSeq(s, i, j) \in Seq(S)
         /\ Len(SubSeq(s, i, j)) = j - i + 1
         /\ \A n \in 1 .. j - i + 1 : SubSeq(s, i, j)[n] = s[n + i - 1]
<1>1. Len(s) \in Nat /\ i \in Nat /\ j \in Nat
  OBVIOUS
<1> QED BY <1>1

(* In an ascending list the keys not above k come first: Below is their     *)
(* number.                                                                  *)
LEMMA BelowFacts ==
  ASSUME NEW keys \in Seq(Int), Ascending(keys), NEW k \in Int
  PROVE  /\ Below(keys, k) \in 0 .. Len(keys)
         /\ \A i \in 1 .. Len(keys) : keys[i] <= k <=> i <= Below(keys, k)
<1> DEFINE D == {i \in 1 .. Len(keys) : keys[i] <= k}
<1>1. /\ Len(keys) \in Nat /\ DOMAIN keys = 1 .. Len(keys)
      /\ \A i \in 1 .. Len(keys) : keys[i] \in Int
  OBVIOUS
<1>2. Below(keys, k) = Cardinality(D)
  BY DEF Below
<1>3. \A i \in 1 .. Len(keys) : i \in D <=> keys[i] <= k
  OBVIOUS
<1>4. D \in SUBSET (1 .. Len(keys))
  OBVIOUS
<1> HIDE DEF D
<1>5. CASE D = {}
  <2>1. Below(keys, k) = 0
    BY <1>2, <1>5, FS_EmptySet
  <2> QED BY <1>1, <1>3, <1>5, <2>1
<1>6. CASE D # {}
  <2> DEFINE m == Max(D)
  <2>1. m \in D /\ \A i \in D : i <= m
    BY <1>1, <1>4, <1>6, MaxIsGreatest
  <2> HIDE DEF m
  <2>2. m \in 1 .. Len(keys)
    BY <1>4, <2>1
  <2>3. ASSUME NEW i \in 1 .. Len(keys), i <= m PROVE i \in D
    <3>1. i = m \/ keys[i] < keys[m]
      BY <1>1, <2>2, <2>3 DEF Ascending
    <3>2. keys[m] <= k /\ keys[i] \in Int /\ keys[m] \in Int
      BY <1>1, <1>3, <2>1, <2>2
    <3> QED BY <1>3, <3>1, <3>2
  <2>4. D = 1 .. m
    <3>1. \A i \in D : i \in 1 .. m
      BY <1>1, <1>4, <2>1, <2>2
    <3>2. \A i \in 1 .. m : i \in 1 .. Len(keys) /\ i <= m
      BY <1>1, <2>2
    <3> QED BY <2>3, <3>1, <3>2
  <2>5. Cardinality(1 .. m) = m
    <3>1. m \in Int /\ ~(1 > m)
      BY <1>1, <2>2
    <3>2. Cardinality(1 .. m) = IF 1 > m THEN 0 ELSE m - 1 + 1
      BY <3>1, FS_Interval
    <3> QED BY <3>1, <3>2
  <2> QED BY <1>1, <1>2, <1>3, <2>1, <2>2, <2>4, <2>5
<1> QED BY <1>5, <1>6

(* In a list without repetitions the position of an element is unique.      *)
LEMMA PlaceIn ==
  ASSUME NEW s, Len(s) \in Nat, DOMAIN s = 1 .. Len(s), IsInjective(s), NEW i \in DOMAIN s
  PROVE  (CHOOSE j \in 1 .. Len(s) : s[j] = s[i]) = i
<1>1. \A j \in 1 .. Len(s) : s[j] = s[i] => j = i
  BY DEF IsInjective
<1> QED BY <1>1

-----------------------------------------------------------------------------
(* Recursive functions *)

(* The value of step[f] at l depends on f at lower places only.             *)
Descends(step, L, V, ht, top) ==
  /\ V # {} /\ step \in [[L -> V] -> [L -> V]]
  /\ ht \in [L -> Nat] /\ top \in Nat /\ \A l \in L : ht[l] < top
  /\ \A f, g \in [L -> V] : \A l \in L :
       (\A m \in L : ht[m] < ht[l] => f[m] = g[m]) => step[f][l] = step[g][l]

(* Then there is a function that is defined by step recursively.            *)
LEMMA RecursionExists ==
  ASSUME NEW L, NEW V, NEW step, NEW ht, NEW top, Descends(step, L, V, ht, top)
  PROVE  \E f \in [L -> V] : f = step[f]
<1> DEFINE Upto(f, n) == \A l \in L : ht[l] < n => f[l] = step[f][l]
           N == {n \in Nat : \E f \in [L -> V] : Upto(f, n)}
<1>0. /\ V # {} /\ step \in [[L -> V] -> [L -> V]]
      /\ ht \in [L -> Nat] /\ top \in Nat /\ \A l \in L : ht[l] < top
      /\ \A f, g \in [L -> V] : \A l \in L :
           (\A m \in L : ht[m] < ht[l] => f[m] = g[m]) => step[f][l] = step[g][l]
  BY DEF Descends
<1>1. 0 \in N
  <2>1. PICK v \in V : TRUE
    BY <1>0
  <2>2. [l \in L |-> v] \in [L -> V]
    OBVIOUS
  <2>3. \A l \in L : ~ (ht[l] < 0)
    BY <1>0
  <2>4. Upto([l \in L |-> v], 0)
    BY <2>3
  <2> QED BY <2>2, <2>4
<1>2. ASSUME NEW n \in Nat, n \in N PROVE n + 1 \in N
  <2>1. PICK f \in [L -> V] : Upto(f, n)
    BY <1>2
  <2> DEFINE g == step[f]
  <2>2. g \in [L -> V]
    BY <1>0
  <2>3. ASSUME NEW l \in L, ht[l] < n + 1 PROVE g[l] = step[g][l]
    <3>1. ASSUME NEW m \in L, ht[m] < ht[l] PROVE f[m] = g[m]
      <4>1. ht[m] \in Nat /\ ht[l] \in Nat /\ ht[m] < n
        BY <1>0, <2>3, <3>1
      <4> QED BY <2>1, <4>1
    <3> HIDE DEF g
    <3>2. step[f][l] = step[g][l]
      BY <1>0, <2>2, <3>1
    <3> QED BY <3>2 DEF g
  <2> HIDE DEF g
  <2>4. Upto(g, n + 1)
    BY <2>3
  <2> QED BY <2>2, <2>4
<1>3. top \in N
  <2> HIDE DEF N
  <2>1. Nat \subseteq N
    BY <1>1, <1>2, NatInductionSet
  <2> QED BY <1>0, <2>1
<1>4. PICK f \in [L -> V] : Upto(f, top)
  BY <1>3
<1>5. \A l \in L : f[l] = step[f][l]
  BY <1>0, <1>4
<1>6. step[f] \in [L -> V]
  BY <1>0
<1> QED BY <1>5, <1>6

(* Induction over the height of the places.                                 *)
LEMMA HeightInduction ==
  ASSUME NEW L, NEW ht \in [L -> Nat], NEW G \in SUBSET L,
         \A l \in L : (\A m \in L : ht[m] < ht[l] => m \in G) => l \in G
  PROVE  L \subseteq G
<1> DEFINE N == {n \in Nat : \A l \in L : ht[l] < n => l \in G}
<1>1. 0 \in N
  <2>1. \A l \in L : ~ (ht[l] < 0)
    OBVIOUS
  <2> QED BY <2>1
<1>2. ASSUME NEW n \in Nat, n \in N PROVE n + 1 \in N
  <2>1. ASSUME NEW l \in L, ht[l] < n + 1 PROVE l \in G
    <3>1. ASSUME NEW m \in L, ht[m] < ht[l] PROVE m \in G
      <4>1. ht[m] \in Nat /\ ht[l] \in Nat /\ ht[m] < n
        BY <2>1, <3>1
      <4> QED BY <1>2, <4>1
    <3> QED BY <3>1
  <2> QED BY <2>1
<1>3. Nat \subseteq N
  <2> HIDE DEF N
  <2> QED BY <1>1, <1>2, NatInductionSet
<1>4. ASSUME NEW l \in L PROVE l \in G
  <2>1. ht[l] + 1 \in N /\ ht[l] < ht[l] + 1
    <3>1. ht[l] \in Nat
      OBVIOUS
    <3> HIDE DEF N
    <3> QED BY <1>3, <3>1
  <2> QED BY <2>1
<1> QED BY <1>4

-----------------------------------------------------------------------------
(* Nodes of a tree *)

LEMMA RankFacts ==
  /\ BRankMax \in Nat /\ Half \in Nat /\ Half >= 1 /\ Half < BRankMax
  /\ LeastKids \in Nat /\ LeastKids >= 1 /\ LeastKids <= 2
  /\ LeastKids <= BRankMin /\ LeastKids <= BRankMax - Half
<1>1. /\ BRankMax \in Nat /\ BRankMin \in Nat /\ BRankMax >= 2 /\ BRankMin >= 1
      /\ Half \in Nat /\ Half >= 1 /\ Half < BRankMax
  BY RankAssumption DEF Half
<1> DEFINE T == {2, BRankMin, BRankMax - Half}
<1>2. T \in SUBSET Nat /\ T # {}
  BY <1>1
<1>3. Min(T) \in T /\ \A n \in T : Min(T) <= n
  <2> HIDE DEF T
  <2> QED BY <1>2, MinIsLeast
<1>4. LeastKids = Min(T)
  BY DEF LeastKids
<1>5. \A n \in T : n \in Nat /\ n >= 1
  BY <1>1
<1>6. 2 \in T /\ BRankMin \in T /\ BRankMax - Half \in T
  OBVIOUS
<1> HIDE DEF T
<1>7. LeastKids \in Nat /\ LeastKids >= 1
  BY <1>3, <1>4, <1>5
<1> QED BY <1>1, <1>3, <1>4, <1>6, <1>7

(* A node of a file is what its fields say it is.                           *)
LEMMA NodeFacts ==
  ASSUME NEW h, h \in Heaps, NEW l \in NodesIn(h)
  PROVE  /\ l \in Locs /\ h[l] \in NodeRecs
         /\ h[l].isLeaf \in BOOLEAN /\ h[l].parent \in Locs \cup {NoLoc}
         /\ h[l].keys \in Seq(Keys) /\ h[l].children \in Seq(Locs)
<1>1. l \in Locs /\ h[l].kind = "node" /\ h[l] \in {Free} \cup DataRecs \cup NodeRecs
  BY DEF Heaps, NodesIn
<1>2. h[l] # Free
  BY <1>1 DEF Free
<1>3. h[l] \notin DataRecs
  BY <1>1 DEF DataRecs, DataRec
<1>4. h[l] \in NodeRecs
  BY <1>1, <1>2, <1>3
<1> QED BY <1>1, <1>4 DEF NodeRecs

(* What a heap holds at the other places.                                   *)
LEMMA PlaceKinds ==
  ASSUME NEW h, h \in Heaps, NEW l \in Locs
  PROVE  /\ l \in FreeLocs(h) \/ l \in DataIn(h) \/ l \in NodesIn(h)
         /\ l \in FreeLocs(h) <=> h[l] = Free
         /\ l \in FreeLocs(h) => l \notin DataIn(h) /\ l \notin NodesIn(h)
         /\ l \in DataIn(h) => h[l] \in DataRecs /\ l \notin NodesIn(h)
<1>1. h[l] \in {Free} \cup DataRecs \cup NodeRecs
  BY DEF Heaps
<1>2. CASE h[l] = Free
  BY <1>2 DEF Free, FreeLocs, DataIn, NodesIn
<1>3. CASE h[l] \in DataRecs
  BY <1>3 DEF Free, DataRecs, DataRec, FreeLocs, DataIn, NodesIn
<1>4. CASE h[l] \in NodeRecs
  BY <1>4 DEF Free, NodeRecs, FreeLocs, DataIn, NodesIn
<1> QED BY <1>1, <1>2, <1>3, <1>4

(* A list and the set of its elements.                                      *)
LEMMA ListFacts ==
  ASSUME NEW S, NEW s \in Seq(S)
  PROVE  /\ Len(s) \in Nat /\ DOMAIN s = 1 .. Len(s)
         /\ \A i \in 1 .. Len(s) : s[i] \in S /\ s[i] \in ToSet(s)
         /\ \A x \in ToSet(s) : x \in S /\ \E i \in 1 .. Len(s) : s[i] = x
BY DEF ToSet

(* What Tree says of the file and of the root.                              *)
LEMMA TreeHeap ==
  ASSUME NEW h, NEW r, NEW ht, NEW K, Tree(h, r, ht, K)
  PROVE  /\ h \in Heaps /\ ht \in [Locs -> Nat] /\ K \in [Locs -> SUBSET Keys]
         /\ r \in NodesIn(h) /\ r \in Locs /\ h[r].parent = NoLoc
         /\ NodesIn(h) \subseteq Locs
BY DEF Tree, NodesIn

(* What Tree says of each node.                                             *)
LEMMA TreeNode ==
  ASSUME NEW h, NEW r, NEW ht, NEW K, Tree(h, r, ht, K), NEW l \in NodesIn(h)
  PROVE  /\ l \in Locs /\ h[l] \in NodeRecs
         /\ h[l].isLeaf \in BOOLEAN /\ h[l].parent \in Locs \cup {NoLoc}
         /\ h[l].keys \in Seq(Keys) /\ h[l].children \in Seq(Locs)
         /\ Len(h[l].keys) \in Nat /\ DOMAIN h[l].keys = 1 .. Len(h[l].keys)
         /\ Len(h[l].children) \in Nat /\ DOMAIN h[l].children = 1 .. Len(h[l].children)
         /\ Len(h[l].children) = Len(h[l].keys) + (IF h[l].isLeaf THEN 0 ELSE 1)
         /\ Ascending(h[l].keys)
         /\ ht[l] \in Nat /\ ht[l] <= ht[r] /\ ht[r] \in Nat
         /\ K[l] \subseteq Keys
         /\ h[l].isLeaf => ht[l] = 0 /\ K[l] = ToSet(h[l].keys)
<1>1. /\ NodeOK(h, l, ht, K) /\ ht[l] <= ht[r]
      /\ h \in Heaps /\ ht \in [Locs -> Nat] /\ K \in [Locs -> SUBSET Keys] /\ r \in NodesIn(h)
  BY DEF Tree
<1>2. /\ l \in Locs /\ h[l] \in NodeRecs
      /\ h[l].isLeaf \in BOOLEAN /\ h[l].parent \in Locs \cup {NoLoc}
      /\ h[l].keys \in Seq(Keys) /\ h[l].children \in Seq(Locs) /\ r \in Locs
  BY <1>1, NodeFacts
<1>3. /\ Len(h[l].keys) \in Nat /\ DOMAIN h[l].keys = 1 .. Len(h[l].keys)
      /\ Len(h[l].children) \in Nat /\ DOMAIN h[l].children = 1 .. Len(h[l].children)
  BY <1>2, ListFacts
<1>4. ShapeOK(h[l]) /\ (h[l].isLeaf => LeafOK(h, l, ht, K))
  BY <1>1 DEF NodeOK
<1> QED BY <1>1, <1>2, <1>3, <1>4 DEF ShapeOK, LeafOK

(* What Tree says of a leaf: it holds exactly its key set.                  *)
LEMMA TreeLeaf ==
  ASSUME NEW h, NEW r, NEW ht, NEW K, Tree(h, r, ht, K), NEW l \in NodesIn(h), h[l].isLeaf
  PROVE  ht[l] = 0 /\ K[l] = ToSet(h[l].keys)
BY TreeNode

(* What Tree says of a child: it knows its parent, is one lower, and its    *)
(* keys lie between the separators at its place.                            *)
LEMMA TreeChild ==
  ASSUME NEW h, NEW r, NEW ht, NEW K, Tree(h, r, ht, K), NEW l \in NodesIn(h), ~h[l].isLeaf,
         NEW i \in DOMAIN h[l].children
  PROVE  /\ h[l].children[i] \in NodesIn(h) /\ h[l].children[i] \in Locs
         /\ h[h[l].children[i]].parent = l
         /\ ht[l] = ht[h[l].children[i]] + 1
         /\ K[h[l].children[i]] \subseteq K[l]
         /\ \A x \in K[h[l].children[i]] : Between(h[l].keys, i, x)
<1>1. ChildOK(h, l, i, ht, K)
  BY DEF Tree, NodeOK, InnerOK
<1> QED BY <1>1 DEF ChildOK, NodesIn

(* What Tree says of an inner node: each of its keys is with one of its     *)
(* children, and no child is listed twice.                                  *)
LEMMA TreeInner ==
  ASSUME NEW h, NEW r, NEW ht, NEW K, Tree(h, r, ht, K), NEW l \in NodesIn(h), ~h[l].isLeaf
  PROVE  /\ Len(h[l].children) >= 1 /\ ht[l] > 0
         /\ \A x \in K[l] : \E i \in DOMAIN h[l].children : x \in K[h[l].children[i]]
         /\ IsInjective(h[l].children)
<1>1. InnerOK(h, l, ht, K)
  BY DEF Tree, NodeOK
<1>2. Len(h[l].children) >= 1 /\ DOMAIN h[l].children = 1 .. Len(h[l].children)
  <2>1. /\ Len(h[l].keys) \in Nat /\ DOMAIN h[l].children = 1 .. Len(h[l].children)
        /\ Len(h[l].children) = Len(h[l].keys) + (IF h[l].isLeaf THEN 0 ELSE 1)
    BY TreeNode
  <2> QED BY <2>1
<1>3. ht[l] = ht[h[l].children[1]] + 1 /\ h[l].children[1] \in NodesIn(h)
  <2>1. 1 \in DOMAIN h[l].children
    BY <1>2, TreeNode
  <2> QED BY <2>1, TreeChild
<1>4. ht[h[l].children[1]] \in Nat
  BY <1>3, TreeNode
<1> QED BY <1>1, <1>2, <1>3, <1>4 DEF InnerOK

(* Each node but the root is listed by the parent it has stored.            *)
LEMMA TreeParent ==
  ASSUME NEW h, NEW r, NEW ht, NEW K, Tree(h, r, ht, K), NEW l \in NodesIn(h), l # r
  PROVE  /\ h[l].parent \in NodesIn(h) /\ h[l].parent \in Locs /\ ~h[h[l].parent].isLeaf
         /\ ht[h[l].parent] = ht[l] + 1
         /\ \E i \in DOMAIN h[h[l].parent].children : h[h[l].parent].children[i] = l
<1>1. PICK i \in Nat : ChildOf(h, l, h[l].parent, i)
  BY DEF Tree
<1>2. /\ h[l].parent \in NodesIn(h) /\ ~h[h[l].parent].isLeaf
      /\ i \in DOMAIN h[h[l].parent].children /\ h[h[l].parent].children[i] = l
  BY <1>1 DEF ChildOf
<1>3. ht[h[l].parent] = ht[l] + 1
  BY <1>2, TreeChild
<1> QED BY <1>2, <1>3 DEF NodesIn

(* No node is without keys if no leaf is.                                   *)
LEMMA NoneEmpty ==
  ASSUME NEW h, NEW r, NEW ht, NEW K, Tree(h, r, ht, K), Filled(h)
  PROVE  \A l \in NodesIn(h) : K[l] # {}
<1> DEFINE L == NodesIn(h)
           hts == [l \in L |-> ht[l]]
           G == {l \in L : K[l] # {}}
<1>1. hts \in [L -> Nat]
  BY TreeNode
<1>2. ASSUME NEW l \in L, \A m \in L : hts[m] < hts[l] => m \in G PROVE l \in G
  <2>1. CASE h[l].isLeaf
    <3>1. h[l].keys # <<>> /\ K[l] = ToSet(h[l].keys) /\ h[l].keys \in Seq(Keys)
      BY <2>1, TreeNode DEF Filled
    <3>2. 1 \in DOMAIN h[l].keys
      BY <3>1
    <3> QED BY <3>1, <3>2 DEF ToSet
  <2>2. CASE ~h[l].isLeaf
    <3> DEFINE c == h[l].children[1]
    <3>1. 1 \in DOMAIN h[l].children
      BY <2>2, TreeNode, TreeInner
    <3>2. c \in L /\ ht[l] = ht[c] + 1 /\ K[c] \subseteq K[l]
      BY <2>2, <3>1, TreeChild
    <3>3. ht[c] \in Nat
      BY <3>2, TreeNode
    <3> HIDE DEF c
    <3>4. hts[c] < hts[l]
      BY <3>2, <3>3
    <3> QED BY <1>2, <3>2, <3>4
  <2> QED BY <2>1, <2>2
<1> HIDE DEF hts
<1>3. L \subseteq G
  <2>1. G \in SUBSET L
    OBVIOUS
  <2> HIDE DEF L, G
  <2> QED BY <1>1, <1>2, <2>1, HeightInduction
<1> QED BY <1>3

-----------------------------------------------------------------------------
(* The way down *)

LEMMA KeyLists == Keys \subseteq Int /\ \A s \in Seq(Keys) : s \in Seq(Int)
<1>1. Keys \subseteq Int
  BY KeysAssumption
<1>2. ASSUME NEW s \in Seq(Keys) PROVE s \in Seq(Int)
  <2>1. Len(s) \in Nat /\ s \in [1 .. Len(s) -> Keys]
    OBVIOUS
  <2>2. s \in [1 .. Len(s) -> Int]
    BY <1>1, <2>1
  <2> QED BY <2>1, <2>2
<1> QED BY <1>1, <1>2

(* Which of the children a key is looked for in.                            *)
Turn(n, k) == 1 + Below(n.keys, k)

(* Only there the separators let it be.                                     *)
LEMMA TurnFacts ==
  ASSUME NEW h, NEW r, NEW ht, NEW K, Tree(h, r, ht, K), NEW l \in NodesIn(h), ~h[l].isLeaf,
         NEW k \in Keys
  PROVE  /\ Turn(h[l], k) \in DOMAIN h[l].children
         /\ ChildFor(h[l], k) = h[l].children[Turn(h[l], k)]
         /\ \A i \in DOMAIN h[l].children : Between(h[l].keys, i, k) <=> i = Turn(h[l], k)
<1> DEFINE keys == h[l].keys
           b == Below(keys, k)
<1>1. /\ keys \in Seq(Keys) /\ Ascending(keys) /\ Len(keys) \in Nat
      /\ DOMAIN h[l].children = 1 .. Len(h[l].children)
      /\ Len(h[l].children) = Len(keys) + (IF h[l].isLeaf THEN 0 ELSE 1)
  BY TreeNode
<1>2. keys \in Seq(Int) /\ k \in Int
  BY <1>1, KeyLists
<1>3. ChildFor(h[l], k) = h[l].children[Turn(h[l], k)] /\ Turn(h[l], k) = 1 + b
  BY DEF ChildFor, Turn
<1>4. DOMAIN h[l].children = 1 .. Len(keys) + 1
  BY <1>1
<1>5. \A i \in 1 .. Len(keys) : keys[i] \in Int
  BY <1>2
<1>6. b \in 0 .. Len(keys) /\ \A i \in 1 .. Len(keys) : keys[i] <= k <=> i <= b
  BY <1>1, <1>2, BelowFacts
<1> HIDE DEF b, keys
<1>7. ASSUME NEW i \in 1 .. Len(keys) + 1
      PROVE  Between(keys, i, k) <=> i = 1 + b
  <2>1. i > 1 => i - 1 \in 1 .. Len(keys) /\ (keys[i - 1] <= k <=> i - 1 <= b)
    BY <1>1, <1>6
  <2>2. i <= Len(keys) => (k < keys[i] <=> ~(i <= b))
    BY <1>1, <1>2, <1>5, <1>6
  <2> QED BY <1>1, <1>6, <2>1, <2>2 DEF Between
<1>8. \A i \in 1 .. Len(keys) + 1 : Between(h[l].keys, i, k) <=> i = 1 + b
  BY <1>7 DEF keys
<1> QED BY <1>1, <1>3, <1>4, <1>6, <1>8

(* p is the way of k from l to a leaf.                                      *)
Way(h, l, k, p) ==
  /\ p \in Seq(Locs) /\ Len(p) >= 1 /\ p[1] = l /\ h[p[Len(p)]].isLeaf
  /\ \A i \in 1 .. Len(p) : p[i] \in NodesIn(h)
  /\ \A i \in 1 .. Len(p) - 1 : ~h[p[i]].isLeaf /\ p[i + 1] = ChildFor(h[p[i]], k)

(* The way from a node goes on with the way from the child searchNode       *)
(* picks.                                                                   *)
LEMMA WayOn ==
  ASSUME NEW h, NEW l \in NodesIn(h), NEW k, ~h[l].isLeaf, l \in Locs,
         NEW p, Way(h, ChildFor(h[l], k), k, p)
  PROVE  Way(h, l, k, <<l>> \o p)
<1>1. /\ p \in Seq(Locs) /\ Len(p) >= 1 /\ p[1] = ChildFor(h[l], k) /\ h[p[Len(p)]].isLeaf
      /\ \A i \in 1 .. Len(p) : p[i] \in NodesIn(h)
      /\ \A i \in 1 .. Len(p) - 1 : ~h[p[i]].isLeaf /\ p[i + 1] = ChildFor(h[p[i]], k)
  BY DEF Way
<1> DEFINE q == <<l>> \o p
<1>2. q \in Seq(Locs) /\ Len(q) = Len(p) + 1 /\ Len(p) \in Nat
  BY <1>1
<1>3. q[1] = l
  BY <1>1
<1>4. \A i \in 2 .. Len(p) + 1 : q[i] = p[i - 1]
  BY <1>1
<1> HIDE DEF q
<1>5. q[Len(q)] = p[Len(p)]
  BY <1>1, <1>2, <1>4
<1>6. ASSUME NEW i \in 1 .. Len(q) PROVE q[i] \in NodesIn(h)
  <2>1. CASE i = 1
    BY <1>3, <2>1
  <2>2. CASE i # 1
    <3>1. i \in 2 .. Len(p) + 1 /\ i - 1 \in 1 .. Len(p)
      BY <1>2, <2>2
    <3> QED BY <1>1, <1>4, <3>1
  <2> QED BY <2>1, <2>2
<1>7. ASSUME NEW i \in 1 .. Len(q) - 1 PROVE ~h[q[i]].isLeaf /\ q[i + 1] = ChildFor(h[q[i]], k)
  <2>1. i + 1 \in 2 .. Len(p) + 1 /\ (i + 1) - 1 = i
    BY <1>2
  <2>2. q[i + 1] = p[i]
    BY <1>4, <2>1
  <2>3. CASE i = 1
    BY <1>1, <1>3, <2>2, <2>3
  <2>4. CASE i # 1
    <3>1. i \in 2 .. Len(p) + 1 /\ i - 1 \in 1 .. Len(p) - 1 /\ (i - 1) + 1 = i
      BY <1>2, <2>4
    <3>2. q[i] = p[i - 1] /\ p[i] = ChildFor(h[p[i - 1]], k) /\ ~h[p[i - 1]].isLeaf
      BY <1>1, <1>4, <3>1
    <3> QED BY <2>2, <3>2
  <2> QED BY <2>3, <2>4
<1> QED BY <1>1, <1>2, <1>3, <1>5, <1>6, <1>7 DEF q, Way

(* searchNode goes such a way.                                              *)
LEMMA PathIsWay ==
  ASSUME NEW ht, NEW K, Tree(heap, root, ht, K), NEW k \in Keys
  PROVE  Way(heap, root, k, PathTo(k))
<1> DEFINE After(f) == [l \in Locs |-> IF IsInner(l) THEN <<l>> \o f[ChildFor(heap[l], k)] ELSE <<l>>]
           step == [f \in [Locs -> Seq(Locs)] |-> After(f)]
           path == CHOOSE path : path = After(path)
           L == NodesIn(heap)
           level == [l \in Locs |-> IF l \in L THEN ht[l] ELSE 0]
           top == ht[root] + 1
<1>1. /\ \A l \in Locs : IsInner(l) <=> l \in L /\ ~heap[l].isLeaf
      /\ L \subseteq Locs /\ root \in L
  BY TreeHeap DEF IsInner, IsNode, NodesIn
<1>2. /\ \A l \in L : ht[l] \in Nat /\ ht[l] <= ht[root]
      /\ \A l \in Locs : level[l] \in Nat /\ level[l] < top
      /\ level \in [Locs -> Nat] /\ top \in Nat
  <2>1. ht[root] \in Nat /\ \A l \in L : ht[l] \in Nat /\ ht[l] <= ht[root]
    BY <1>1, TreeNode
  <2>2. \A l \in Locs : level[l] \in Nat /\ level[l] < top
    BY <2>1
  <2> QED BY <2>1, <2>2
<1>3. ASSUME NEW l \in L, ~heap[l].isLeaf
      PROVE  ChildFor(heap[l], k) \in L /\ ht[l] = ht[ChildFor(heap[l], k)] + 1
  BY <1>3, TurnFacts, TreeChild
<1>4. PICK f : f = After(f)
  <2>1. step \in [[Locs -> Seq(Locs)] -> [Locs -> Seq(Locs)]]
    <3>1. ASSUME NEW f \in [Locs -> Seq(Locs)], NEW l \in Locs
          PROVE  After(f)[l] \in Seq(Locs)
      <4>1. <<l>> \in Seq(Locs)
        OBVIOUS
      <4>2. IsInner(l) => f[ChildFor(heap[l], k)] \in Seq(Locs)
        BY <1>1, <1>3
      <4>3. IsInner(l) => <<l>> \o f[ChildFor(heap[l], k)] \in Seq(Locs)
        BY <4>1, <4>2
      <4> QED BY <4>1, <4>3
    <3> QED BY <3>1
  <2>2. ASSUME NEW f \in [Locs -> Seq(Locs)], NEW g \in [Locs -> Seq(Locs)], NEW l \in Locs,
               \A m \in Locs : level[m] < level[l] => f[m] = g[m]
        PROVE  step[f][l] = step[g][l]
    <3>1. ASSUME IsInner(l) PROVE f[ChildFor(heap[l], k)] = g[ChildFor(heap[l], k)]
      <4>1. l \in L /\ ChildFor(heap[l], k) \in L /\ ht[l] = ht[ChildFor(heap[l], k)] + 1
        BY <1>1, <1>3, <3>1
      <4>2. ChildFor(heap[l], k) \in Locs /\ level[ChildFor(heap[l], k)] < level[l]
        BY <1>1, <1>2, <4>1
      <4> QED BY <2>2, <4>2
    <3> QED BY <3>1
  <2>3. Seq(Locs) # {}
    <3>1. <<>> \in Seq(Locs)
      OBVIOUS
    <3> QED BY <3>1
  <2>4. Descends(step, Locs, Seq(Locs), level, top)
    <3>1. level \in [Locs -> Nat] /\ top \in Nat /\ \A l \in Locs : level[l] < top
      BY <1>2
    <3> HIDE DEF step, level, top
    <3> QED BY <2>1, <2>2, <2>3, <3>1 DEF Descends
  <2>5. PICK f \in [Locs -> Seq(Locs)] : f = step[f]
    <3> HIDE DEF step, level, top
    <3> QED BY <2>4, RecursionExists
  <2>6. step[f] = After(f)
    BY <2>5
  <2> HIDE DEF After, step
  <2> QED BY <2>5, <2>6
<1>5. path = After(path)
  <2> HIDE DEF After
  <2> QED BY <1>4
<1>6. PathTo(k) = path[root]
  <2>1. root # NoLoc
    BY <1>1 DEF Locs, NoLoc
  <2> QED BY <2>1 DEF PathTo
<1> HIDE DEF path
<1>7. \A l \in L : path[l] = IF heap[l].isLeaf THEN <<l>> ELSE <<l>> \o path[ChildFor(heap[l], k)]
  BY <1>1, <1>5
<1> DEFINE G == {l \in L : Way(heap, l, k, path[l])}
           hts == [l \in L |-> ht[l]]
<1>8. ASSUME NEW l \in L, \A m \in L : hts[m] < hts[l] => m \in G PROVE l \in G
  <2>1. CASE heap[l].isLeaf
    <3>1. path[l] = <<l>> /\ l \in Locs
      BY <1>1, <1>7, <2>1
    <3> DEFINE p == <<l>>
    <3>2. /\ p \in Seq(Locs) /\ Len(p) = 1 /\ p[1] = l
          /\ \A i \in 1 .. Len(p) : i = 1 /\ \A j \in 1 .. Len(p) - 1 : FALSE
      BY <3>1
    <3>3. path[l] = p
      BY <3>1
    <3> HIDE DEF p
    <3>4. Way(heap, l, k, p)
      BY <2>1, <3>2 DEF Way
    <3> QED BY <3>3, <3>4
  <2>2. CASE ~heap[l].isLeaf
    <3>1. ChildFor(heap[l], k) \in L /\ ht[ChildFor(heap[l], k)] < ht[l]
      BY <1>2, <1>3, <2>2
    <3>2. ChildFor(heap[l], k) \in G
      BY <1>8, <3>1
    <3>3. Way(heap, ChildFor(heap[l], k), k, path[ChildFor(heap[l], k)])
      BY <3>2
    <3>4. path[l] = <<l>> \o path[ChildFor(heap[l], k)] /\ l \in Locs
      BY <1>1, <1>7, <2>2
    <3>5. Way(heap, l, k, <<l>> \o path[ChildFor(heap[l], k)])
      BY <2>2, <3>3, <3>4, WayOn
    <3> QED BY <3>4, <3>5
  <2> QED BY <2>1, <2>2
<1>9. L \subseteq G
  <2>1. G \in SUBSET L /\ hts \in [L -> Nat]
    BY <1>2
  <2> HIDE DEF L, G, hts
  <2> QED BY <1>8, <2>1, HeightInduction
<1> QED BY <1>1, <1>6, <1>9

(* Heights fall by one along a way, and each node is the parent of the next *)
(* one.                                                                     *)
LEMMA WayFacts ==
  ASSUME NEW h, NEW r, NEW ht, NEW K, Tree(h, r, ht, K), NEW k \in Keys, NEW p, Way(h, r, k, p)
  PROVE  /\ p \in Seq(Locs) /\ Len(p) \in Nat /\ Len(p) >= 1 /\ p[1] = r
         /\ Len(p) = ht[r] + 1
         /\ \A i \in 1 .. Len(p) : p[i] \in NodesIn(h) /\ p[i] \in Locs /\ ht[p[i]] = ht[r] + 1 - i
         /\ \A i \in 1 .. Len(p) - 1 :
              /\ ~h[p[i]].isLeaf /\ h[p[i + 1]].parent = p[i]
              /\ p[i + 1] = h[p[i]].children[Turn(h[p[i]], k)]
         /\ \A i, j \in 1 .. Len(p) : p[i] = p[j] => i = j
         /\ h[p[Len(p)]].isLeaf
<1>1. /\ p \in Seq(Locs) /\ Len(p) >= 1 /\ p[1] = r /\ h[p[Len(p)]].isLeaf
      /\ \A i \in 1 .. Len(p) : p[i] \in NodesIn(h)
      /\ \A i \in 1 .. Len(p) - 1 : ~h[p[i]].isLeaf /\ p[i + 1] = ChildFor(h[p[i]], k)
  BY DEF Way
<1> DEFINE n == Len(p)
<1>2. n \in Nat /\ \A i \in 1 .. n : p[i] \in Locs
  BY <1>1
<1>3. ASSUME NEW i \in 1 .. n - 1
      PROVE  /\ ~h[p[i]].isLeaf /\ h[p[i + 1]].parent = p[i]
             /\ p[i + 1] = h[p[i]].children[Turn(h[p[i]], k)]
             /\ ht[p[i]] = ht[p[i + 1]] + 1
  <2>1. i \in 1 .. n
    BY <1>2
  <2>2. p[i] \in NodesIn(h) /\ ~h[p[i]].isLeaf /\ p[i + 1] = ChildFor(h[p[i]], k)
    BY <1>1, <2>1
  <2>3. p[i + 1] = h[p[i]].children[Turn(h[p[i]], k)] /\ Turn(h[p[i]], k) \in DOMAIN h[p[i]].children
    BY <2>2, TurnFacts
  <2> QED BY <2>2, <2>3, TreeChild
<1>4. \A i \in 1 .. n : ht[p[i]] \in Nat /\ ht[r] \in Nat
  BY <1>1, TreeNode
<1> HIDE DEF n
<1> DEFINE N == {i \in Nat : i < n => ht[p[i + 1]] = ht[r] - i}
<1>5. Nat \subseteq N
  <2>1. 0 \in N
    BY <1>1, <1>4 DEF n
  <2>2. ASSUME NEW i \in Nat, i \in N PROVE i + 1 \in N
    <3>1. ASSUME i + 1 < n PROVE ht[p[i + 2]] = ht[r] - (i + 1)
      <4>1. i + 1 \in 1 .. n - 1 /\ (i + 1) + 1 = i + 2 /\ i + 2 \in 1 .. n /\ 1 \in 1 .. n
        BY <1>2, <3>1
      <4>2. ht[p[i + 1]] = ht[p[i + 2]] + 1
        BY <1>3, <4>1
      <4>3. ht[p[i + 1]] = ht[r] - i
        BY <1>2, <2>2, <3>1
      <4> QED BY <1>4, <4>1, <4>2, <4>3
    <3>2. (i + 1) + 1 = i + 2
      OBVIOUS
    <3> QED BY <3>1, <3>2
  <2> HIDE DEF N
  <2> QED BY <2>1, <2>2, NatInductionSet
<1>6. ASSUME NEW i \in 1 .. n PROVE ht[p[i]] = ht[r] + 1 - i
  <2>1. i - 1 \in Nat /\ i - 1 < n /\ (i - 1) + 1 = i
    BY <1>2
  <2>2. i - 1 \in N
    BY <1>5, <2>1
  <2>3. ht[p[i]] = ht[r] - (i - 1)
    BY <2>1, <2>2
  <2> QED BY <1>2, <1>4, <2>3
<1>7. n = ht[r] + 1
  <2>1. n \in 1 .. n
    BY <1>1, <1>2 DEF n
  <2>2. p[n] \in NodesIn(h) /\ h[p[n]].isLeaf
    BY <1>1, <2>1 DEF n
  <2>3. ht[p[n]] = 0
    BY <2>2, TreeLeaf
  <2>4. ht[p[n]] = ht[r] + 1 - n
    BY <1>6, <2>1
  <2> QED BY <1>2, <1>4, <2>1, <2>3, <2>4
<1>8. ASSUME NEW i \in 1 .. n, NEW j \in 1 .. n, p[i] = p[j] PROVE i = j
  <2>1. ht[r] + 1 - i = ht[r] + 1 - j
    BY <1>6, <1>8
  <2> QED BY <1>2, <1>4, <2>1
<1> QED BY <1>1, <1>2, <1>3, <1>6, <1>7, <1>8 DEF n

(* A leaf on the way is its end.                                            *)
LEMMA WayEnd ==
  ASSUME NEW h, NEW r, NEW ht, NEW K, Tree(h, r, ht, K), NEW k \in Keys, NEW p, Way(h, r, k, p)
  PROVE  /\ Last(p) \in NodesIn(h) /\ Last(p) \in Locs /\ Last(p) \in ToSet(p) /\ h[Last(p)].isLeaf
         /\ ToSet(p) \subseteq NodesIn(h) /\ r \in ToSet(p)
         /\ \A l \in ToSet(p) : h[l].isLeaf => l = Last(p)
<1>1. /\ p \in Seq(Locs) /\ Len(p) \in Nat /\ Len(p) >= 1 /\ p[1] = r /\ h[p[Len(p)]].isLeaf
      /\ \A i \in 1 .. Len(p) : p[i] \in NodesIn(h) /\ p[i] \in Locs
      /\ \A i \in 1 .. Len(p) - 1 : ~h[p[i]].isLeaf
  BY WayFacts DEF Way
<1>2. DOMAIN p = 1 .. Len(p) /\ 1 \in 1 .. Len(p) /\ Len(p) \in 1 .. Len(p)
  BY <1>1
<1>3. ASSUME NEW i \in 1 .. Len(p), h[p[i]].isLeaf PROVE i = Len(p)
  BY <1>1, <1>3
<1> QED BY <1>1, <1>2, <1>3 DEF Last, ToSet

(* From a node on the way the way goes on where the key turns, and nowhere  *)
(* else it comes to a node.                                                 *)
LEMMA WayTurns ==
  ASSUME NEW h, NEW r, NEW ht, NEW K, Tree(h, r, ht, K), NEW k \in Keys, NEW p, Way(h, r, k, p),
         NEW l \in NodesIn(h), ~h[l].isLeaf, NEW j \in DOMAIN h[l].children
  PROVE  h[l].children[j] \in ToSet(p) <=> l \in ToSet(p) /\ j = Turn(h[l], k)
<1>1. /\ p \in Seq(Locs) /\ Len(p) \in Nat /\ Len(p) >= 1 /\ p[1] = r /\ h[p[Len(p)]].isLeaf
      /\ \A i \in 1 .. Len(p) - 1 :
           /\ ~h[p[i]].isLeaf /\ h[p[i + 1]].parent = p[i]
           /\ p[i + 1] = h[p[i]].children[Turn(h[p[i]], k)]
  BY WayFacts
<1>2. DOMAIN p = 1 .. Len(p)
  BY <1>1
<1> DEFINE c == h[l].children[j]
<1>3. ASSUME c \in ToSet(p) PROVE l \in ToSet(p) /\ j = Turn(h[l], k)
  <2>1. PICK i \in 1 .. Len(p) : c = p[i]
    BY <1>2, <1>3 DEF ToSet
  <2>2. ht[l] = ht[c] + 1 /\ h[c].parent = l /\ c \in NodesIn(h)
    BY TreeChild
  <2>3. ht[l] \in Nat /\ ht[c] \in Nat /\ ht[l] <= ht[r] /\ ht[r] \in Nat
    BY <2>2, TreeNode
  <2>4. i # 1
    BY <1>1, <2>1, <2>2, <2>3
  <2> DEFINE m == i - 1
  <2>5. m \in 1 .. Len(p) - 1 /\ m + 1 = i /\ m \in 1 .. Len(p)
    BY <1>1, <2>4
  <2> HIDE DEF m
  <2>6. l = p[m]
    BY <1>1, <2>1, <2>2, <2>5
  <2>7. h[l].children[j] = h[l].children[Turn(h[l], k)]
    BY <1>1, <2>1, <2>5, <2>6
  <2>8. IsInjective(h[l].children) /\ Turn(h[l], k) \in DOMAIN h[l].children
    BY TreeInner, TurnFacts
  <2>9. j = Turn(h[l], k)
    BY <2>7, <2>8 DEF IsInjective
  <2> QED BY <1>2, <2>5, <2>6, <2>9 DEF ToSet
<1>4. ASSUME l \in ToSet(p), j = Turn(h[l], k) PROVE c \in ToSet(p)
  <2>1. PICK i \in 1 .. Len(p) : l = p[i]
    BY <1>2, <1>4 DEF ToSet
  <2>2. i # Len(p)
    BY <1>1, <2>1
  <2>3. i \in 1 .. Len(p) - 1 /\ i + 1 \in 1 .. Len(p)
    BY <1>1, <2>2
  <2>4. c = p[i + 1]
    BY <1>1, <1>4, <2>1, <2>3
  <2> QED BY <1>2, <2>3, <2>4 DEF ToSet
<1> QED BY <1>3, <1>4

(* All nodes with the key below them are on the way.                        *)
LEMMA WayMeets ==
  ASSUME NEW h, NEW r, NEW ht, NEW K, Tree(h, r, ht, K), NEW k \in Keys, NEW p, Way(h, r, k, p)
  PROVE  \A l \in NodesIn(h) : k \in K[l] => l \in ToSet(p)
<1> DEFINE L == NodesIn(h)
           depth == [l \in L |-> ht[r] - ht[l]]
           G == {l \in L : k \in K[l] => l \in ToSet(p)}
<1>1. \A l \in L : ht[l] \in Nat /\ ht[l] <= ht[r] /\ ht[r] \in Nat
  BY TreeNode
<1>2. depth \in [L -> Nat]
  <2>1. \A l \in L : ht[r] - ht[l] \in Nat
    BY <1>1
  <2> QED BY <2>1
<1>3. ASSUME NEW l \in L, \A m \in L : depth[m] < depth[l] => m \in G PROVE l \in G
  <2> SUFFICES ASSUME k \in K[l] PROVE l \in ToSet(p)
    OBVIOUS
  <2>1. CASE l = r
    BY <2>1, WayEnd
  <2>2. CASE l # r
    <3> DEFINE q == h[l].parent
    <3>1. /\ q \in L /\ ~h[q].isLeaf /\ ht[q] = ht[l] + 1
          /\ \E j \in DOMAIN h[q].children : h[q].children[j] = l
      BY <2>2, TreeParent
    <3> HIDE DEF q
    <3>2. PICK j \in DOMAIN h[q].children : h[q].children[j] = l
      BY <3>1
    <3>3. K[l] \subseteq K[q] /\ \A x \in K[l] : Between(h[q].keys, j, x)
      BY <3>1, <3>2, TreeChild
    <3>4. ht[r] - ht[q] < ht[r] - ht[l]
      BY <1>1, <3>1
    <3>5. q \in G
      BY <1>3, <3>1, <3>4
    <3>6. j = Turn(h[q], k)
      BY <3>1, <3>3, TurnFacts
    <3> QED BY <3>1, <3>2, <3>3, <3>5, <3>6, WayTurns
  <2> QED BY <2>1, <2>2
<1>4. L \subseteq G
  <2>1. G \in SUBSET L
    OBVIOUS
  <2> HIDE DEF L, G, depth
  <2> QED BY <1>2, <1>3, <2>1, HeightInduction
<1> QED BY <1>4

-----------------------------------------------------------------------------
(* What a search finds *)

LEMMA PlaceOfKey ==
  ASSUME NEW keys \in Seq(Int), Ascending(keys), NEW i \in DOMAIN keys, NEW k, keys[i] = k
  PROVE  Below(keys, k) = i
<1>1. /\ Len(keys) \in Nat /\ DOMAIN keys = 1 .. Len(keys)
      /\ \A j \in 1 .. Len(keys) : keys[j] \in Int
  OBVIOUS
<1> DEFINE b == Below(keys, k)
<1>2. k \in Int /\ i \in 1 .. Len(keys)
  BY <1>1
<1>3. b \in 0 .. Len(keys) /\ \A j \in 1 .. Len(keys) : keys[j] <= k <=> j <= b
  BY <1>2, BelowFacts
<1> HIDE DEF b
<1>4. i <= b
  BY <1>1, <1>2, <1>3
<1>5. ASSUME i < b PROVE FALSE
  <2>1. b \in 1 .. Len(keys) /\ keys[i] < keys[b]
    BY <1>1, <1>2, <1>3, <1>5 DEF Ascending
  <2>2. keys[b] <= k /\ keys[b] \in Int
    BY <1>1, <1>3, <2>1
  <2> QED BY <1>2, <2>1, <2>2
<1>6. b = i
  BY <1>1, <1>2, <1>3, <1>4, <1>5
<1> QED BY <1>6 DEF b

(* Entries are the pairs of a key and the location next to it in a leaf.    *)
LEMMA EntryFacts ==
  ASSUME NEW h, h \in Heaps
  PROVE  /\ Entries(h) \subseteq Keys \X Locs
         /\ \A k, a : <<k, a>> \in Entries(h) <=>
              \E l \in NodesIn(h) : /\ h[l].isLeaf
                                    /\ \E i \in DOMAIN h[l].keys : /\ k = h[l].keys[i] /\ a = h[l].children[i]
                                                                   /\ k \in Keys /\ a \in Locs
<1>1. Entries(h) \subseteq Keys \X Locs
  BY DEF Entries
<1>2. ASSUME NEW k, NEW a
      PROVE  <<k, a>> \in Entries(h) <=>
              \E l \in NodesIn(h) : /\ h[l].isLeaf
                                    /\ \E i \in DOMAIN h[l].keys : /\ k = h[l].keys[i] /\ a = h[l].children[i]
                                                                   /\ k \in Keys /\ a \in Locs
  BY DEF Entries
<1> QED BY <1>1, <1>2

(* A key in a leaf is found by counting the keys not above it.              *)
LEMMA LeafEntry ==
  ASSUME NEW h, NEW r, NEW ht, NEW K, Tree(h, r, ht, K), NEW l \in NodesIn(h), h[l].isLeaf
  PROVE  /\ Len(h[l].children) = Len(h[l].keys)
         /\ \A i \in DOMAIN h[l].keys :
              /\ h[l].keys[i] \in Keys /\ h[l].children[i] \in Locs /\ h[l].keys[i] \in K[l]
              /\ i \in DOMAIN h[l].children /\ Below(h[l].keys, h[l].keys[i]) = i
              /\ <<h[l].keys[i], h[l].children[i]>> \in Entries(h)
<1> DEFINE keys == h[l].keys
           children == h[l].children
<1>1. /\ keys \in Seq(Keys) /\ children \in Seq(Locs) /\ Len(children) = Len(keys)
      /\ Ascending(keys) /\ K[l] = ToSet(keys) /\ h \in Heaps
      /\ DOMAIN keys = 1 .. Len(keys) /\ DOMAIN children = 1 .. Len(children)
  <2>1. /\ h[l].keys \in Seq(Keys) /\ h[l].children \in Seq(Locs) /\ Ascending(h[l].keys)
        /\ DOMAIN h[l].keys = 1 .. Len(h[l].keys) /\ DOMAIN h[l].children = 1 .. Len(h[l].children)
        /\ Len(h[l].children) = Len(h[l].keys) + (IF h[l].isLeaf THEN 0 ELSE 1)
    BY TreeNode
  <2>2. Len(h[l].keys) \in Nat
    BY <2>1
  <2> QED BY <2>1, <2>2, TreeLeaf, TreeHeap
<1>2. ASSUME NEW i \in DOMAIN keys
      PROVE  /\ keys[i] \in Keys /\ children[i] \in Locs /\ keys[i] \in K[l]
             /\ i \in DOMAIN children /\ Below(keys, keys[i]) = i
             /\ <<keys[i], children[i]>> \in Entries(h)
  <2>1. i \in DOMAIN children /\ keys[i] \in Keys /\ children[i] \in Locs /\ keys[i] \in ToSet(keys)
    BY <1>1 DEF ToSet
  <2>2. keys \in Seq(Int)
    BY <1>1, KeyLists
  <2>3. Below(keys, keys[i]) = i
    <3> HIDE DEF keys
    <3> QED BY <1>1, <2>2, PlaceOfKey
  <2>4. <<keys[i], children[i]>> \in Entries(h)
    BY <1>1, <2>1, EntryFacts
  <2> QED BY <1>1, <2>1, <2>3, <2>4
<1> QED BY <1>1, <1>2

(* A key is in no leaf but the one at the end of its way.                   *)
LEMMA OnlyThere ==
  ASSUME NEW h, NEW r, NEW ht, NEW K, Tree(h, r, ht, K), NEW k \in Keys, NEW p, Way(h, r, k, p),
         NEW l \in NodesIn(h), h[l].isLeaf, NEW i \in DOMAIN h[l].keys, h[l].keys[i] = k
  PROVE  l = Last(p) /\ i = Below(h[l].keys, k)
<1>1. k \in K[l] /\ i = Below(h[l].keys, k)
  BY LeafEntry
<1>2. l \in ToSet(p)
  BY <1>1, WayMeets
<1> QED BY <1>1, <1>2, WayEnd

(* The way of searchNode ends at the only leaf that may hold the key: the   *)
(* entry it finds there is the entry of the file.                           *)
LEMMA SearchFinds ==
  ASSUME NEW h, NEW r, NEW ht, NEW K, Tree(h, r, ht, K), NEW k \in Keys, NEW p, Way(h, r, k, p)
  PROVE  \A a : <<k, a>> \in Entries(h) <=>
           k \in ToSet(h[Last(p)].keys) /\ a = h[Last(p)].children[Below(h[Last(p)].keys, k)]
<1> DEFINE e == Last(p)
<1>1. e \in NodesIn(h) /\ h[e].isLeaf
  BY WayEnd
<1>2. ASSUME NEW a, <<k, a>> \in Entries(h)
      PROVE  k \in ToSet(h[e].keys) /\ a = h[e].children[Below(h[e].keys, k)]
  <2>1. PICK l \in NodesIn(h) : h[l].isLeaf /\ \E i \in DOMAIN h[l].keys : k = h[l].keys[i] /\ a = h[l].children[i]
    BY <1>2, TreeHeap, EntryFacts
  <2>2. PICK i \in DOMAIN h[l].keys : k = h[l].keys[i] /\ a = h[l].children[i]
    BY <2>1
  <2>3. l = e /\ i = Below(h[l].keys, k)
    BY <2>1, <2>2, OnlyThere
  <2> QED BY <2>2, <2>3 DEF ToSet
<1>3. ASSUME k \in ToSet(h[e].keys)
      PROVE  <<k, h[e].children[Below(h[e].keys, k)]>> \in Entries(h)
  <2>1. PICK i \in DOMAIN h[e].keys : k = h[e].keys[i]
    BY <1>3 DEF ToSet
  <2> HIDE DEF e
  <2> QED BY <1>1, <2>1, LeafEntry
<1> HIDE DEF e
<1>4. \A a : <<k, a>> \in Entries(h) <=>
        k \in ToSet(h[e].keys) /\ a = h[e].children[Below(h[e].keys, k)]
  BY <1>2, <1>3
<1> QED BY <1>4 DEF e

(* The keys below the root are those of the entries.                        *)
LEMMA KeysBelow ==
  ASSUME NEW h, NEW r, NEW ht, NEW K, Tree(h, r, ht, K)
  PROVE  \A l \in NodesIn(h) : K[l] \subseteq K[r]
<1> DEFINE L == NodesIn(h)
           depth == [l \in L |-> ht[r] - ht[l]]
           G == {l \in L : K[l] \subseteq K[r]}
<1>1. \A l \in L : ht[l] \in Nat /\ ht[l] <= ht[r] /\ ht[r] \in Nat
  BY TreeNode
<1>2. depth \in [L -> Nat]
  <2>1. \A l \in L : ht[r] - ht[l] \in Nat
    BY <1>1
  <2> QED BY <2>1
<1>3. ASSUME NEW l \in L, \A m \in L : depth[m] < depth[l] => m \in G PROVE l \in G
  <2>1. CASE l = r
    BY <2>1
  <2>2. CASE l # r
    <3> DEFINE q == h[l].parent
    <3>1. /\ q \in L /\ ~h[q].isLeaf /\ ht[q] = ht[l] + 1
          /\ \E j \in DOMAIN h[q].children : h[q].children[j] = l
      BY <2>2, TreeParent
    <3> HIDE DEF q
    <3>2. K[l] \subseteq K[q]
      BY <3>1, TreeChild
    <3>3. ht[r] - ht[q] < ht[r] - ht[l]
      BY <1>1, <3>1
    <3>4. q \in G
      BY <1>3, <3>1, <3>3
    <3> QED BY <3>2, <3>4
  <2> QED BY <2>1, <2>2
<1>4. L \subseteq G
  <2>1. G \in SUBSET L
    OBVIOUS
  <2> HIDE DEF L, G, depth
  <2> QED BY <1>2, <1>3, <2>1, HeightInduction
<1> QED BY <1>4

(* Each key of the key set of a node is in a leaf; by induction on the      *)
(* height.                                                                  *)
LEMMA KeysInLeaves ==
  ASSUME NEW h, NEW r, NEW ht, NEW K, Tree(h, r, ht, K)
  PROVE  \A l \in NodesIn(h) : \A k \in K[l] : \E a : <<k, a>> \in Entries(h)
<1> DEFINE L == NodesIn(h)
           hts == [l \in L |-> ht[l]]
           G == {l \in L : \A k \in K[l] : \E a : <<k, a>> \in Entries(h)}
<1>1. hts \in [L -> Nat]
  BY TreeNode
<1>2. ASSUME NEW l \in L, \A m \in L : hts[m] < hts[l] => m \in G PROVE l \in G
  <2> SUFFICES ASSUME NEW k \in K[l] PROVE \E a : <<k, a>> \in Entries(h)
    OBVIOUS
  <2>1. CASE h[l].isLeaf
    <3>1. K[l] = ToSet(h[l].keys)
      BY <2>1, TreeLeaf
    <3>2. PICK i \in DOMAIN h[l].keys : k = h[l].keys[i]
      BY <3>1 DEF ToSet
    <3>3. <<k, h[l].children[i]>> \in Entries(h)
      BY <2>1, <3>2, LeafEntry
    <3> QED BY <3>3
  <2>2. CASE ~h[l].isLeaf
    <3>1. PICK i \in DOMAIN h[l].children : k \in K[h[l].children[i]]
      BY <2>2, TreeInner
    <3> DEFINE c == h[l].children[i]
    <3>2. c \in L /\ ht[l] = ht[c] + 1
      BY <2>2, TreeChild
    <3>3. k \in K[c]
      BY <3>1
    <3>4. ht[c] \in Nat
      BY <3>2, TreeNode
    <3> HIDE DEF c
    <3>5. hts[c] < hts[l]
      BY <3>2, <3>4
    <3>6. c \in G
      BY <1>2, <3>2, <3>5
    <3> QED BY <3>3, <3>6
  <2> QED BY <2>1, <2>2
<1>3. L \subseteq G
  <2>1. G \in SUBSET L
    OBVIOUS
  <2> HIDE DEF L, G, hts
  <2> QED BY <1>1, <1>2, <2>1, HeightInduction
<1> QED BY <1>3

(* The key set of the root is the set of the keys with an entry.            *)
LEMMA RootKeys ==
  ASSUME NEW h, NEW r, NEW ht, NEW K, Tree(h, r, ht, K)
  PROVE  K[r] = {k \in Keys : \E a : <<k, a>> \in Entries(h)}
<1>1. r \in NodesIn(h) /\ K[r] \subseteq Keys /\ h \in Heaps
  BY TreeHeap
<1>2. ASSUME NEW k \in Keys, NEW a, <<k, a>> \in Entries(h) PROVE k \in K[r]
  <2>1. PICK l \in NodesIn(h) : h[l].isLeaf /\ \E i \in DOMAIN h[l].keys : k = h[l].keys[i] /\ a = h[l].children[i]
    BY <1>1, <1>2, EntryFacts
  <2>2. PICK i \in DOMAIN h[l].keys : k = h[l].keys[i]
    BY <2>1
  <2>3. k \in K[l]
    BY <2>1, <2>2, LeafEntry
  <2> QED BY <2>3, KeysBelow
<1>3. \A k \in K[r] : \E a : <<k, a>> \in Entries(h)
  BY <1>1, KeysInLeaves
<1> QED BY <1>1, <1>2, <1>3

-----------------------------------------------------------------------------
(* A leaf changes *)

Pairs(n) == {<<n.keys[i], n.children[i]>> : i \in DOMAIN n.keys}
FirstOf(T) == {x[1] : x \in T}

(* The pairs of one leaf.                                                   *)
LEMMA PairFacts ==
  ASSUME NEW n
  PROVE  \A k, a : <<k, a>> \in Pairs(n) <=> \E i \in DOMAIN n.keys : k = n.keys[i] /\ a = n.children[i]
<1>1. ASSUME NEW k, NEW a
      PROVE  <<k, a>> \in Pairs(n) <=> \E i \in DOMAIN n.keys : k = n.keys[i] /\ a = n.children[i]
  BY DEF Pairs
<1> QED BY <1>1

(* What the leaf at e holds for k changes from h to g to T.                 *)
LeafChange(h, g, e, k, T) ==
  /\ h \in Heaps /\ g \in Heaps /\ k \in Keys /\ T \subseteq {k} \X Locs
  /\ e \in NodesIn(h) /\ h[e].isLeaf /\ g[e].isLeaf /\ g[e].parent = h[e].parent
  /\ NodesIn(g) = NodesIn(h) /\ \A l \in NodesIn(h) \ {e} : g[l] = h[l]
  /\ ShapeOK(g[e])
  /\ Pairs(g[e]) = {x \in Pairs(h[e]) : x[1] # k} \cup T

KeysAfter(K, p, k, T) ==
  [l \in Locs |-> IF l \in ToSet(p) THEN (K[l] \ {k}) \cup FirstOf(T) ELSE K[l]]

(* The keys of a set of entries for one key.                                *)
LEMMA FirstFacts ==
  ASSUME NEW k \in Keys, NEW T \in SUBSET ({k} \X Locs)
  PROVE  /\ FirstOf(T) \subseteq {k}
         /\ k \in FirstOf(T) <=> T # {}
<1>1. \A x \in T : x[1] = k
  OBVIOUS
<1> QED BY <1>1 DEF FirstOf

(* The keys of a leaf are those of its pairs.                               *)
LEMMA PairKeys ==
  ASSUME NEW n
  PROVE  \A k : k \in ToSet(n.keys) <=> \E a : <<k, a>> \in Pairs(n)
<1>1. ASSUME NEW k PROVE k \in ToSet(n.keys) <=> \E i \in DOMAIN n.keys : k = n.keys[i]
  BY DEF ToSet
<1>2. ASSUME NEW k PROVE (\E a : <<k, a>> \in Pairs(n)) <=> \E i \in DOMAIN n.keys : k = n.keys[i]
  <2>1. ASSUME NEW a, <<k, a>> \in Pairs(n) PROVE \E i \in DOMAIN n.keys : k = n.keys[i]
    BY <2>1, PairFacts
  <2>2. ASSUME NEW i \in DOMAIN n.keys, k = n.keys[i] PROVE <<k, n.children[i]>> \in Pairs(n)
    BY <2>2, PairFacts
  <2> QED BY <2>1, <2>2
<1> QED BY <1>1, <1>2

(* The keys of the leaf that changes: as before but for k.                  *)
LEMMA LeafChangeKeys ==
  ASSUME NEW h, NEW g, NEW e, NEW k, NEW T, LeafChange(h, g, e, k, T)
  PROVE  ToSet(g[e].keys) = (ToSet(h[e].keys) \ {k}) \cup FirstOf(T)
<1>1. /\ T \subseteq {k} \X Locs /\ k \in Keys
      /\ Pairs(g[e]) = {x \in Pairs(h[e]) : x[1] # k} \cup T
  BY DEF LeafChange
<1>2. ASSUME NEW x, x \in ToSet(g[e].keys)
      PROVE  x \in (ToSet(h[e].keys) \ {k}) \cup FirstOf(T)
  <2>1. PICK a : <<x, a>> \in Pairs(g[e])
    BY <1>2, PairKeys
  <2>2. CASE <<x, a>> \in T
    <3>1. x = <<x, a>>[1]
      OBVIOUS
    <3> QED BY <2>2, <3>1 DEF FirstOf
  <2>3. CASE <<x, a>> \notin T
    <3>1. <<x, a>> \in Pairs(h[e]) /\ x # k
      BY <1>1, <2>1, <2>3
    <3> QED BY <3>1, PairKeys
  <2> QED BY <2>2, <2>3
<1>3. ASSUME NEW x, x \in ToSet(h[e].keys), x # k PROVE x \in ToSet(g[e].keys)
  <2>1. PICK a : <<x, a>> \in Pairs(h[e])
    BY <1>3, PairKeys
  <2>2. <<x, a>> \in Pairs(g[e])
    BY <1>1, <1>3, <2>1
  <2> QED BY <2>2, PairKeys
<1>4. ASSUME NEW x \in FirstOf(T) PROVE x \in ToSet(g[e].keys)
  <2>1. x = k /\ T # {}
    BY <1>1, FirstFacts
  <2>2. PICK y \in T : y[1] = k /\ y = <<k, y[2]>>
    BY <1>1, <2>1
  <2>3. <<k, y[2]>> \in Pairs(g[e])
    BY <1>1, <2>2
  <2> QED BY <2>1, <2>3, PairKeys
<1> QED BY <1>2, <1>3, <1>4

(* A change of the entry of k in the leaf where searchNode ends leaves a    *)
(* tree; the key sets along the way change with it.                         *)
LEMMA LeafChangeTree ==
  ASSUME NEW h, NEW r, NEW ht, NEW K, Tree(h, r, ht, K), NEW k \in Keys, NEW p, Way(h, r, k, p),
         NEW g, NEW T, LeafChange(h, g, Last(p), k, T)
  PROVE  Tree(g, r, ht, KeysAfter(K, p, k, T))
<1> DEFINE e == Last(p)
           S == FirstOf(T)
           J == KeysAfter(K, p, k, T)
           P == ToSet(p)
           L == NodesIn(h)
<1>1. /\ g \in Heaps /\ T \subseteq {k} \X Locs
      /\ e \in L /\ h[e].isLeaf /\ g[e].isLeaf /\ g[e].parent = h[e].parent
      /\ NodesIn(g) = L /\ \A l \in L \ {e} : g[l] = h[l]
      /\ ShapeOK(g[e])
  BY DEF LeafChange
<1>2. S \subseteq {k}
  BY <1>1, FirstFacts
<1>3. ToSet(g[e].keys) = (ToSet(h[e].keys) \ {k}) \cup S
  BY LeafChangeKeys
<1>4. /\ ht \in [Locs -> Nat] /\ K \in [Locs -> SUBSET Keys]
      /\ r \in L /\ h[r].parent = NoLoc /\ L \subseteq Locs
  BY TreeHeap
<1>5. /\ J \in [Locs -> SUBSET Keys]
      /\ \A l \in L : J[l] = IF l \in P THEN (K[l] \ {k}) \cup S ELSE K[l]
  BY <1>2, <1>4 DEF KeysAfter
<1>6. \A l \in L : l \notin P => k \notin K[l]
  BY WayMeets
<1>7. /\ e \in P /\ P \subseteq L /\ r \in P /\ \A l \in P : h[l].isLeaf => l = e
  BY WayEnd
<1> HIDE DEF J, S, P, L, e
<1>8. \A l \in L : (g[l].isLeaf <=> h[l].isLeaf) /\ g[l].parent = h[l].parent
  <2>1. ASSUME NEW l \in L PROVE (g[l].isLeaf <=> h[l].isLeaf) /\ g[l].parent = h[l].parent
    <3>1. CASE l = e
      BY <1>1, <3>1
    <3>2. CASE l # e
      BY <1>1, <3>2
    <3> QED BY <3>1, <3>2
  <2> QED BY <2>1
<1>9. ASSUME NEW l \in L PROVE NodeOK(g, l, ht, J) /\ ht[l] <= ht[r]
  <2>1. CASE l = e
    <3>1. K[e] = ToSet(h[e].keys) /\ ht[e] = 0
      BY <1>1, TreeLeaf DEF L
    <3>2. J[e] = ToSet(g[e].keys)
      BY <1>3, <1>5, <1>7, <2>1, <3>1
    <3>3. ht[r] \in Nat
      BY <1>4
    <3> QED BY <1>1, <2>1, <3>1, <3>2, <3>3 DEF NodeOK, LeafOK
  <2>2. CASE l # e /\ h[l].isLeaf
    <3>1. g[l] = h[l] /\ l \notin P /\ J[l] = K[l]
      BY <1>1, <1>5, <1>7, <2>2
    <3>2. NodeOK(h, l, ht, K) /\ ht[l] <= ht[r]
      BY DEF Tree, L
    <3> QED BY <2>2, <3>1, <3>2 DEF NodeOK, LeafOK
  <2>3. CASE ~h[l].isLeaf
    <3>1. g[l] = h[l] /\ ShapeOK(h[l]) /\ ht[l] <= ht[r]
      BY <1>1, <2>3 DEF Tree, NodeOK, L
    <3> DEFINE n == h[l]
    <3>2. Turn(n, k) \in DOMAIN n.children /\ Between(n.keys, Turn(n, k), k)
      BY <2>3, TurnFacts DEF L
    <3>3. ASSUME NEW i \in DOMAIN n.children
          PROVE  /\ ChildOK(g, l, i, ht, J)
                 /\ \A x \in K[n.children[i]] : x # k => x \in J[n.children[i]]
                 /\ i = Turn(n, k) /\ l \in P => S \subseteq J[n.children[i]]
      <4> DEFINE c == n.children[i]
      <4>1. /\ c \in L /\ h[c].parent = l /\ ht[l] = ht[c] + 1
            /\ K[c] \subseteq K[l] /\ \A x \in K[c] : Between(n.keys, i, x)
        BY <2>3, TreeChild DEF L
      <4>2. c \in P <=> l \in P /\ i = Turn(n, k)
        BY <2>3, WayTurns DEF L, P
      <4> HIDE DEF c
      <4>3. J[c] \subseteq J[l]
        <5>1. CASE l \in P /\ c \notin P
          BY <1>2, <1>5, <1>6, <4>1, <5>1
        <5>2. CASE l \in P /\ c \in P
          BY <1>2, <1>5, <1>6, <4>1, <5>2
        <5>3. CASE l \notin P
          BY <1>2, <1>5, <1>6, <4>1, <4>2, <5>3
        <5> QED BY <5>1, <5>2, <5>3
      <4>4. ASSUME NEW x \in J[c] PROVE Between(n.keys, i, x)
        <5>1. CASE x \in K[c]
          BY <4>1, <5>1
        <5>2. CASE x \notin K[c]
          <6>1. x = k /\ c \in P
            BY <1>2, <1>5, <4>1, <5>2
          <6> QED BY <3>2, <4>2, <6>1
        <5> QED BY <5>1, <5>2
      <4>5. c \in NodesIn(g) /\ g[c].parent = l
        BY <1>1, <1>8, <4>1
      <4>6. g[l].children[i] = c /\ g[l].keys = n.keys
        BY <3>1 DEF c
      <4>7. ChildOK(g, l, i, ht, J)
        BY <4>1, <4>3, <4>4, <4>5, <4>6 DEF ChildOK
      <4>8. \A x \in K[c] : x # k => x \in J[c]
        BY <1>5, <4>1
      <4>9. i = Turn(n, k) /\ l \in P => S \subseteq J[c]
        BY <1>5, <4>1, <4>2
      <4> QED BY <4>7, <4>8, <4>9 DEF c
    <3>4. ASSUME NEW x \in J[l] PROVE \E i \in DOMAIN n.children : x \in J[n.children[i]]
      <4>1. CASE x \in K[l] /\ x # k
        <5>1. PICK i \in DOMAIN n.children : x \in K[n.children[i]]
          BY <2>3, <4>1, TreeInner DEF L
        <5> QED BY <3>3, <4>1, <5>1
      <4>2. CASE x \notin K[l] \/ x = k
        <5>1. l \in P /\ x \in S
          BY <1>2, <1>5, <1>6, <4>2
        <5> QED BY <3>2, <3>3, <5>1
      <4> QED BY <4>1, <4>2
    <3>5. IsInjective(n.children)
      BY <2>3, TreeInner DEF L
    <3>6. InnerOK(g, l, ht, J)
      BY <3>1, <3>3, <3>4, <3>5 DEF InnerOK
    <3> QED BY <2>3, <3>1, <3>6 DEF NodeOK
  <2> QED BY <2>1, <2>2, <2>3
<1>10. ASSUME NEW l \in L \ {r} PROVE \E i \in Nat : ChildOf(g, l, g[l].parent, i)
  <2>1. PICK i \in Nat : ChildOf(h, l, h[l].parent, i)
    BY DEF Tree, L
  <2>2. h[l].parent \in L /\ ~h[h[l].parent].isLeaf
    BY <2>1 DEF ChildOf, L
  <2>3. h[l].parent # e
    BY <1>1, <2>2
  <2>4. g[h[l].parent] = h[h[l].parent]
    BY <1>1, <2>2, <2>3
  <2>5. ChildOf(g, l, g[l].parent, i)
    BY <1>1, <1>8, <2>1, <2>2, <2>4 DEF ChildOf, L
  <2> QED BY <2>5
<1>11. g[r].parent = NoLoc
  BY <1>4, <1>8
<1>12. Tree(g, r, ht, J)
  BY <1>1, <1>4, <1>5, <1>9, <1>10, <1>11 DEF Tree
<1> QED BY <1>12 DEF J

(* Only the entry of k changes.                                             *)
LEMMA LeafChangeEntries ==
  ASSUME NEW h, NEW r, NEW ht, NEW K, Tree(h, r, ht, K), NEW k \in Keys, NEW p, Way(h, r, k, p),
         NEW g, NEW T, LeafChange(h, g, Last(p), k, T)
  PROVE  Entries(g) = {x \in Entries(h) : x[1] # k} \cup T
<1> DEFINE e == Last(p)
           L == NodesIn(h)
<1>1. /\ g \in Heaps /\ h \in Heaps /\ T \subseteq {k} \X Locs
      /\ e \in L /\ h[e].isLeaf /\ g[e].isLeaf
      /\ NodesIn(g) = L /\ \A l \in L \ {e} : g[l] = h[l]
      /\ Pairs(g[e]) = {x \in Pairs(h[e]) : x[1] # k} \cup T
  BY DEF LeafChange
<1>2. /\ Entries(g) \subseteq Keys \X Locs /\ Entries(h) \subseteq Keys \X Locs
  BY <1>1, EntryFacts
<1>3. ASSUME NEW x \in Keys, NEW a \in Locs
      PROVE  /\ <<x, a>> \in Entries(h) <=> \E l \in L : h[l].isLeaf /\ <<x, a>> \in Pairs(h[l])
             /\ <<x, a>> \in Entries(g) <=> \E l \in L : g[l].isLeaf /\ <<x, a>> \in Pairs(g[l])
  BY <1>1, <1>3, EntryFacts, PairFacts
<1>4. ASSUME NEW l \in L, h[l].isLeaf, l # e, NEW a PROVE <<k, a>> \notin Pairs(h[l])
  <2> SUFFICES ASSUME <<k, a>> \in Pairs(h[l]) PROVE FALSE
    OBVIOUS
  <2>1. PICK i \in DOMAIN h[l].keys : k = h[l].keys[i]
    BY PairFacts
  <2> QED BY <1>4, <2>1, OnlyThere
<1> HIDE DEF e, L
<1>5. ASSUME NEW x \in Keys, NEW a \in Locs
      PROVE  <<x, a>> \in Entries(g) <=> (<<x, a>> \in Entries(h) /\ x # k) \/ <<x, a>> \in T
  <2>1. CASE x # k
    <3>1. <<x, a>> \notin T
      BY <1>1, <2>1
    <3>2. \A l \in L : /\ h[l].isLeaf <=> g[l].isLeaf
                       /\ <<x, a>> \in Pairs(h[l]) <=> <<x, a>> \in Pairs(g[l])
      BY <1>1, <2>1, <3>1
    <3> QED BY <1>3, <2>1, <3>1, <3>2
  <2>2. CASE x = k
    <3>1. \A l \in L : g[l].isLeaf /\ <<x, a>> \in Pairs(g[l]) => l = e
      BY <1>1, <1>4, <2>2
    <3>2. <<x, a>> \in Pairs(g[e]) <=> <<x, a>> \in T
      BY <1>1, <2>2
    <3> QED BY <1>1, <1>3, <2>2, <3>1, <3>2
  <2> QED BY <2>1, <2>2
<1>6. \A y \in Keys \X Locs : y = <<y[1], y[2]>> /\ y[1] \in Keys /\ y[2] \in Locs
  OBVIOUS
<1>7. T \subseteq Keys \X Locs
  BY <1>1
<1>8. \A y \in Keys \X Locs : y \in Entries(g) <=> (y \in Entries(h) /\ y[1] # k) \/ y \in T
  BY <1>5, <1>6
<1> QED BY <1>2, <1>7, <1>8

-----------------------------------------------------------------------------
(* Ascending lists *)

LEMMA AscendingInsert ==
  ASSUME NEW s \in Seq(Int), Ascending(s), NEW i \in 1 .. Len(s) + 1, NEW u \in Int,
         \A j \in 1 .. Len(s) : (j < i => s[j] < u) /\ (j >= i => u < s[j])
  PROVE  Ascending(InsertAt(s, i, u))
<1> DEFINE t == InsertAt(s, i, u)
           n == Len(s)
<1>1. /\ t \in Seq(Int) /\ Len(t) = n + 1
      /\ \A j \in 1 .. n + 1 : t[j] = IF j < i THEN s[j] ELSE IF j = i THEN u ELSE s[j - 1]
  <2>1. Inserted(t, Int, s, i, u)
    BY InsertedIs
  <2> QED BY <2>1 DEF Inserted
<1>2. n \in Nat /\ DOMAIN s = 1 .. n /\ DOMAIN t = 1 .. n + 1 /\ \A j \in 1 .. n : s[j] \in Int
  BY <1>1
<1>3. \A j, m \in 1 .. n : j < m => s[j] < s[m]
  BY <1>2 DEF Ascending
<1> HIDE DEF t, n
<1>4. ASSUME NEW j \in 1 .. n + 1, NEW m \in 1 .. n + 1, j < m PROVE t[j] < t[m]
  <2>1. CASE m < i
    <3>1. t[j] = s[j] /\ t[m] = s[m] /\ j \in 1 .. n /\ m \in 1 .. n
      BY <1>1, <1>2, <1>4, <2>1 DEF n
    <3> QED BY <1>3, <1>4, <3>1
  <2>2. CASE m = i
    <3>1. t[j] = s[j] /\ t[m] = u /\ j \in 1 .. n /\ j < i
      BY <1>1, <1>2, <1>4, <2>2 DEF n
    <3> QED BY <3>1 DEF n
  <2>3. CASE m > i /\ j < i
    <3>1. t[j] = s[j] /\ t[m] = s[m - 1] /\ j \in 1 .. n /\ m - 1 \in 1 .. n /\ m - 1 >= i
      BY <1>1, <1>2, <1>4, <2>3 DEF n
    <3>2. s[j] < u /\ u < s[m - 1]
      BY <2>3, <3>1 DEF n
    <3> QED BY <1>2, <3>1, <3>2
  <2>4. CASE m > i /\ j = i
    <3>1. t[j] = u /\ t[m] = s[m - 1] /\ m - 1 \in 1 .. n /\ m - 1 >= i
      BY <1>1, <1>2, <1>4, <2>4 DEF n
    <3> QED BY <3>1 DEF n
  <2>5. CASE m > i /\ j > i
    <3>1. t[j] = s[j - 1] /\ t[m] = s[m - 1] /\ m - 1 \in 1 .. n /\ j - 1 \in 1 .. n /\ j - 1 < m - 1
      BY <1>1, <1>2, <1>4, <2>5 DEF n
    <3> QED BY <1>3, <3>1
  <2>6. m < i \/ m = i \/ (m > i /\ (j < i \/ j = i \/ j > i))
    BY <1>2
  <2> QED BY <2>1, <2>2, <2>3, <2>4, <2>5, <2>6
<1>5. Ascending(t)
  BY <1>2, <1>4 DEF Ascending
<1> QED BY <1>5 DEF t

(* A list in ascending order stays so without one of its elements.          *)
LEMMA AscendingRemove ==
  ASSUME NEW s \in Seq(Int), Ascending(s), NEW i \in 1 .. Len(s)
  PROVE  Ascending(RemoveAt(s, i))
<1> DEFINE t == RemoveAt(s, i)
           n == Len(s)
<1>1. /\ t \in Seq(Int) /\ Len(t) = n - 1
      /\ \A j \in 1 .. n - 1 : t[j] = IF j < i THEN s[j] ELSE s[j + 1]
  BY RemovedAt
<1>2. n \in Nat /\ DOMAIN s = 1 .. n /\ DOMAIN t = 1 .. n - 1
  BY <1>1
<1>3. \A j, m \in 1 .. n : j < m => s[j] < s[m]
  BY <1>2 DEF Ascending
<1> HIDE DEF t, n
<1>4. ASSUME NEW j \in 1 .. n - 1, NEW m \in 1 .. n - 1, j < m PROVE t[j] < t[m]
  <2>1. CASE m < i
    BY <1>1, <1>2, <1>3, <1>4, <2>1
  <2>2. CASE m >= i /\ j < i
    <3>1. t[j] = s[j] /\ t[m] = s[m + 1] /\ j \in 1 .. n /\ m + 1 \in 1 .. n /\ j < m + 1
      BY <1>1, <1>2, <1>4, <2>2
    <3> QED BY <1>3, <3>1
  <2>3. CASE m >= i /\ j >= i
    <3>1. t[j] = s[j + 1] /\ t[m] = s[m + 1] /\ j + 1 \in 1 .. n /\ m + 1 \in 1 .. n /\ j + 1 < m + 1
      BY <1>1, <1>2, <1>4, <2>3
    <3> QED BY <1>3, <3>1
  <2>4. m < i \/ (m >= i /\ (j < i \/ j >= i))
    BY <1>2 DEF n
  <2> QED BY <2>1, <2>2, <2>3, <2>4
<1>5. Ascending(t)
  BY <1>2, <1>4 DEF Ascending
<1> QED BY <1>5 DEF t

(* A part of a list in ascending order is in ascending order.               *)
LEMMA AscendingCut ==
  ASSUME NEW s \in Seq(Int), Ascending(s), NEW i \in 1 .. Len(s) + 1, NEW j \in i - 1 .. Len(s)
  PROVE  Ascending(SubSeq(s, i, j))
<1> DEFINE t == SubSeq(s, i, j)
<1>1. /\ t \in Seq(Int) /\ Len(t) = j - i + 1
      /\ \A m \in 1 .. j - i + 1 : t[m] = s[m + i - 1]
  BY CutFrom
<1>2. Len(s) \in Nat /\ DOMAIN s = 1 .. Len(s) /\ DOMAIN t = 1 .. j - i + 1
  BY <1>1
<1> HIDE DEF t
<1>3. ASSUME NEW a \in 1 .. j - i + 1, NEW b \in 1 .. j - i + 1, a < b PROVE t[a] < t[b]
  <2>1. a + i - 1 \in 1 .. Len(s) /\ b + i - 1 \in 1 .. Len(s) /\ a + i - 1 < b + i - 1
    BY <1>2, <1>3
  <2>2. s[a + i - 1] < s[b + i - 1]
    BY <1>2, <2>1 DEF Ascending
  <2> QED BY <1>1, <2>2
<1>4. Ascending(t)
  BY <1>2, <1>3 DEF Ascending
<1> QED BY <1>4 DEF t

-----------------------------------------------------------------------------
(* What the operations make of a leaf *)

(* A leaf with an entry more.                                               *)
WithEntry(n, k, a) ==
  LET at == Below(n.keys, k) + 1
  IN  [n EXCEPT !.keys = InsertAt(@, at, k), !.children = InsertAt(@, at, a)]

(* The lists of a leaf are equally long, and no key is twice in it.         *)
LEMMA LeafLists ==
  ASSUME NEW n \in NodeRecs, n.isLeaf, ShapeOK(n)
  PROVE  /\ n.keys \in Seq(Keys) /\ n.children \in Seq(Locs) /\ n.keys \in Seq(Int)
         /\ Len(n.keys) \in Nat /\ Len(n.children) = Len(n.keys)
         /\ DOMAIN n.keys = 1 .. Len(n.keys) /\ DOMAIN n.children = 1 .. Len(n.keys)
         /\ Ascending(n.keys)
         /\ \A i \in 1 .. Len(n.keys) : n.keys[i] \in Keys /\ n.keys[i] \in Int /\ n.children[i] \in Locs
         /\ \A i, j \in 1 .. Len(n.keys) : n.keys[i] = n.keys[j] => i = j
<1>1. n.keys \in Seq(Keys) /\ n.children \in Seq(Locs)
  BY DEF NodeRecs
<1>2. n.keys \in Seq(Int)
  BY <1>1, KeyLists
<1>3. /\ Len(n.keys) \in Nat /\ DOMAIN n.keys = 1 .. Len(n.keys) /\ DOMAIN n.children = 1 .. Len(n.children)
      /\ \A i \in 1 .. Len(n.keys) : n.keys[i] \in Keys /\ n.keys[i] \in Int
      /\ \A i \in 1 .. Len(n.children) : n.children[i] \in Locs
  BY <1>1, <1>2
<1>4. Len(n.children) = Len(n.keys) /\ Ascending(n.keys)
  BY <1>3 DEF ShapeOK
<1>5. ASSUME NEW i \in 1 .. Len(n.keys), NEW j \in 1 .. Len(n.keys), n.keys[i] = n.keys[j] PROVE i = j
  <2>1. \A a, b \in 1 .. Len(n.keys) : a < b => n.keys[a] < n.keys[b]
    BY <1>3, <1>4 DEF Ascending
  <2>2. ~(i < j) /\ ~(j < i)
    BY <1>3, <1>5, <2>1
  <2> QED BY <1>3, <2>2
<1> QED BY <1>1, <1>2, <1>3, <1>4, <1>5

(* m is the node n with other keys and children.                            *)
Relisted(m, n, keys, children) ==
  /\ n \in NodeRecs /\ keys \in Seq(Keys) /\ children \in Seq(Locs)
  /\ m = [n EXCEPT !.keys = keys, !.children = children]

(* A node given other lists keeps all else.                                 *)
LEMMA RelistedFacts ==
  ASSUME NEW n, NEW keys, NEW children, NEW m, Relisted(m, n, keys, children)
  PROVE  /\ m \in NodeRecs /\ m.keys = keys /\ m.children = children
         /\ (m.isLeaf <=> n.isLeaf) /\ m.parent = n.parent /\ m.kind = "node"
BY DEF Relisted, NodeRecs

(* insertDataFrom adds one pair to a leaf and keeps its order.              *)
LEMMA LeafWith ==
  ASSUME NEW n \in NodeRecs, n.isLeaf, ShapeOK(n), NEW k \in Keys, NEW a \in Locs, k \notin ToSet(n.keys)
  PROVE  /\ WithEntry(n, k, a) \in NodeRecs /\ WithEntry(n, k, a).isLeaf
         /\ WithEntry(n, k, a).parent = n.parent
         /\ ShapeOK(WithEntry(n, k, a))
         /\ Len(WithEntry(n, k, a).keys) = Len(n.keys) + 1
         /\ Pairs(WithEntry(n, k, a)) = {x \in Pairs(n) : x[1] # k} \cup {<<k, a>>}
<1> DEFINE m == WithEntry(n, k, a)
           l == Len(n.keys)
           keys == n.keys
           children == n.children
           at == Below(n.keys, k) + 1
<1>1. /\ keys \in Seq(Keys) /\ children \in Seq(Locs) /\ keys \in Seq(Int)
      /\ l \in Nat /\ Len(children) = l /\ Len(keys) = l
      /\ DOMAIN keys = 1 .. l /\ DOMAIN children = 1 .. l /\ Ascending(keys)
      /\ \A i \in 1 .. l : keys[i] \in Int
  BY LeafLists
<1>2. k \in Int
  BY KeyLists
<1>3. at \in 1 .. l + 1 /\ \A i \in 1 .. l : keys[i] <= k <=> i < at
  <2>1. /\ Below(keys, k) \in 0 .. l /\ \A i \in 1 .. l : keys[i] <= k <=> i <= Below(keys, k)
    <3> HIDE DEF keys
    <3> QED BY <1>1, <1>2, BelowFacts
  <2> QED BY <1>1, <2>1
<1>4. \A i \in 1 .. l : keys[i] # k
  BY <1>1 DEF ToSet
<1> HIDE DEF m, l, keys, children, at
<1>6. /\ InsertAt(keys, at, k) \in Seq(Keys) /\ Len(InsertAt(keys, at, k)) = l + 1
      /\ \A j \in 1 .. l + 1 :
           InsertAt(keys, at, k)[j] = IF j < at THEN keys[j] ELSE IF j = at THEN k ELSE keys[j - 1]
      /\ InsertAt(children, at, a) \in Seq(Locs) /\ Len(InsertAt(children, at, a)) = l + 1
      /\ \A j \in 1 .. l + 1 :
           InsertAt(children, at, a)[j] = IF j < at THEN children[j] ELSE IF j = at THEN a ELSE children[j - 1]
  <2>1. /\ at \in 1 .. Len(keys) + 1 /\ at \in 1 .. Len(children) + 1
        /\ keys \in Seq(Keys) /\ children \in Seq(Locs)
    BY <1>1, <1>3
  <2>2. /\ InsertAt(keys, at, k) \in Seq(Keys) /\ Len(InsertAt(keys, at, k)) = Len(keys) + 1
        /\ \A j \in 1 .. Len(keys) + 1 :
             InsertAt(keys, at, k)[j] = IF j < at THEN keys[j] ELSE IF j = at THEN k ELSE keys[j - 1]
    <3>1. Inserted(InsertAt(keys, at, k), Keys, keys, at, k)
      BY <2>1, InsertedIs
    <3> QED BY <3>1 DEF Inserted
  <2>3. /\ InsertAt(children, at, a) \in Seq(Locs) /\ Len(InsertAt(children, at, a)) = Len(children) + 1
        /\ \A j \in 1 .. Len(children) + 1 :
             InsertAt(children, at, a)[j] = IF j < at THEN children[j] ELSE IF j = at THEN a ELSE children[j - 1]
    <3>1. Inserted(InsertAt(children, at, a), Locs, children, at, a)
      BY <2>1, InsertedIs
    <3> QED BY <3>1 DEF Inserted
  <2> QED BY <1>1, <2>2, <2>3
<1>5. Relisted(m, n, InsertAt(keys, at, k), InsertAt(children, at, a))
  BY <1>6 DEF Relisted, WithEntry, m, keys, children, at
<1>7. /\ m.keys = InsertAt(keys, at, k)
      /\ m.keys \in Seq(Keys) /\ Len(m.keys) = l + 1
      /\ \A j \in 1 .. l + 1 : m.keys[j] = IF j < at THEN keys[j] ELSE IF j = at THEN k ELSE keys[j - 1]
      /\ m.children \in Seq(Locs) /\ Len(m.children) = l + 1
      /\ m \in NodeRecs /\ m.isLeaf /\ m.parent = n.parent
  <2>1. /\ m.keys = InsertAt(keys, at, k) /\ m.children = InsertAt(children, at, a)
        /\ m \in NodeRecs /\ (m.isLeaf <=> n.isLeaf) /\ m.parent = n.parent
    BY <1>5, RelistedFacts
  <2> QED BY <1>6, <2>1
<1>8. \A j \in 1 .. l + 1 : m.children[j] = IF j < at THEN children[j] ELSE IF j = at THEN a ELSE children[j - 1]
  <2>1. m.children = InsertAt(children, at, a)
    BY <1>5, RelistedFacts
  <2> QED BY <1>6, <2>1
<1>9. Ascending(m.keys)
  <2>1. \A j \in 1 .. l : (j < at => keys[j] < k) /\ (j >= at => k < keys[j])
    BY <1>1, <1>2, <1>3, <1>4
  <2>2. at \in 1 .. Len(keys) + 1
    BY <1>1, <1>3
  <2> QED BY <1>1, <1>2, <1>7, <2>1, <2>2, AscendingInsert
<1>11. ShapeOK(m)
  BY <1>1, <1>7, <1>8, <1>9 DEF ShapeOK
<1>12. DOMAIN m.keys = 1 .. l + 1
  BY <1>1, <1>7
<1>13. ASSUME NEW i \in 1 .. l
       PROVE  \E j \in DOMAIN m.keys : m.keys[j] = keys[i] /\ m.children[j] = children[i]
  <2>1. CASE i < at
    <3>1. i \in 1 .. l + 1
      BY <1>1
    <3> QED BY <1>7, <1>8, <1>12, <2>1, <3>1
  <2>2. CASE i >= at
    <3>1. i + 1 \in 1 .. l + 1 /\ ~(i + 1 < at) /\ i + 1 # at /\ (i + 1) - 1 = i
      BY <1>1, <1>3, <2>2
    <3> QED BY <1>7, <1>8, <1>12, <3>1
  <2>3. i < at \/ i >= at
    BY <1>1, <1>3
  <2> QED BY <2>1, <2>2, <2>3
<1>14. m.keys[at] = k /\ m.children[at] = a /\ at \in DOMAIN m.keys
  BY <1>1, <1>3, <1>7, <1>8, <1>12
<1>15. ASSUME NEW j \in DOMAIN m.keys, j # at
       PROVE  \E i \in 1 .. l : m.keys[j] = keys[i] /\ m.children[j] = children[i]
  <2>1. CASE j < at
    <3>1. j \in 1 .. l
      BY <1>1, <1>3, <1>12, <2>1
    <3> QED BY <1>7, <1>8, <1>12, <2>1, <3>1
  <2>2. CASE j > at
    <3>1. j - 1 \in 1 .. l /\ ~(j < at)
      BY <1>1, <1>3, <1>12, <2>2
    <3> QED BY <1>7, <1>8, <1>12, <1>15, <3>1
  <2>3. j < at \/ j > at
    BY <1>1, <1>3, <1>12, <1>15
  <2> QED BY <2>1, <2>2, <2>3
<1>16. ASSUME NEW x, NEW y PROVE <<x, y>> \in Pairs(n) <=> \E i \in 1 .. l : x = keys[i] /\ y = children[i]
  <2>1. <<x, y>> \in Pairs(n) <=> \E i \in DOMAIN n.keys : x = n.keys[i] /\ y = n.children[i]
    BY PairFacts
  <2>2. DOMAIN n.keys = 1 .. l
    BY <1>1 DEF keys
  <2> QED BY <2>1, <2>2 DEF keys, children
<1>17. \A x, y : <<x, y>> \in Pairs(m) <=> \E j \in DOMAIN m.keys : x = m.keys[j] /\ y = m.children[j]
  BY PairFacts
<1>18. ASSUME NEW x, NEW y
       PROVE  <<x, y>> \in Pairs(m) <=> (<<x, y>> \in Pairs(n) /\ x # k) \/ <<x, y>> = <<k, a>>
  <2>1. ASSUME <<x, y>> \in Pairs(m) PROVE (<<x, y>> \in Pairs(n) /\ x # k) \/ <<x, y>> = <<k, a>>
    <3>1. PICK j \in DOMAIN m.keys : x = m.keys[j] /\ y = m.children[j]
      BY <1>17, <2>1
    <3>2. CASE j = at
      BY <1>14, <3>1, <3>2
    <3>3. CASE j # at
      BY <1>4, <1>15, <1>16, <3>1, <3>3
    <3> QED BY <3>2, <3>3
  <2>2. ASSUME <<x, y>> \in Pairs(n) PROVE <<x, y>> \in Pairs(m)
    BY <1>13, <1>16, <1>17, <2>2
  <2>3. <<k, a>> \in Pairs(m)
    BY <1>14, <1>17
  <2> QED BY <2>1, <2>2, <2>3
<1>19. Pairs(m) = {x \in Pairs(n) : x[1] # k} \cup {<<k, a>>}
  <2>1. \A x \in Pairs(m) \cup Pairs(n) : x = <<x[1], x[2]>>
    BY DEF Pairs
  <2> QED BY <1>18, <2>1
<1> QED BY <1>7, <1>11, <1>19 DEF m, l

(* A leaf with an entry less.                                               *)
LEMMA LeafWithout ==
  ASSUME NEW n \in NodeRecs, n.isLeaf, ShapeOK(n), NEW k \in Keys, k \in ToSet(n.keys)
  PROVE  /\ Without(n, k) \in NodeRecs /\ Without(n, k).isLeaf
         /\ Without(n, k).parent = n.parent
         /\ ShapeOK(Without(n, k))
         /\ Len(Without(n, k).keys) = Len(n.keys) - 1 /\ Len(n.keys) \in Nat /\ Len(n.keys) > 0
         /\ Pairs(Without(n, k)) = {x \in Pairs(n) : x[1] # k} \cup {}
<1> DEFINE m == Without(n, k)
           l == Len(n.keys)
           keys == n.keys
           children == n.children
           at == Below(n.keys, k)
<1>1. /\ keys \in Seq(Keys) /\ children \in Seq(Locs) /\ keys \in Seq(Int)
      /\ l \in Nat /\ Len(children) = l /\ Len(keys) = l
      /\ DOMAIN keys = 1 .. l /\ DOMAIN children = 1 .. l /\ Ascending(keys)
      /\ \A i, j \in 1 .. l : keys[i] = keys[j] => i = j
  BY LeafLists
<1>2. at \in 1 .. l /\ keys[at] = k
  <2>1. PICK i \in 1 .. l : keys[i] = k
    BY <1>1 DEF ToSet
  <2>2. i \in DOMAIN keys
    BY <1>1
  <2>3. Below(keys, k) = i
    <3> HIDE DEF keys
    <3> QED BY <1>1, <2>1, <2>2, PlaceOfKey
  <2> QED BY <2>1, <2>3
<1> HIDE DEF m, l, keys, children, at
<1>3. /\ at \in 1 .. Len(keys) /\ at \in 1 .. Len(children)
      /\ keys \in Seq(Keys) /\ children \in Seq(Locs) /\ keys \in Seq(Int)
  BY <1>1, <1>2
<1>4. /\ RemoveAt(keys, at) \in Seq(Keys) /\ Len(RemoveAt(keys, at)) = l - 1
      /\ \A j \in 1 .. l - 1 : RemoveAt(keys, at)[j] = IF j < at THEN keys[j] ELSE keys[j + 1]
  <2>1. /\ RemoveAt(keys, at) \in Seq(Keys) /\ Len(RemoveAt(keys, at)) = Len(keys) - 1
        /\ \A j \in 1 .. Len(keys) - 1 : RemoveAt(keys, at)[j] = IF j < at THEN keys[j] ELSE keys[j + 1]
    BY <1>3, RemovedAt
  <2> QED BY <1>1, <2>1
<1>5. /\ RemoveAt(children, at) \in Seq(Locs) /\ Len(RemoveAt(children, at)) = l - 1
      /\ \A j \in 1 .. l - 1 : RemoveAt(children, at)[j] = IF j < at THEN children[j] ELSE children[j + 1]
  <2>1. /\ RemoveAt(children, at) \in Seq(Locs) /\ Len(RemoveAt(children, at)) = Len(children) - 1
        /\ \A j \in 1 .. Len(children) - 1 :
             RemoveAt(children, at)[j] = IF j < at THEN children[j] ELSE children[j + 1]
    BY <1>3, RemovedAt
  <2> QED BY <1>1, <2>1
<1>6. Relisted(m, n, RemoveAt(keys, at), RemoveAt(children, at))
  BY <1>4, <1>5 DEF Relisted, Without, m, keys, children, at
<1>7. /\ m.keys = RemoveAt(keys, at) /\ m.children = RemoveAt(children, at)
      /\ m \in NodeRecs /\ (m.isLeaf <=> n.isLeaf) /\ m.parent = n.parent
  BY <1>6, RelistedFacts
<1>8. Ascending(m.keys)
  BY <1>1, <1>3, <1>7, AscendingRemove
<1>9. ShapeOK(m)
  BY <1>1, <1>4, <1>5, <1>7, <1>8 DEF ShapeOK
<1>10. DOMAIN m.keys = 1 .. l - 1
  BY <1>1, <1>4, <1>7
<1>11. ASSUME NEW i \in 1 .. l, i # at
       PROVE  \E j \in DOMAIN m.keys : m.keys[j] = keys[i] /\ m.children[j] = children[i]
  <2>1. CASE i < at
    <3>1. i \in 1 .. l - 1
      BY <1>1, <1>2, <2>1
    <3> QED BY <1>4, <1>5, <1>7, <1>10, <2>1, <3>1
  <2>2. CASE i > at
    <3>1. i - 1 \in 1 .. l - 1 /\ ~(i - 1 < at) /\ (i - 1) + 1 = i
      BY <1>1, <1>2, <2>2
    <3> QED BY <1>4, <1>5, <1>7, <1>10, <3>1
  <2>3. i < at \/ i > at
    BY <1>1, <1>2, <1>11
  <2> QED BY <2>1, <2>2, <2>3
<1>12. ASSUME NEW j \in DOMAIN m.keys
       PROVE  \E i \in 1 .. l : i # at /\ m.keys[j] = keys[i] /\ m.children[j] = children[i]
  <2>1. CASE j < at
    <3>1. j \in 1 .. l /\ j # at
      BY <1>1, <1>2, <1>10, <2>1
    <3> QED BY <1>4, <1>5, <1>7, <1>10, <2>1, <3>1
  <2>2. CASE j >= at
    <3>1. j + 1 \in 1 .. l /\ ~(j < at) /\ j + 1 # at
      BY <1>1, <1>2, <1>10, <2>2
    <3> QED BY <1>4, <1>5, <1>7, <1>10, <3>1
  <2>3. j < at \/ j >= at
    BY <1>1, <1>2, <1>10
  <2> QED BY <2>1, <2>2, <2>3
<1>13. ASSUME NEW x, NEW y PROVE <<x, y>> \in Pairs(n) <=> \E i \in 1 .. l : x = keys[i] /\ y = children[i]
  <2>1. <<x, y>> \in Pairs(n) <=> \E i \in DOMAIN n.keys : x = n.keys[i] /\ y = n.children[i]
    BY PairFacts
  <2>2. DOMAIN n.keys = 1 .. l
    BY <1>1 DEF keys
  <2> QED BY <2>1, <2>2 DEF keys, children
<1>14. \A x, y : <<x, y>> \in Pairs(m) <=> \E j \in DOMAIN m.keys : x = m.keys[j] /\ y = m.children[j]
  BY PairFacts
<1>15. ASSUME NEW x, NEW y
       PROVE  <<x, y>> \in Pairs(m) <=> <<x, y>> \in Pairs(n) /\ x # k
  <2>1. ASSUME <<x, y>> \in Pairs(m) PROVE <<x, y>> \in Pairs(n) /\ x # k
    <3>1. PICK j \in DOMAIN m.keys : x = m.keys[j] /\ y = m.children[j]
      BY <1>14, <2>1
    <3>2. PICK i \in 1 .. l : i # at /\ m.keys[j] = keys[i] /\ m.children[j] = children[i]
      BY <1>12
    <3>3. keys[i] # k
      BY <1>1, <1>2, <3>2
    <3> QED BY <1>13, <3>1, <3>2, <3>3
  <2>2. ASSUME <<x, y>> \in Pairs(n), x # k PROVE <<x, y>> \in Pairs(m)
    <3>1. PICK i \in 1 .. l : x = keys[i] /\ y = children[i]
      BY <1>13, <2>2
    <3>2. i # at
      BY <1>2, <2>2, <3>1
    <3> QED BY <1>11, <1>14, <3>1, <3>2
  <2> QED BY <2>1, <2>2
<1>16. Pairs(m) = {x \in Pairs(n) : x[1] # k} \cup {}
  <2>1. \A x \in Pairs(m) \cup Pairs(n) : x = <<x[1], x[2]>>
    BY DEF Pairs
  <2> QED BY <1>15, <2>1
<1>17. l - 1 = Len(m.keys) /\ l > 0
  BY <1>1, <1>2, <1>4, <1>7
<1> QED BY <1>1, <1>7, <1>9, <1>16, <1>17 DEF m, l

(* A leaf with another location for the data of a key.                      *)
LEMMA LeafWithData ==
  ASSUME NEW n \in NodeRecs, n.isLeaf, ShapeOK(n), NEW k \in Keys, k \in ToSet(n.keys), NEW a \in Locs
  PROVE  /\ WithData(n, k, a) \in NodeRecs /\ WithData(n, k, a).isLeaf
         /\ WithData(n, k, a).parent = n.parent
         /\ ShapeOK(WithData(n, k, a))
         /\ WithData(n, k, a).keys = n.keys
         /\ Pairs(WithData(n, k, a)) = {x \in Pairs(n) : x[1] # k} \cup {<<k, a>>}
<1> DEFINE m == WithData(n, k, a)
           l == Len(n.keys)
           keys == n.keys
           children == n.children
           at == Below(n.keys, k)
           list == [children EXCEPT ![at] = a]
<1>1. /\ keys \in Seq(Keys) /\ children \in Seq(Locs) /\ keys \in Seq(Int)
      /\ l \in Nat /\ Len(children) = l /\ Len(keys) = l
      /\ DOMAIN keys = 1 .. l /\ DOMAIN children = 1 .. l /\ Ascending(keys)
      /\ \A i, j \in 1 .. l : keys[i] = keys[j] => i = j
  BY LeafLists
<1>2. at \in 1 .. l /\ keys[at] = k
  <2>1. PICK i \in 1 .. l : keys[i] = k
    BY <1>1 DEF ToSet
  <2>2. i \in DOMAIN keys
    BY <1>1
  <2>3. Below(keys, k) = i
    <3> HIDE DEF keys
    <3> QED BY <1>1, <2>1, <2>2, PlaceOfKey
  <2> QED BY <2>1, <2>3
<1>3. m = [n EXCEPT !.children = list] /\ n.keys = keys
  BY DEF WithData
<1> HIDE DEF m, l, keys, children, at
<1>4. /\ list \in Seq(Locs) /\ Len(list) = l
      /\ list[at] = a /\ \A i \in 1 .. l : i # at => list[i] = children[i]
  <2>1. children \in [1 .. l -> Locs]
    BY <1>1
  <2>2. list \in [1 .. l -> Locs]
    BY <1>2, <2>1
  <2>3. list \in Seq(Locs) /\ Len(list) = l
    BY <1>1, <2>2
  <2> QED BY <1>2, <2>1, <2>3
<1> HIDE DEF list
<1>5. Relisted(m, n, keys, list)
  <2>1. [n EXCEPT !.children = list] = [n EXCEPT !.keys = n.keys, !.children = list]
    BY DEF NodeRecs
  <2> QED BY <1>1, <1>3, <1>4, <2>1 DEF Relisted
<1>6. /\ m.keys = keys /\ m.children = list
      /\ m \in NodeRecs /\ (m.isLeaf <=> n.isLeaf) /\ m.parent = n.parent
  BY <1>5, RelistedFacts
<1>7. ShapeOK(m)
  BY <1>1, <1>4, <1>6 DEF ShapeOK
<1>8. ASSUME NEW x, NEW y PROVE <<x, y>> \in Pairs(n) <=> \E i \in 1 .. l : x = keys[i] /\ y = children[i]
  <2>1. <<x, y>> \in Pairs(n) <=> \E i \in DOMAIN n.keys : x = n.keys[i] /\ y = n.children[i]
    BY PairFacts
  <2>2. DOMAIN n.keys = 1 .. l
    BY <1>1 DEF keys
  <2> QED BY <2>1, <2>2 DEF keys, children
<1>9. ASSUME NEW x, NEW y PROVE <<x, y>> \in Pairs(m) <=> \E i \in 1 .. l : x = keys[i] /\ y = list[i]
  <2>1. <<x, y>> \in Pairs(m) <=> \E i \in DOMAIN m.keys : x = m.keys[i] /\ y = m.children[i]
    BY PairFacts
  <2>2. DOMAIN m.keys = 1 .. l
    BY <1>1, <1>6
  <2> QED BY <1>6, <2>1, <2>2
<1>10. ASSUME NEW x, NEW y
       PROVE  <<x, y>> \in Pairs(m) <=> (<<x, y>> \in Pairs(n) /\ x # k) \/ <<x, y>> = <<k, a>>
  <2>1. ASSUME <<x, y>> \in Pairs(m) PROVE (<<x, y>> \in Pairs(n) /\ x # k) \/ <<x, y>> = <<k, a>>
    <3>1. PICK i \in 1 .. l : x = keys[i] /\ y = list[i]
      BY <1>9, <2>1
    <3>2. CASE i = at
      BY <1>2, <1>4, <3>1, <3>2
    <3>3. CASE i # at
      <4>1. x # k
        BY <1>1, <1>2, <3>1, <3>3
      <4> QED BY <1>4, <1>8, <3>1, <3>3, <4>1
    <3> QED BY <3>2, <3>3
  <2>2. ASSUME <<x, y>> \in Pairs(n), x # k PROVE <<x, y>> \in Pairs(m)
    <3>1. PICK i \in 1 .. l : x = keys[i] /\ y = children[i]
      BY <1>8, <2>2
    <3>2. i # at
      BY <1>2, <2>2, <3>1
    <3> QED BY <1>4, <1>9, <3>1, <3>2
  <2>3. <<k, a>> \in Pairs(m)
    BY <1>2, <1>4, <1>9
  <2> QED BY <2>1, <2>2, <2>3
<1>11. Pairs(m) = {x \in Pairs(n) : x[1] # k} \cup {<<k, a>>}
  <2>1. \A x \in Pairs(m) \cup Pairs(n) : x = <<x[1], x[2]>>
    BY DEF Pairs
  <2> QED BY <1>10, <2>1
<1> QED BY <1>3, <1>6, <1>7, <1>11 DEF m

-----------------------------------------------------------------------------
(* What a split makes of three nodes *)

(* The children that stay on the left.                                      *)
Cut(n) == IF n.isLeaf THEN Half ELSE Half + 1

(* The lists of a node that has to be split, and the place of the split.    *)
LEMMA FullLists ==
  ASSUME NEW n \in NodeRecs, ShapeOK(n), Full(n)
  PROVE  /\ n.keys \in Seq(Keys) /\ n.keys \in Seq(Int) /\ n.children \in Seq(Locs)
         /\ Len(n.keys) = BRankMax /\ Len(n.children) = BRankMax + (IF n.isLeaf THEN 0 ELSE 1)
         /\ Ascending(n.keys) /\ n.isLeaf \in BOOLEAN
         /\ BRankMax \in Nat /\ Half \in Nat /\ Half >= 1 /\ Half < BRankMax
         /\ DOMAIN n.keys = 1 .. BRankMax /\ DOMAIN n.children = 1 .. Len(n.children)
<1>1. n.keys \in Seq(Keys) /\ n.children \in Seq(Locs) /\ n.isLeaf \in BOOLEAN
  BY DEF NodeRecs
<1>2. Len(n.keys) = BRankMax
  BY DEF Full
<1>3. Len(n.children) = Len(n.keys) + (IF n.isLeaf THEN 0 ELSE 1) /\ Ascending(n.keys)
  BY DEF ShapeOK
<1>4. DOMAIN n.keys = 1 .. Len(n.keys) /\ DOMAIN n.children = 1 .. Len(n.children)
  BY <1>1
<1> QED BY <1>1, <1>2, <1>3, <1>4, KeyLists, RankFacts

(* What Node makes has the fields it is given.                              *)
LEMMA NodeFields ==
  ASSUME NEW leaf \in BOOLEAN, NEW keys \in Seq(Keys), NEW children \in Seq(Locs),
         NEW parent \in Locs \cup {NoLoc}
  PROVE  /\ Node(leaf, keys, children, parent) \in NodeRecs
         /\ Node(leaf, keys, children, parent).kind = "node"
         /\ Node(leaf, keys, children, parent).isLeaf <=> leaf
         /\ Node(leaf, keys, children, parent).keys = keys
         /\ Node(leaf, keys, children, parent).children = children
         /\ Node(leaf, keys, children, parent).parent = parent
BY DEF Node, NodeRecs

(* x is a node with these fields.                                           *)
Made(x, leaf, keys, children, parent) ==
  /\ x \in NodeRecs /\ (x.isLeaf <=> leaf)
  /\ x.keys = keys /\ x.children = children /\ x.parent = parent

(* What Node makes has the fields it is given, in one word.                 *)
LEMMA NodeMade ==
  ASSUME NEW leaf \in BOOLEAN, NEW keys \in Seq(Keys), NEW children \in Seq(Locs),
         NEW parent \in Locs \cup {NoLoc}
  PROVE  Made(Node(leaf, keys, children, parent), leaf, keys, children, parent)
BY NodeFields DEF Made

(* The left part of a split: the first keys and children.                   *)
LEMMA LeftFacts ==
  ASSUME NEW n \in NodeRecs, ShapeOK(n), Full(n), NEW p \in Locs \cup {NoLoc}
  PROVE  /\ LeftPart(n, p) \in NodeRecs /\ (LeftPart(n, p).isLeaf <=> n.isLeaf) /\ LeftPart(n, p).parent = p
         /\ Len(LeftPart(n, p).keys) = Half
         /\ \A i \in 1 .. Half : LeftPart(n, p).keys[i] = n.keys[i]
         /\ Len(LeftPart(n, p).children) = Cut(n)
         /\ \A i \in 1 .. Cut(n) : LeftPart(n, p).children[i] = n.children[i]
         /\ Ascending(LeftPart(n, p).keys)
<1> DEFINE keys == SubSeq(n.keys, 1, Half)
           children == SubSeq(n.children, 1, Cut(n))
<1>1. /\ n.keys \in Seq(Keys) /\ n.keys \in Seq(Int) /\ n.children \in Seq(Locs)
      /\ Len(n.keys) = BRankMax /\ Len(n.children) = BRankMax + (IF n.isLeaf THEN 0 ELSE 1)
      /\ Ascending(n.keys) /\ n.isLeaf \in BOOLEAN
      /\ BRankMax \in Nat /\ Half \in Nat /\ Half >= 1 /\ Half < BRankMax
  BY FullLists
<1>2. /\ Cut(n) \in 0 .. Len(n.children) /\ Half \in 0 .. Len(n.keys)
      /\ 1 \in 1 .. Len(n.children) + 1 /\ 1 \in 1 .. Len(n.keys) + 1
      /\ 1 - 1 = 0 /\ Half - 1 + 1 = Half /\ Cut(n) - 1 + 1 = Cut(n)
      /\ \A i \in 1 .. Half : i + 1 - 1 = i /\ \A j \in 1 .. Cut(n) : j + 1 - 1 = j
  BY <1>1 DEF Cut
<1>3. /\ keys \in Seq(Keys) /\ Len(keys) = Half /\ \A i \in 1 .. Half : keys[i] = n.keys[i]
  <2>1. /\ SubSeq(n.keys, 1, Half) \in Seq(Keys) /\ Len(SubSeq(n.keys, 1, Half)) = Half - 1 + 1
        /\ \A i \in 1 .. Half - 1 + 1 : SubSeq(n.keys, 1, Half)[i] = n.keys[i + 1 - 1]
    BY <1>1, <1>2, CutFrom
  <2> QED BY <1>1, <2>1
<1>4. /\ children \in Seq(Locs) /\ Len(children) = Cut(n) /\ \A i \in 1 .. Cut(n) : children[i] = n.children[i]
  <2>1. /\ SubSeq(n.children, 1, Cut(n)) \in Seq(Locs) /\ Len(SubSeq(n.children, 1, Cut(n))) = Cut(n) - 1 + 1
        /\ \A i \in 1 .. Cut(n) - 1 + 1 : SubSeq(n.children, 1, Cut(n))[i] = n.children[i + 1 - 1]
    BY <1>1, <1>2, CutFrom
  <2>2. Cut(n) \in Nat
    BY <1>1 DEF Cut
  <2> QED BY <2>1, <2>2
<1>5. Ascending(keys)
  BY <1>1, <1>2, AscendingCut
<1>6. LeftPart(n, p) = Node(n.isLeaf, keys, children, p)
  BY DEF LeftPart, Cut
<1> HIDE DEF keys, children
<1>7. Made(LeftPart(n, p), n.isLeaf, keys, children, p)
  BY <1>1, <1>3, <1>4, <1>6, NodeMade
<1> QED BY <1>3, <1>4, <1>5, <1>7 DEF Made

(* The right part of a split: the keys and children behind the cut.         *)
LEMMA RightFacts ==
  ASSUME NEW n \in NodeRecs, ShapeOK(n), Full(n), NEW p \in Locs \cup {NoLoc}
  PROVE  /\ RightPart(n, p) \in NodeRecs /\ (RightPart(n, p).isLeaf <=> n.isLeaf) /\ RightPart(n, p).parent = p
         /\ Len(RightPart(n, p).keys) = BRankMax - Cut(n)
         /\ \A i \in 1 .. BRankMax - Cut(n) : RightPart(n, p).keys[i] = n.keys[i + Cut(n)]
         /\ Len(RightPart(n, p).children) = Len(n.children) - Cut(n)
         /\ \A i \in 1 .. Len(n.children) - Cut(n) : RightPart(n, p).children[i] = n.children[i + Cut(n)]
         /\ Ascending(RightPart(n, p).keys)
<1> DEFINE s == Cut(n)
           c == Len(n.children)
           keys == SubSeq(n.keys, s + 1, BRankMax)
           children == SubSeq(n.children, s + 1, c)
<1>1. /\ n.keys \in Seq(Keys) /\ n.keys \in Seq(Int) /\ n.children \in Seq(Locs)
      /\ Len(n.keys) = BRankMax /\ Len(n.children) = BRankMax + (IF n.isLeaf THEN 0 ELSE 1)
      /\ Ascending(n.keys) /\ n.isLeaf \in BOOLEAN
      /\ BRankMax \in Nat /\ Half \in Nat /\ Half >= 1 /\ Half < BRankMax
  BY FullLists
<1>2. s + 1 = IF n.isLeaf THEN Half + 1 ELSE Half + 2
  BY <1>1 DEF Cut
<1>3. RightPart(n, p) = Node(n.isLeaf, keys, children, p)
  BY <1>1, <1>2 DEF RightPart
<1>4. /\ s \in Nat /\ c \in Nat /\ s <= BRankMax /\ s <= c
      /\ s + 1 \in 1 .. Len(n.children) + 1 /\ s + 1 \in 1 .. Len(n.keys) + 1
      /\ BRankMax \in s + 1 - 1 .. Len(n.keys) /\ c \in s + 1 - 1 .. Len(n.children)
  BY <1>1 DEF Cut
<1> HIDE DEF s, c
<1>5. /\ keys \in Seq(Keys) /\ Len(keys) = BRankMax - s
      /\ \A i \in 1 .. BRankMax - s : keys[i] = n.keys[i + s]
  <2> DEFINE b == s + 1
  <2>0. n.keys \in Seq(Keys) /\ b \in 1 .. Len(n.keys) + 1 /\ BRankMax \in b - 1 .. Len(n.keys)
    BY <1>1, <1>4
  <2>1. /\ keys \in Seq(Keys) /\ Len(keys) = BRankMax - b + 1
        /\ \A i \in 1 .. BRankMax - b + 1 : keys[i] = n.keys[i + b - 1]
    <3> HIDE DEF b
    <3>1. /\ SubSeq(n.keys, b, BRankMax) \in Seq(Keys) /\ Len(SubSeq(n.keys, b, BRankMax)) = BRankMax - b + 1
          /\ \A i \in 1 .. BRankMax - b + 1 : SubSeq(n.keys, b, BRankMax)[i] = n.keys[i + b - 1]
      BY <2>0, CutFrom
    <3> QED BY <3>1 DEF b
  <2>2. BRankMax - (s + 1) + 1 = BRankMax - s /\ \A i \in 1 .. BRankMax - s : i + (s + 1) - 1 = i + s
    BY <1>1, <1>4
  <2> HIDE DEF keys
  <2> QED BY <2>1, <2>2
<1>6. /\ children \in Seq(Locs) /\ Len(children) = c - s
      /\ \A i \in 1 .. c - s : children[i] = n.children[i + s]
  <2>1. /\ children \in Seq(Locs) /\ Len(children) = c - (s + 1) + 1
        /\ \A i \in 1 .. c - (s + 1) + 1 : children[i] = n.children[i + (s + 1) - 1]
    BY <1>1, <1>4, CutFrom
  <2>2. c - (s + 1) + 1 = c - s /\ \A i \in 1 .. c - s : i + (s + 1) - 1 = i + s
    BY <1>4
  <2> HIDE DEF children
  <2> QED BY <2>1, <2>2
<1>7. Ascending(keys)
  BY <1>1, <1>4, AscendingCut
<1> HIDE DEF keys, children
<1> QED BY <1>1, <1>3, <1>5, <1>6, <1>7, NodeFields DEF s, c

(* m is the inner node q with another key and another child after its       *)
(* child at.                                                                *)
IsWider(m, q, at, u, right) ==
  /\ m \in NodeRecs /\ ~m.isLeaf /\ m.parent = q.parent
  /\ m.keys = InsertAt(q.keys, at, u)
  /\ Len(m.keys) = Len(q.keys) + 1
  /\ \A j \in 1 .. Len(q.keys) + 1 :
       m.keys[j] = IF j < at THEN q.keys[j] ELSE IF j = at THEN u ELSE q.keys[j - 1]
  /\ Len(m.children) = Len(q.children) + 1
  /\ \A j \in 1 .. Len(q.children) + 1 :
       m.children[j] = IF j <= at THEN q.children[j] ELSE IF j = at + 1 THEN right ELSE q.children[j - 1]

(* insertNodeAt puts one key and one child into the lists of the parent.    *)
LEMMA WithChildFacts ==
  ASSUME NEW q \in NodeRecs, ShapeOK(q), ~q.isLeaf, IsInjective(q.children),
         NEW at \in DOMAIN q.children, NEW l, q.children[at] = l, NEW u \in Keys, NEW right \in Locs
  PROVE  IsWider(WithChild(q, l, u, right), q, at, u, right)
<1> DEFINE m == WithChild(q, l, u, right)
           keys == InsertAt(q.keys, at, u)
           children == InsertAt(q.children, at + 1, right)
<1>1. /\ q.keys \in Seq(Keys) /\ q.children \in Seq(Locs)
      /\ Len(q.keys) \in Nat /\ Len(q.children) = Len(q.keys) + 1
      /\ DOMAIN q.children = 1 .. Len(q.children)
  <2>1. q.keys \in Seq(Keys) /\ q.children \in Seq(Locs)
    BY DEF NodeRecs
  <2>2. Len(q.children) = Len(q.keys) + (IF q.isLeaf THEN 0 ELSE 1)
    BY DEF ShapeOK
  <2> QED BY <2>1, <2>2
<1>2. at \in 1 .. Len(q.keys) + 1 /\ at + 1 \in 1 .. Len(q.children) + 1 /\ Len(q.children) \in Nat
  BY <1>1
<1>3. (CHOOSE i \in 1 .. Len(q.children) : q.children[i] = l) = at
  BY <1>1, PlaceIn
<1>4. /\ keys \in Seq(Keys) /\ Len(keys) = Len(q.keys) + 1
      /\ \A j \in 1 .. Len(q.keys) + 1 : keys[j] = IF j < at THEN q.keys[j] ELSE IF j = at THEN u ELSE q.keys[j - 1]
  <2>1. q.keys \in Seq(Keys) /\ at \in 1 .. Len(q.keys) + 1
    BY <1>1, <1>2
  <2>2. Inserted(keys, Keys, q.keys, at, u)
    BY <2>1, InsertedIs
  <2> QED BY <2>2 DEF Inserted
<1>5. /\ children \in Seq(Locs) /\ Len(children) = Len(q.children) + 1
      /\ \A j \in 1 .. Len(q.children) + 1 :
           children[j] = IF j < at + 1 THEN q.children[j] ELSE IF j = at + 1 THEN right ELSE q.children[j - 1]
  <2> DEFINE b == at + 1
             list == q.children
  <2>1. list \in Seq(Locs) /\ b \in 1 .. Len(list) + 1
    BY <1>1, <1>2
  <2> HIDE DEF b, list
  <2>2. /\ InsertAt(list, b, right) \in Seq(Locs)
        /\ Len(InsertAt(list, b, right)) = Len(list) + 1
        /\ \A j \in 1 .. Len(list) + 1 :
             InsertAt(list, b, right)[j] = IF j < b THEN list[j] ELSE IF j = b THEN right ELSE list[j - 1]
    <3>1. Inserted(InsertAt(list, b, right), Locs, list, b, right)
      BY <2>1, InsertedIs
    <3> QED BY <3>1 DEF Inserted
  <2> QED BY <2>2 DEF b, list
<1>6. Relisted(m, q, keys, children)
  <2>1. m = [q EXCEPT !.keys = keys, !.children = children]
    BY <1>3 DEF WithChild
  <2> HIDE DEF m, keys, children
  <2> QED BY <1>4, <1>5, <2>1 DEF Relisted
<1> HIDE DEF m, keys, children
<1>7. /\ m.keys = keys /\ m.children = children
      /\ m \in NodeRecs /\ (m.isLeaf <=> q.isLeaf) /\ m.parent = q.parent
  BY <1>6, RelistedFacts
<1>8. ASSUME NEW j \in 1 .. Len(q.children) + 1
      PROVE  children[j] = IF j <= at THEN q.children[j] ELSE IF j = at + 1 THEN right ELSE q.children[j - 1]
  <2>1. j < at + 1 <=> j <= at
    BY <1>2
  <2> QED BY <1>5, <2>1
<1>9. IsWider(m, q, at, u, right)
  BY <1>4, <1>5, <1>7, <1>8 DEF IsWider, keys
<1> QED BY <1>9 DEF m

-----------------------------------------------------------------------------
(* A split *)

(* c is a child of l that goes to the right part.                           *)
Moves(h, l, c) ==
  ~h[l].isLeaf /\ \E i \in DOMAIN h[l].children : i > Cut(h[l]) /\ h[l].children[i] = c

(* From h to g the node at l, child of the one at p, is split in two.       *)
Splits(h, g, l, p, right) ==
  /\ g = [c \in Locs |-> g[c]]
  /\ l \in NodesIn(h) /\ p \in NodesIn(h) /\ l # p /\ h[l].parent = p
  /\ Full(h[l]) /\ right \in FreeLocs(h)
  /\ g[l] = LeftPart(h[l], p) /\ g[right] = RightPart(h[l], p)
  /\ g[p] = WithChild(h[p], l, UpKey(h[l]), right)
  /\ \A c \in Locs \ {l, p, right} :
       g[c] = IF Moves(h, l, c) THEN [h[c] EXCEPT !.parent = right] ELSE h[c]

(* m holds a keys and b children of n, those after the first s.             *)
IsPart(m, n, p, s, a, b) ==
  /\ m \in NodeRecs /\ (m.isLeaf <=> n.isLeaf) /\ m.parent = p /\ Ascending(m.keys)
  /\ Len(m.keys) = a /\ \A i \in 1 .. a : m.keys[i] = n.keys[i + s]
  /\ Len(m.children) = b /\ \A i \in 1 .. b : m.children[i] = n.children[i + s]

SplitSites(h, g, l, p, right, at) ==
  /\ g \in Heaps /\ NodesIn(g) = NodesIn(h) \cup {right}
  /\ right \in Locs /\ right \notin NodesIn(h) /\ l \in NodesIn(h) /\ p \in NodesIn(h) /\ l # p
  /\ ~h[p].isLeaf /\ h[l].parent = p
  /\ at \in DOMAIN h[p].children /\ h[p].children[at] = l
  /\ Full(h[l]) /\ UpKey(h[l]) \in Keys

SplitOthers(h, g, l, p, right) ==
  \A c \in NodesIn(h) \ {l, p} :
    /\ g[c].isLeaf <=> h[c].isLeaf
    /\ g[c].keys = h[c].keys /\ g[c].children = h[c].children
    /\ g[c].parent = IF Moves(h, l, c) THEN right ELSE h[c].parent

(* What a split below a parent makes of the three nodes and of all others.  *)
LEMMA SplitShape ==
  ASSUME NEW h, NEW r, NEW ht, NEW K, Tree(h, r, ht, K),
         NEW g, NEW l, NEW p, NEW right, Splits(h, g, l, p, right)
  PROVE  \E at \in Nat :
           /\ SplitSites(h, g, l, p, right, at)
           /\ IsPart(g[l], h[l], p, 0, Half, Cut(h[l]))
           /\ IsPart(g[right], h[l], p, Cut(h[l]), BRankMax - Cut(h[l]), Len(h[l].children) - Cut(h[l]))
           /\ IsWider(g[p], h[p], at, UpKey(h[l]), right)
           /\ SplitOthers(h, g, l, p, right)
<1>1. /\ g = [c \in Locs |-> g[c]]
      /\ l \in NodesIn(h) /\ p \in NodesIn(h) /\ l # p /\ h[l].parent = p
      /\ Full(h[l]) /\ right \in FreeLocs(h)
      /\ g[l] = LeftPart(h[l], p) /\ g[right] = RightPart(h[l], p)
      /\ g[p] = WithChild(h[p], l, UpKey(h[l]), right)
      /\ \A c \in Locs \ {l, p, right} :
           g[c] = IF Moves(h, l, c) THEN [h[c] EXCEPT !.parent = right] ELSE h[c]
  BY DEF Splits
<1>2. h \in Heaps /\ h[r].parent = NoLoc /\ NodesIn(h) \subseteq Locs
  BY TreeHeap
<1>3. right \in Locs /\ right \notin NodesIn(h)
  BY <1>1, <1>2, PlaceKinds DEF FreeLocs
<1>4. /\ h[l] \in NodeRecs /\ h[p] \in NodeRecs /\ ShapeOK(h[l]) /\ ShapeOK(h[p])
  BY <1>1, TreeNode DEF Tree, NodeOK
<1>5. l # r
  BY <1>1, <1>2 DEF Locs, NoLoc
<1>6. ~h[p].isLeaf /\ \E i \in DOMAIN h[p].children : h[p].children[i] = l
  BY <1>1, <1>5, TreeParent
<1>7. PICK at \in DOMAIN h[p].children : h[p].children[at] = l
  BY <1>6
<1>8. at \in Nat
  <2>1. DOMAIN h[p].children = 1 .. Len(h[p].children) /\ Len(h[p].children) \in Nat
    BY <1>1, TreeNode
  <2> QED BY <2>1
<1>9. UpKey(h[l]) \in Keys
  <2>1. h[l].keys \in Seq(Keys) /\ Half + 1 \in 1 .. Len(h[l].keys)
    BY <1>1, <1>4, FullLists
  <2> QED BY <2>1 DEF UpKey
<1>10. IsPart(g[l], h[l], p, 0, Half, Cut(h[l]))
  <2>1. p \in Locs \cup {NoLoc} /\ \A i \in Nat : i + 0 = i
    BY <1>1, <1>2
  <2>2. /\ g[l] \in NodeRecs /\ (g[l].isLeaf <=> h[l].isLeaf) /\ g[l].parent = p
        /\ Len(g[l].keys) = Half
        /\ \A i \in 1 .. Half : g[l].keys[i] = h[l].keys[i]
        /\ Len(g[l].children) = Cut(h[l])
        /\ \A i \in 1 .. Cut(h[l]) : g[l].children[i] = h[l].children[i]
        /\ Ascending(g[l].keys)
    BY <1>1, <1>4, <2>1, LeftFacts
  <2>3. Half \in Nat /\ Cut(h[l]) \in Nat
    BY RankFacts DEF Cut
  <2>4. (\A i \in 1 .. Half : i + 0 = i) /\ \A i \in 1 .. Cut(h[l]) : i + 0 = i
    BY <2>3
  <2> QED BY <2>2, <2>4 DEF IsPart
<1>11. IsPart(g[right], h[l], p, Cut(h[l]), BRankMax - Cut(h[l]), Len(h[l].children) - Cut(h[l]))
  <2>1. p \in Locs \cup {NoLoc}
    BY <1>1, <1>2
  <2> QED BY <1>1, <1>4, <2>1, RightFacts DEF IsPart
<1>12. IsWider(g[p], h[p], at, UpKey(h[l]), right)
  <2>1. IsInjective(h[p].children)
    BY <1>1, <1>6, TreeInner
  <2>2. IsWider(WithChild(h[p], l, UpKey(h[l]), right), h[p], at, UpKey(h[l]), right)
    BY <1>3, <1>4, <1>6, <1>7, <1>9, <2>1, WithChildFacts
  <2> QED BY <1>1, <2>2
<1>13. ASSUME NEW c \in NodesIn(h), c # l, c # p
       PROVE  /\ g[c].isLeaf <=> h[c].isLeaf
              /\ g[c].keys = h[c].keys /\ g[c].children = h[c].children
              /\ g[c].parent = IF Moves(h, l, c) THEN right ELSE h[c].parent
              /\ g[c] \in NodeRecs
  <2>1. c \in Locs \ {l, p, right} /\ h[c] \in NodeRecs
    BY <1>2, <1>3, <1>13, TreeNode
  <2>2. g[c] = IF Moves(h, l, c) THEN [h[c] EXCEPT !.parent = right] ELSE h[c]
    BY <1>1, <2>1
  <2> QED BY <1>3, <2>1, <2>2 DEF NodeRecs
<1>14. \A c \in Locs \ (NodesIn(h) \cup {right}) : g[c] = h[c]
  <2>1. ASSUME NEW c \in Locs, c \notin NodesIn(h) PROVE ~Moves(h, l, c)
    BY <1>1, <2>1, TreeChild DEF Moves
  <2> QED BY <1>1, <2>1
<1>15. \A c \in NodesIn(h) \cup {right} : g[c] \in NodeRecs
  BY <1>10, <1>11, <1>12, <1>13 DEF IsPart, IsWider
<1>16. g \in Heaps
  <2>1. \A c \in Locs : g[c] \in {Free} \cup DataRecs \cup NodeRecs
    BY <1>2, <1>14, <1>15 DEF Heaps
  <2> QED BY <1>1, <2>1 DEF Heaps
<1>17. NodesIn(g) = NodesIn(h) \cup {right}
  <2>1. \A m \in NodeRecs : m.kind = "node"
    BY DEF NodeRecs
  <2>2. \A c \in NodesIn(h) \cup {right} : c \in NodesIn(g)
    BY <1>2, <1>3, <1>15, <2>1 DEF NodesIn
  <2>3. \A c \in Locs \ (NodesIn(h) \cup {right}) : c \notin NodesIn(g)
    BY <1>14 DEF NodesIn
  <2>4. NodesIn(g) \subseteq Locs
    BY DEF NodesIn
  <2> QED BY <2>2, <2>3, <2>4
<1>18. SplitSites(h, g, l, p, right, at)
  BY <1>1, <1>3, <1>6, <1>7, <1>9, <1>16, <1>17 DEF SplitSites
<1>19. SplitOthers(h, g, l, p, right)
  BY <1>13 DEF SplitOthers
<1> QED BY <1>8, <1>10, <1>11, <1>12, <1>18, <1>19

HtSplit(ht, l, right) == [c \in Locs |-> IF c = right THEN ht[l] ELSE ht[c]]

KeysSplit(h, K, l, right) ==
  [c \in Locs |-> IF c = l THEN {x \in K[l] : x < UpKey(h[l])}
                  ELSE IF c = right THEN {x \in K[l] : x >= UpKey(h[l])} ELSE K[c]]

SplitCase(h, g, r, ht, K, l, p, right, at) ==
  /\ Tree(h, r, ht, K) /\ Filled(h)
  /\ SplitSites(h, g, l, p, right, at)
  /\ IsPart(g[l], h[l], p, 0, Half, Cut(h[l]))
  /\ IsPart(g[right], h[l], p, Cut(h[l]), BRankMax - Cut(h[l]), Len(h[l].children) - Cut(h[l]))
  /\ IsWider(g[p], h[p], at, UpKey(h[l]), right)
  /\ SplitOthers(h, g, l, p, right)

(* Heights and keys of the nodes after the split.                           *)
LEMMA SplitGhosts ==
  ASSUME NEW h, NEW g, NEW r, NEW ht, NEW K, NEW l, NEW p, NEW right, NEW at,
         SplitCase(h, g, r, ht, K, l, p, right, at),
         NEW H, H = HtSplit(ht, l, right), NEW J, J = KeysSplit(h, K, l, right)
  PROVE  /\ H \in [Locs -> Nat] /\ J \in [Locs -> SUBSET Keys]
         /\ H[right] = ht[l] /\ \A c \in NodesIn(h) : H[c] = ht[c]
         /\ J[l] = {x \in K[l] : x < UpKey(h[l])} /\ J[right] = {x \in K[l] : x >= UpKey(h[l])}
         /\ \A c \in NodesIn(h) \ {l} : J[c] = K[c]
         /\ K[l] \subseteq Int /\ UpKey(h[l]) \in Int
<1>1. /\ ht \in [Locs -> Nat] /\ K \in [Locs -> SUBSET Keys] /\ NodesIn(h) \subseteq Locs
  BY TreeHeap DEF SplitCase
<1>2. right \in Locs /\ right \notin NodesIn(h) /\ l \in NodesIn(h) /\ UpKey(h[l]) \in Keys
  BY DEF SplitCase, SplitSites
<1>3. K[l] \subseteq Int /\ UpKey(h[l]) \in Int
  BY <1>1, <1>2, KeyLists
<1>4. H \in [Locs -> Nat] /\ H[right] = ht[l] /\ \A c \in NodesIn(h) : H[c] = ht[c]
  BY <1>1, <1>2 DEF HtSplit
<1>5. /\ J \in [Locs -> SUBSET Keys]
      /\ J[l] = {x \in K[l] : x < UpKey(h[l])} /\ J[right] = {x \in K[l] : x >= UpKey(h[l])}
      /\ \A c \in NodesIn(h) \ {l} : J[c] = K[c]
  BY <1>1, <1>2 DEF KeysSplit
<1> QED BY <1>3, <1>4, <1>5

(* Which nodes are leaves does not change, and which node is whose parent   *)
(* only for the children that move.                                         *)
LEMMA SplitParentOf ==
  ASSUME NEW h, NEW g, NEW r, NEW ht, NEW K, NEW l, NEW p, NEW right, NEW at,
         SplitCase(h, g, r, ht, K, l, p, right, at), NEW c \in NodesIn(h)
  PROVE  /\ g[c].isLeaf <=> h[c].isLeaf
         /\ c = l \/ c = r => ~Moves(h, l, c)
         /\ g[c].parent = IF Moves(h, l, c) THEN right ELSE h[c].parent
<1>1. /\ Tree(h, r, ht, K) /\ l \in NodesIn(h) /\ p \in NodesIn(h) /\ l # p
      /\ ~h[p].isLeaf /\ h[l].parent = p /\ right \notin NodesIn(h)
  BY DEF SplitCase, SplitSites
<1>2. ASSUME Moves(h, l, c) PROVE h[c].parent = l /\ ht[l] = ht[c] + 1
  BY <1>1, <1>2, TreeChild DEF Moves
<1>3. /\ \A x \in NodesIn(h) : ht[x] \in Nat /\ ht[x] <= ht[r]
      /\ r \in NodesIn(h) /\ ht[p] = ht[l] + 1
  <2>1. l # r
    <3>1. h[r].parent = NoLoc /\ p \in Locs
      BY <1>1, TreeHeap
    <3> QED BY <1>1, <3>1 DEF NoLoc, Locs
  <2>2. r \in NodesIn(h) /\ ht[p] = ht[l] + 1
    BY <1>1, <2>1, TreeHeap, TreeParent
  <2>3. \A x \in NodesIn(h) : ht[x] \in Nat /\ ht[x] <= ht[r]
    BY <1>1, TreeNode
  <2> QED BY <2>2, <2>3
<1>4. c = l \/ c = r \/ c = p => ~Moves(h, l, c)
  BY <1>1, <1>2, <1>3
<1>5. CASE c = l
  BY <1>1, <1>4, <1>5 DEF SplitCase, IsPart
<1>6. CASE c = p
  BY <1>1, <1>4, <1>6 DEF SplitCase, IsWider
<1>7. CASE c # l /\ c # p
  BY <1>4, <1>7 DEF SplitCase, SplitOthers
<1> QED BY <1>4, <1>5, <1>6, <1>7

(* The children that a split moves are those of the node behind the cut.    *)
LEMMA MovesFacts ==
  ASSUME NEW h, NEW r, NEW ht, NEW K, Tree(h, r, ht, K), NEW l \in NodesIn(h),
         NEW m \in NodesIn(h), ~h[m].isLeaf, NEW i \in DOMAIN h[m].children
  PROVE  Moves(h, l, h[m].children[i]) <=> l = m /\ i > Cut(h[m])
<1>1. ASSUME Moves(h, l, h[m].children[i]) PROVE l = m /\ i > Cut(h[m])
  <2>1. ~h[l].isLeaf
    BY <1>1 DEF Moves
  <2>2. PICK j \in DOMAIN h[l].children : j > Cut(h[l]) /\ h[l].children[j] = h[m].children[i]
    BY <1>1 DEF Moves
  <2>3. h[h[m].children[i]].parent = m /\ h[h[l].children[j]].parent = l
    BY <2>1, TreeChild
  <2>4. l = m
    BY <2>2, <2>3
  <2>5. IsInjective(h[m].children)
    BY TreeInner
  <2>6. j = i
    BY <2>2, <2>4, <2>5 DEF IsInjective
  <2> QED BY <2>2, <2>4, <2>6
<1>2. ASSUME l = m, i > Cut(h[m]) PROVE Moves(h, l, h[m].children[i])
  BY <1>2 DEF Moves
<1> QED BY <1>1, <1>2

(* The nodes that are neither split nor the parent.                         *)
LEMMA SplitOther ==
  ASSUME NEW h, NEW g, NEW r, NEW ht, NEW K, NEW l, NEW p, NEW right, NEW at,
         SplitCase(h, g, r, ht, K, l, p, right, at),
         NEW H, H = HtSplit(ht, l, right), NEW J, J = KeysSplit(h, K, l, right),
         NEW m \in NodesIn(h), m # l, m # p
  PROVE  NodeOK(g, m, H, J)
<1>1. /\ Tree(h, r, ht, K) /\ l \in NodesIn(h) /\ h[l].parent = p /\ NodesIn(g) = NodesIn(h) \cup {right}
  BY DEF SplitCase, SplitSites
<1>2. /\ g[m].isLeaf <=> h[m].isLeaf
      /\ g[m].keys = h[m].keys /\ g[m].children = h[m].children
  BY DEF SplitCase, SplitOthers
<1>3. H[m] = ht[m] /\ J[m] = K[m]
  BY SplitGhosts
<1>4. NodeOK(h, m, ht, K)
  BY <1>1 DEF Tree
<1>5. ShapeOK(g[m])
  BY <1>2, <1>4 DEF NodeOK, ShapeOK
<1>6. CASE h[m].isLeaf
  BY <1>2, <1>3, <1>4, <1>5, <1>6 DEF NodeOK, LeafOK
<1>7. CASE ~h[m].isLeaf
  <2>1. ASSUME NEW i \in DOMAIN h[m].children
        PROVE  ChildOK(g, m, i, H, J) /\ J[h[m].children[i]] = K[h[m].children[i]]
    <3> DEFINE c == h[m].children[i]
    <3>1. /\ c \in NodesIn(h) /\ h[c].parent = m /\ ht[m] = ht[c] + 1 /\ K[c] \subseteq K[m]
          /\ \A x \in K[c] : Between(h[m].keys, i, x)
      BY <1>1, <1>7, TreeChild
    <3>2. ~Moves(h, l, c)
      BY <1>1, <1>7, MovesFacts
    <3>3. c # l
      BY <1>1, <3>1
    <3> HIDE DEF c
    <3>4. g[c].parent = m
      BY <3>1, <3>2, SplitParentOf
    <3>5. H[c] = ht[c] /\ J[c] = K[c]
      BY <3>1, <3>3, SplitGhosts
    <3>6. g[m].children[i] = c
      BY <1>2 DEF c
    <3>7. ChildOK(g, m, i, H, J)
      BY <1>1, <1>2, <1>3, <3>1, <3>4, <3>5, <3>6 DEF ChildOK
    <3> QED BY <3>5, <3>7 DEF c
  <2>2. \A x \in J[m] : \E i \in DOMAIN h[m].children : x \in J[h[m].children[i]]
    BY <1>1, <1>3, <1>7, <2>1, TreeInner
  <2>3. IsInjective(h[m].children)
    BY <1>1, <1>7, TreeInner
  <2>4. InnerOK(g, m, H, J)
    BY <1>2, <2>1, <2>2, <2>3 DEF InnerOK
  <2> QED BY <1>2, <1>5, <1>7, <2>4 DEF NodeOK
<1> QED BY <1>6, <1>7

(* What the proofs about a split need to know of the node that is split.    *)
LEMMA SplitNodeLists ==
  ASSUME NEW h, NEW g, NEW r, NEW ht, NEW K, NEW l, NEW p, NEW right, NEW at,
         SplitCase(h, g, r, ht, K, l, p, right, at)
  PROVE  /\ Tree(h, r, ht, K) /\ l \in NodesIn(h) /\ NodesIn(g) = NodesIn(h) \cup {right}
         /\ Half \in Nat /\ BRankMax \in Nat /\ Half >= 1 /\ Half < BRankMax
         /\ Cut(h[l]) = IF h[l].isLeaf THEN Half ELSE Half + 1
         /\ \A i \in 1 .. BRankMax : h[l].keys[i] \in Int
         /\ \A i, j \in 1 .. BRankMax : i < j => h[l].keys[i] < h[l].keys[j]
         /\ DOMAIN h[l].keys = 1 .. BRankMax
         /\ DOMAIN h[l].children = 1 .. Len(h[l].children)
         /\ Len(h[l].children) = BRankMax + (IF h[l].isLeaf THEN 0 ELSE 1)
         /\ UpKey(h[l]) = h[l].keys[Half + 1] /\ UpKey(h[l]) \in Int /\ UpKey(h[l]) \in Keys
<1>1. /\ Tree(h, r, ht, K) /\ l \in NodesIn(h) /\ NodesIn(g) = NodesIn(h) \cup {right}
      /\ Full(h[l]) /\ UpKey(h[l]) \in Keys
  BY DEF SplitCase, SplitSites
<1>2. h[l] \in NodeRecs /\ ShapeOK(h[l])
  BY <1>1, TreeNode DEF Tree, NodeOK
<1>3. /\ h[l].keys \in Seq(Int)
      /\ Len(h[l].keys) = BRankMax /\ Len(h[l].children) = BRankMax + (IF h[l].isLeaf THEN 0 ELSE 1)
      /\ Ascending(h[l].keys)
      /\ BRankMax \in Nat /\ Half \in Nat /\ Half >= 1 /\ Half < BRankMax
      /\ DOMAIN h[l].keys = 1 .. BRankMax /\ DOMAIN h[l].children = 1 .. Len(h[l].children)
  BY <1>1, <1>2, FullLists
<1>4. \A i \in 1 .. BRankMax : h[l].keys[i] \in Int
  BY <1>3
<1>5. \A i, j \in 1 .. BRankMax : i < j => h[l].keys[i] < h[l].keys[j]
  BY <1>3 DEF Ascending
<1>6. UpKey(h[l]) \in Int
  BY <1>1, KeyLists
<1> QED BY <1>1, <1>3, <1>4, <1>5, <1>6 DEF UpKey, Cut

(* The left part.                                                           *)
LEMMA SplitLeft ==
  ASSUME NEW h, NEW g, NEW r, NEW ht, NEW K, NEW l, NEW p, NEW right, NEW at,
         SplitCase(h, g, r, ht, K, l, p, right, at),
         NEW H, H = HtSplit(ht, l, right), NEW J, J = KeysSplit(h, K, l, right)
  PROVE  NodeOK(g, l, H, J)
<1> DEFINE n == h[l]
           m == g[l]
           u == UpKey(h[l])
           s == Cut(h[l])
<1>1. /\ Tree(h, r, ht, K) /\ l \in NodesIn(h) /\ NodesIn(g) = NodesIn(h) \cup {right}
      /\ Half \in Nat /\ BRankMax \in Nat /\ Half >= 1 /\ Half < BRankMax
      /\ s = IF n.isLeaf THEN Half ELSE Half + 1
      /\ \A i \in 1 .. BRankMax : n.keys[i] \in Int
      /\ \A i, j \in 1 .. BRankMax : i < j => n.keys[i] < n.keys[j]
      /\ DOMAIN n.keys = 1 .. BRankMax /\ DOMAIN n.children = 1 .. Len(n.children)
      /\ Len(n.children) = BRankMax + (IF n.isLeaf THEN 0 ELSE 1)
      /\ u = n.keys[Half + 1] /\ u \in Int
  BY SplitNodeLists
<1>2. /\ m \in NodeRecs /\ (m.isLeaf <=> n.isLeaf) /\ Ascending(m.keys)
      /\ Len(m.keys) = Half /\ \A i \in 1 .. Half : m.keys[i] = n.keys[i + 0]
      /\ Len(m.children) = s /\ \A i \in 1 .. s : m.children[i] = n.children[i + 0]
  BY DEF SplitCase, IsPart
<1>3. /\ H[l] = ht[l] /\ J[l] = {x \in K[l] : x < u} /\ K[l] \subseteq Int
  BY <1>1, SplitGhosts
<1> HIDE DEF n, m, u, s
<1>4. DOMAIN m.keys = 1 .. Half /\ DOMAIN m.children = 1 .. s /\ s \in Nat /\ s <= Len(n.children)
  <2>1. m.keys \in Seq(Keys) /\ m.children \in Seq(Locs)
    BY <1>2 DEF NodeRecs
  <2> QED BY <1>1, <1>2, <2>1
<1>5. /\ \A i \in 1 .. Half : m.keys[i] = n.keys[i] /\ i \in 1 .. BRankMax
      /\ \A i \in 1 .. s : m.children[i] = n.children[i] /\ i \in DOMAIN n.children
  BY <1>1, <1>2, <1>4
<1>6. ShapeOK(m)
  BY <1>1, <1>2 DEF ShapeOK
<1>7. \A i \in 1 .. BRankMax : n.keys[i] < u <=> i <= Half
  BY <1>1
<1>8. CASE n.isLeaf
  <2>1. K[l] = ToSet(n.keys) /\ ht[l] = 0
    BY <1>1, <1>8, TreeLeaf DEF n
  <2>2. ASSUME NEW x \in J[l] PROVE x \in ToSet(m.keys)
    <3>1. PICK i \in 1 .. BRankMax : x = n.keys[i] /\ x < u
      BY <1>1, <1>3, <2>1 DEF ToSet
    <3>2. i \in 1 .. Half
      BY <1>1, <1>7, <3>1
    <3> QED BY <1>4, <1>5, <3>1, <3>2 DEF ToSet
  <2>3. ASSUME NEW i \in 1 .. Half PROVE m.keys[i] \in J[l]
    <3>1. n.keys[i] \in K[l]
      BY <1>1, <1>5, <2>1 DEF ToSet
    <3> QED BY <1>3, <1>5, <1>7, <3>1
  <2>4. J[l] = ToSet(m.keys)
    BY <1>4, <2>2, <2>3 DEF ToSet
  <2> QED BY <1>2, <1>3, <1>6, <1>8, <2>1, <2>4 DEF NodeOK, LeafOK, m
<1>9. CASE ~n.isLeaf
  <2>0. s = Half + 1
    BY <1>1, <1>9
  <2>1. ASSUME NEW i \in 1 .. s
        PROVE  ChildOK(g, l, i, H, J) /\ J[n.children[i]] = K[n.children[i]]
    <3> DEFINE c == n.children[i]
    <3>1. i \in DOMAIN n.children
      BY <1>5
    <3>2. /\ c \in NodesIn(h) /\ h[c].parent = l /\ ht[l] = ht[c] + 1 /\ K[c] \subseteq K[l]
          /\ \A x \in K[c] : Between(n.keys, i, x)
      BY <1>1, <1>9, <3>1, TreeChild DEF n
    <3>3. ~Moves(h, l, c)
      <4>1. ~(i > s)
        BY <1>1, <2>0
      <4> QED BY <1>1, <1>9, <3>1, <4>1, MovesFacts DEF n, s
    <3> HIDE DEF c
    <3>4. c # l
      <4>1. ht[c] \in Nat
        BY <1>1, <3>2, TreeNode
      <4> QED BY <3>2, <4>1
    <3>5. g[c].parent = l /\ H[c] = ht[c] /\ J[c] = K[c]
      BY <3>2, <3>3, <3>4, SplitParentOf, SplitGhosts
    <3>6. ASSUME NEW x \in K[c] PROVE x < u /\ Between(m.keys, i, x)
      <4>1. Between(n.keys, i, x) /\ x \in Int
        BY <1>3, <3>2
      <4>2. i <= BRankMax /\ x < n.keys[i]
        BY <1>1, <1>2, <2>0, <4>1 DEF Between
      <4>3. x < u
        <5>1. i = Half + 1 \/ n.keys[i] < u
          BY <1>1, <1>7, <2>0
        <5> QED BY <1>1, <4>1, <4>2, <5>1
      <4>4. i > 1 => m.keys[i - 1] = n.keys[i - 1] /\ n.keys[i - 1] <= x
        BY <1>1, <1>5, <2>0, <4>1 DEF Between
      <4>5. i <= Half => m.keys[i] = n.keys[i]
        BY <1>5
      <4> QED BY <1>2, <4>2, <4>3, <4>4, <4>5 DEF Between
    <3>7. J[c] \subseteq J[l]
      BY <1>3, <3>2, <3>5, <3>6
    <3>8. m.children[i] = c
      BY <1>5 DEF c
    <3>9. ChildOK(g, l, i, H, J)
      BY <1>1, <1>3, <3>2, <3>5, <3>6, <3>7, <3>8 DEF ChildOK, m
    <3> QED BY <3>5, <3>9 DEF c
  <2>2. ASSUME NEW x \in J[l] PROVE \E i \in 1 .. s : x \in J[m.children[i]]
    <3>1. x \in K[l] /\ x < u /\ x \in Int
      BY <1>3
    <3>2. PICK i \in DOMAIN n.children : x \in K[n.children[i]]
      BY <1>1, <1>9, <3>1, TreeInner DEF n
    <3>3. Between(n.keys, i, x)
      BY <1>1, <1>9, <3>2, TreeChild DEF n
    <3>4. i <= s
      <4>1. ASSUME i > s PROVE FALSE
        <5>1. i > 1 /\ i - 1 \in 1 .. BRankMax /\ ~(i - 1 <= Half)
          BY <1>1, <1>9, <2>0, <4>1
        <5>2. n.keys[i - 1] <= x
          BY <3>3, <5>1 DEF Between
        <5> QED BY <1>1, <1>7, <3>1, <5>1, <5>2
      <4> QED BY <1>1, <1>4, <4>1
    <3>5. i \in 1 .. s
      BY <1>1, <1>4, <3>4
    <3> QED BY <1>5, <2>1, <3>2, <3>5
  <2>3. IsInjective(m.children)
    <3>1. IsInjective(n.children)
      BY <1>1, <1>9, TreeInner DEF n
    <3> QED BY <1>4, <1>5, <3>1 DEF IsInjective
  <2>4. InnerOK(g, l, H, J)
    BY <1>4, <2>1, <2>2, <2>3 DEF InnerOK, m
  <2> QED BY <1>2, <1>6, <1>9, <2>4 DEF NodeOK, m
<1> QED BY <1>8, <1>9

(* The right part.                                                          *)
LEMMA SplitRight ==
  ASSUME NEW h, NEW g, NEW r, NEW ht, NEW K, NEW l, NEW p, NEW right, NEW at,
         SplitCase(h, g, r, ht, K, l, p, right, at),
         NEW H, H = HtSplit(ht, l, right), NEW J, J = KeysSplit(h, K, l, right)
  PROVE  NodeOK(g, right, H, J)
<1> DEFINE n == h[l]
           m == g[right]
           u == UpKey(h[l])
           s == Cut(h[l])
           a == BRankMax - s
           b == Len(n.children) - s
<1>1. /\ Tree(h, r, ht, K) /\ l \in NodesIn(h) /\ NodesIn(g) = NodesIn(h) \cup {right}
      /\ Half \in Nat /\ BRankMax \in Nat /\ Half >= 1 /\ Half < BRankMax
      /\ s = IF n.isLeaf THEN Half ELSE Half + 1
      /\ \A i \in 1 .. BRankMax : n.keys[i] \in Int
      /\ \A i, j \in 1 .. BRankMax : i < j => n.keys[i] < n.keys[j]
      /\ DOMAIN n.keys = 1 .. BRankMax /\ DOMAIN n.children = 1 .. Len(n.children)
      /\ Len(n.children) = BRankMax + (IF n.isLeaf THEN 0 ELSE 1)
      /\ u = n.keys[Half + 1] /\ u \in Int
  BY SplitNodeLists
<1>2. /\ m \in NodeRecs /\ (m.isLeaf <=> n.isLeaf) /\ Ascending(m.keys)
      /\ Len(m.keys) = a /\ \A i \in 1 .. a : m.keys[i] = n.keys[i + s]
      /\ Len(m.children) = b /\ \A i \in 1 .. b : m.children[i] = n.children[i + s]
  BY DEF SplitCase, IsPart
<1>3. /\ H[right] = ht[l] /\ J[right] = {x \in K[l] : x >= u} /\ K[l] \subseteq Int
  BY <1>1, SplitGhosts
<1>4. /\ s \in Nat /\ s >= 1 /\ s <= BRankMax /\ a \in Nat /\ b \in Nat /\ Len(n.children) \in Nat
      /\ a = BRankMax - s /\ b = Len(n.children) - s /\ b = a + (IF n.isLeaf THEN 0 ELSE 1)
  BY <1>1
<1> HIDE DEF n, m, u, s, a, b
<1>5. DOMAIN m.keys = 1 .. a /\ DOMAIN m.children = 1 .. b
  <2>1. m.keys \in Seq(Keys) /\ m.children \in Seq(Locs)
    BY <1>2 DEF NodeRecs
  <2> QED BY <1>2, <2>1
<1>6. /\ \A i \in 1 .. a : i + s \in 1 .. BRankMax
      /\ \A i \in 1 .. b : i + s \in DOMAIN n.children
  BY <1>1, <1>4, SMTT(40)
<1>7. ShapeOK(m)
  <2>1. Len(m.children) = Len(m.keys) + (IF m.isLeaf THEN 0 ELSE 1)
    BY <1>2, <1>4
  <2> QED BY <1>2, <2>1 DEF ShapeOK
<1>8. \A i \in 1 .. BRankMax : n.keys[i] >= u <=> i > Half
  BY <1>1
<1>9. CASE n.isLeaf
  <2>0. s = Half
    BY <1>1, <1>9
  <2>1. K[l] = ToSet(n.keys) /\ ht[l] = 0
    BY <1>1, <1>9, TreeLeaf DEF n
  <2>2. ASSUME NEW x \in J[right] PROVE x \in ToSet(m.keys)
    <3>1. PICK i \in 1 .. BRankMax : x = n.keys[i] /\ x >= u
      BY <1>1, <1>3, <2>1 DEF ToSet
    <3>2. i > s
      BY <1>8, <2>0, <3>1
    <3>3. i - s \in 1 .. a /\ (i - s) + s = i
      <4>1. i \in Int /\ i <= BRankMax
        BY <1>1
      <4>2. s \in Nat /\ BRankMax \in Nat /\ a = BRankMax - s
        BY <1>1, <1>4
      <4> QED BY <3>2, <4>1, <4>2
    <3>4. m.keys[i - s] = x
      BY <1>2, <3>1, <3>3
    <3> QED BY <1>5, <3>3, <3>4 DEF ToSet
  <2>3. ASSUME NEW i \in 1 .. a PROVE m.keys[i] \in J[right]
    <3>1. i + s > Half
      BY <1>4, <2>0
    <3>2. n.keys[i + s] \in K[l] /\ n.keys[i + s] >= u
      BY <1>1, <1>6, <1>8, <2>1, <3>1 DEF ToSet
    <3> QED BY <1>2, <1>3, <3>2
  <2>4. J[right] = ToSet(m.keys)
    BY <1>5, <2>2, <2>3 DEF ToSet
  <2> QED BY <1>2, <1>3, <1>7, <1>9, <2>1, <2>4 DEF NodeOK, LeafOK, m
<1>10. CASE ~n.isLeaf
  <2>0. s = Half + 1 /\ Len(n.children) = BRankMax + 1
    BY <1>1, <1>10
  <2>1. ASSUME NEW i \in 1 .. b
        PROVE  ChildOK(g, right, i, H, J) /\ J[n.children[i + s]] = K[n.children[i + s]]
    <3> DEFINE j == i + s
               c == n.children[j]
    <3>1. j \in DOMAIN n.children /\ j > s /\ j > 1 /\ j \in Nat /\ j <= BRankMax + 1
      BY <1>4, <1>6, <2>0
    <3> HIDE DEF j
    <3>2. /\ c \in NodesIn(h) /\ h[c].parent = l /\ ht[l] = ht[c] + 1 /\ K[c] \subseteq K[l]
          /\ \A x \in K[c] : Between(n.keys, j, x)
      BY <1>1, <1>10, <3>1, TreeChild DEF n
    <3>3. Moves(h, l, c)
      BY <1>1, <1>10, <3>1, MovesFacts DEF n, s
    <3> HIDE DEF c
    <3>4. c # l
      <4>1. ht[c] \in Nat
        BY <1>1, <3>2, TreeNode
      <4> QED BY <3>2, <4>1
    <3>5. g[c].parent = right /\ H[c] = ht[c] /\ J[c] = K[c]
      BY <3>2, <3>3, <3>4, SplitParentOf, SplitGhosts
    <3>6. ASSUME NEW x \in K[c] PROVE x >= u /\ Between(m.keys, i, x)
      <4>1. Between(n.keys, j, x) /\ x \in Int
        BY <1>3, <3>2
      <4>2. j - 1 \in 1 .. BRankMax /\ n.keys[j - 1] <= x
        <5>1. j - 1 \in 1 .. BRankMax
          BY <1>1, <3>1
        <5> QED BY <3>1, <4>1, <5>1 DEF Between
      <4>3. n.keys[j - 1] >= u /\ n.keys[j - 1] \in Int
        BY <1>1, <1>8, <2>0, <3>1, <4>2
      <4>4. x >= u
        BY <1>1, <4>1, <4>2, <4>3
      <4>5. i > 1 => m.keys[i - 1] = n.keys[j - 1]
        <5>1. ASSUME i > 1 PROVE m.keys[i - 1] = n.keys[j - 1]
          <6>1. i - 1 \in 1 .. a /\ (i - 1) + s = j - 1
            BY <1>4, <1>10, <5>1 DEF j
          <6> QED BY <1>2, <6>1
        <5> QED BY <5>1
      <4>6. i <= a => m.keys[i] = n.keys[j] /\ j <= Len(n.keys)
        <5>1. Len(n.keys) = BRankMax
          BY DEF SplitCase, SplitSites, Full, n
        <5> QED BY <1>2, <1>4, <5>1 DEF j
      <4> QED BY <1>2, <4>1, <4>2, <4>4, <4>5, <4>6 DEF Between
    <3>7. J[c] \subseteq J[right]
      BY <1>3, <3>2, <3>5, <3>6
    <3>8. m.children[i] = c
      BY <1>2 DEF c, j
    <3>9. ChildOK(g, right, i, H, J)
      BY <1>1, <1>3, <3>2, <3>5, <3>6, <3>7, <3>8 DEF ChildOK, m
    <3> QED BY <3>5, <3>9 DEF c, j
  <2>2. ASSUME NEW x \in J[right] PROVE \E i \in 1 .. b : x \in J[m.children[i]]
    <3>1. x \in K[l] /\ x >= u /\ x \in Int
      BY <1>3
    <3>2. PICK j \in DOMAIN n.children : x \in K[n.children[j]]
      BY <1>1, <1>10, <3>1, TreeInner DEF n
    <3>3. Between(n.keys, j, x)
      BY <1>1, <1>10, <3>2, TreeChild DEF n
    <3>4. j > s
      <4>1. ASSUME j <= s PROVE FALSE
        <5>1. j \in 1 .. BRankMax /\ j <= Half + 1 /\ Len(n.keys) = BRankMax
          BY <1>1, <1>4, <2>0, <4>1 DEF SplitCase, SplitSites, Full, n
        <5>2. x < n.keys[j]
          BY <3>3, <5>1 DEF Between
        <5>3. j = Half + 1 \/ n.keys[j] < u
          BY <1>1, <1>8, <5>1
        <5> QED BY <1>1, <3>1, <5>1, <5>2, <5>3
      <4> QED BY <1>1, <1>4, <4>1
    <3>5. j - s \in 1 .. b /\ (j - s) + s = j
      <4>1. j \in Int /\ j <= Len(n.children)
        BY <1>1, <1>4
      <4>2. s \in Nat /\ Len(n.children) \in Nat /\ b = Len(n.children) - s
        BY <1>4
      <4> QED BY <3>4, <4>1, <4>2
    <3>6. m.children[j - s] = n.children[j] /\ J[n.children[j]] = K[n.children[j]]
      BY <1>2, <2>1, <3>5
    <3> QED BY <3>2, <3>5, <3>6
  <2>3. IsInjective(m.children)
    <3>1. IsInjective(n.children)
      BY <1>1, <1>10, TreeInner DEF n
    <3>2. ASSUME NEW i \in 1 .. b, NEW j \in 1 .. b, m.children[i] = m.children[j] PROVE i = j
      <4>1. i + s = j + s
        BY <1>2, <1>6, <3>1, <3>2 DEF IsInjective
      <4> QED BY <1>4, <4>1
    <3> QED BY <1>5, <3>2 DEF IsInjective
  <2>4. InnerOK(g, right, H, J)
    BY <1>5, <2>1, <2>2, <2>3 DEF InnerOK, m
  <2> QED BY <1>2, <1>7, <1>10, <2>4 DEF NodeOK, m
<1> QED BY <1>9, <1>10

(* Both parts of a full node hold a key.                                    *)
LEMMA SplitSides ==
  ASSUME NEW h, NEW g, NEW r, NEW ht, NEW K, NEW l, NEW p, NEW right, NEW at,
         SplitCase(h, g, r, ht, K, l, p, right, at)
  PROVE  \E x, y \in K[l] : x < UpKey(h[l]) /\ y >= UpKey(h[l])
<1> DEFINE n == h[l]
           u == UpKey(h[l])
<1>1. /\ Tree(h, r, ht, K) /\ l \in NodesIn(h)
      /\ Half \in Nat /\ BRankMax \in Nat /\ Half >= 1 /\ Half < BRankMax
      /\ \A i \in 1 .. BRankMax : n.keys[i] \in Int
      /\ \A i, j \in 1 .. BRankMax : i < j => n.keys[i] < n.keys[j]
      /\ DOMAIN n.keys = 1 .. BRankMax /\ DOMAIN n.children = 1 .. Len(n.children)
      /\ Len(n.children) = BRankMax + (IF n.isLeaf THEN 0 ELSE 1)
      /\ u = n.keys[Half + 1] /\ u \in Int
  BY SplitNodeLists
<1>2. Filled(h) /\ Len(n.keys) = BRankMax
  BY DEF SplitCase, SplitSites, Full
<1> HIDE DEF n, u
<1>3. 1 \in 1 .. BRankMax /\ Half + 1 \in 1 .. BRankMax /\ 1 < Half + 1
  BY <1>1
<1>4. CASE n.isLeaf
  <2>1. K[l] = ToSet(n.keys)
    BY <1>1, <1>4, TreeLeaf DEF n
  <2>2. n.keys[1] \in K[l] /\ n.keys[Half + 1] \in K[l]
    BY <1>1, <1>3, <2>1 DEF ToSet
  <2>3. n.keys[1] < u /\ u >= u
    BY <1>1, <1>3
  <2> QED BY <1>1, <2>2, <2>3 DEF u
<1>5. CASE ~n.isLeaf
  <2> DEFINE c == n.children[Half + 1]
             d == n.children[Half + 2]
  <2>1. Half + 1 \in DOMAIN n.children /\ Half + 2 \in DOMAIN n.children
    BY <1>1, <1>5
  <2>2. /\ c \in NodesIn(h) /\ K[c] \subseteq K[l] /\ \A x \in K[c] : Between(n.keys, Half + 1, x)
        /\ d \in NodesIn(h) /\ K[d] \subseteq K[l] /\ \A x \in K[d] : Between(n.keys, Half + 2, x)
    BY <1>1, <1>5, <2>1, TreeChild DEF n
  <2>3. K[c] # {} /\ K[d] # {}
    BY <1>1, <1>2, <2>2, NoneEmpty
  <2> HIDE DEF c, d
  <2>4. PICK x \in K[c] : TRUE
    BY <2>3
  <2>5. PICK y \in K[d] : TRUE
    BY <2>3
  <2>6. Half + 1 <= Len(n.keys) /\ Half + 2 > 1 /\ (Half + 2) - 1 = Half + 1
    BY <1>1, <1>2
  <2>7. x < n.keys[Half + 1] /\ n.keys[Half + 1] <= y
    BY <2>2, <2>6 DEF Between
  <2>8. K[l] \subseteq Int
    BY <1>1, TreeNode, KeyLists
  <2> QED BY <1>1, <2>2, <2>7, <2>8 DEF u
<1> QED BY <1>4, <1>5 DEF u

(* The parent's keys stay in order.                                         *)
LEMMA SplitParentLists ==
  ASSUME NEW h, NEW g, NEW r, NEW ht, NEW K, NEW l, NEW p, NEW right, NEW at,
         SplitCase(h, g, r, ht, K, l, p, right, at)
  PROVE  /\ h[p].keys \in Seq(Int) /\ Len(h[p].keys) \in Nat
         /\ Len(h[p].children) = Len(h[p].keys) + 1 /\ DOMAIN h[p].children = 1 .. Len(h[p].keys) + 1
         /\ at \in 1 .. Len(h[p].keys) + 1
         /\ at > 1 => h[p].keys[at - 1] < UpKey(h[l])
         /\ at <= Len(h[p].keys) => UpKey(h[l]) < h[p].keys[at]
         /\ Ascending(g[p].keys)
<1> DEFINE q == h[p]
           u == UpKey(h[l])
<1>1. /\ Tree(h, r, ht, K) /\ l \in NodesIn(h) /\ p \in NodesIn(h) /\ ~q.isLeaf
      /\ at \in DOMAIN q.children /\ q.children[at] = l /\ u \in Int
      /\ IsWider(g[p], q, at, u, right)
  <2>1. UpKey(h[l]) \in Int
    BY SplitNodeLists
  <2> QED BY <2>1 DEF SplitCase, SplitSites
<1>2. /\ q.keys \in Seq(Keys) /\ Len(q.keys) \in Nat /\ DOMAIN q.children = 1 .. Len(q.children)
      /\ Len(q.children) = Len(q.keys) + 1 /\ DOMAIN q.keys = 1 .. Len(q.keys) /\ Ascending(q.keys)
      /\ K[l] \subseteq Keys
  BY <1>1, TreeNode
<1>3. q.keys \in Seq(Int) /\ K[l] \subseteq Int
  BY <1>2, KeyLists
<1>4. \A z \in K[l] : Between(q.keys, at, z)
  BY <1>1, TreeChild
<1>5. PICK x \in K[l], y \in K[l] : x < u /\ y >= u
  BY SplitSides
<1> HIDE DEF q, u
<1>6. at \in 1 .. Len(q.keys) + 1 /\ at \in Nat
  BY <1>1, <1>2
<1>7. \A j \in 1 .. Len(q.keys) : q.keys[j] \in Int
  BY <1>3
<1>8. at > 1 => q.keys[at - 1] < u
  <2>1. ASSUME at > 1 PROVE q.keys[at - 1] < u
    <3>1. at - 1 \in 1 .. Len(q.keys) /\ q.keys[at - 1] <= x
      BY <1>2, <1>4, <1>6, <2>1 DEF Between
    <3> QED BY <1>1, <1>3, <1>5, <1>7, <3>1
  <2> QED BY <2>1
<1>9. at <= Len(q.keys) => u < q.keys[at]
  <2>1. ASSUME at <= Len(q.keys) PROVE u < q.keys[at]
    <3>1. at \in 1 .. Len(q.keys) /\ y < q.keys[at]
      BY <1>2, <1>4, <1>6, <2>1 DEF Between
    <3> QED BY <1>1, <1>3, <1>5, <1>7, <3>1
  <2> QED BY <2>1
<1>10. ASSUME NEW j \in 1 .. Len(q.keys)
       PROVE  (j < at => q.keys[j] < u) /\ (j >= at => u < q.keys[j])
  <2>1. ASSUME j < at PROVE q.keys[j] < u
    <3>1. at > 1 /\ at - 1 \in 1 .. Len(q.keys) /\ (j = at - 1 \/ j < at - 1)
      BY <1>2, <1>6, <2>1
    <3>2. j < at - 1 => q.keys[j] < q.keys[at - 1]
      BY <1>2, <3>1 DEF Ascending
    <3> QED BY <1>1, <1>7, <1>8, <3>1, <3>2
  <2>2. ASSUME j >= at PROVE u < q.keys[j]
    <3>1. at <= Len(q.keys) /\ at \in 1 .. Len(q.keys) /\ (j = at \/ j > at)
      BY <1>2, <1>6, <2>2
    <3>2. j > at => q.keys[at] < q.keys[j]
      BY <1>2, <3>1 DEF Ascending
    <3> QED BY <1>1, <1>7, <1>9, <3>1, <3>2
  <2> QED BY <2>1, <2>2
<1>11. Ascending(InsertAt(q.keys, at, u))
  BY <1>1, <1>2, <1>3, <1>6, <1>10, AscendingInsert
<1> QED BY <1>1, <1>2, <1>3, <1>6, <1>8, <1>9, <1>11 DEF IsWider, q, u

(* The other children of the parent are as they were.                       *)
LEMMA SplitSibling ==
  ASSUME NEW h, NEW g, NEW r, NEW ht, NEW K, NEW l, NEW p, NEW right, NEW at,
         SplitCase(h, g, r, ht, K, l, p, right, at),
         NEW H, H = HtSplit(ht, l, right), NEW J, J = KeysSplit(h, K, l, right),
         NEW i \in DOMAIN h[p].children, i # at
  PROVE  /\ h[p].children[i] \in NodesIn(g) /\ h[p].children[i] \in NodesIn(h)
         /\ h[p].children[i] # l /\ g[h[p].children[i]].parent = p
         /\ H[p] = H[h[p].children[i]] + 1
         /\ J[h[p].children[i]] \subseteq J[p] /\ J[h[p].children[i]] = K[h[p].children[i]]
         /\ \A x \in J[h[p].children[i]] : Between(h[p].keys, i, x)
<1> DEFINE c == h[p].children[i]
<1>1. /\ Tree(h, r, ht, K) /\ l \in NodesIn(h) /\ p \in NodesIn(h) /\ ~h[p].isLeaf /\ l # p
      /\ at \in DOMAIN h[p].children /\ h[p].children[at] = l
      /\ NodesIn(g) = NodesIn(h) \cup {right}
  BY DEF SplitCase, SplitSites
<1>2. /\ c \in NodesIn(h) /\ h[c].parent = p /\ ht[p] = ht[c] + 1 /\ K[c] \subseteq K[p]
      /\ \A x \in K[c] : Between(h[p].keys, i, x)
  BY <1>1, TreeChild
<1>3. c # l
  <2>1. IsInjective(h[p].children)
    BY <1>1, TreeInner
  <2> QED BY <1>1, <2>1 DEF IsInjective
<1>4. ~Moves(h, l, c)
  BY <1>1, MovesFacts
<1> HIDE DEF c
<1>5. g[c].parent = p
  BY <1>2, <1>4, SplitParentOf
<1>6. H[c] = ht[c] /\ H[p] = ht[p] /\ J[c] = K[c] /\ J[p] = K[p]
  BY <1>1, <1>2, <1>3, SplitGhosts
<1> QED BY <1>1, <1>2, <1>3, <1>5, <1>6 DEF c

(* The children of the parent after the split.                              *)
LEMMA SplitParentChild ==
  ASSUME NEW h, NEW g, NEW r, NEW ht, NEW K, NEW l, NEW p, NEW right, NEW at,
         SplitCase(h, g, r, ht, K, l, p, right, at),
         NEW H, H = HtSplit(ht, l, right), NEW J, J = KeysSplit(h, K, l, right)
  PROVE  \A i \in 1 .. Len(h[p].keys) + 2 : ChildOK(g, p, i, H, J)
<1> DEFINE q == h[p]
           m == g[p]
           a == Len(h[p].keys)
           u == UpKey(h[l])
<1>1. /\ Tree(h, r, ht, K) /\ l \in NodesIn(h) /\ p \in NodesIn(h) /\ ~q.isLeaf
      /\ at \in DOMAIN q.children /\ q.children[at] = l /\ h[l].parent = p /\ l # p
      /\ NodesIn(g) = NodesIn(h) \cup {right}
  BY DEF SplitCase, SplitSites
<1>2. /\ a \in Nat /\ Len(q.children) = a + 1 /\ DOMAIN q.children = 1 .. a + 1 /\ at \in 1 .. a + 1
  BY SplitParentLists
<1>3. /\ Len(m.keys) = a + 1
      /\ \A j \in 1 .. a + 1 :
           m.keys[j] = IF j < at THEN q.keys[j] ELSE IF j = at THEN u ELSE q.keys[j - 1]
      /\ \A j \in 1 .. a + 2 :
           m.children[j] = IF j <= at THEN q.children[j] ELSE IF j = at + 1 THEN right ELSE q.children[j - 1]
  <2>1. IsWider(m, q, at, u, right)
    BY DEF SplitCase
  <2>2. Len(q.children) + 1 = a + 2
    BY <1>2
  <2> QED BY <2>1, <2>2 DEF IsWider
<1>4. /\ H[right] = ht[l] /\ H[l] = ht[l] /\ H[p] = ht[p] /\ J[p] = K[p]
      /\ J[l] = {x \in K[l] : x < u} /\ J[right] = {x \in K[l] : x >= u}
  BY <1>1, SplitGhosts
<1>5. ht[p] = ht[l] + 1 /\ K[l] \subseteq K[p] /\ \A x \in K[l] : Between(q.keys, at, x)
  <2>1. /\ ht[p] = ht[q.children[at]] + 1 /\ K[q.children[at]] \subseteq K[p]
        /\ \A x \in K[q.children[at]] : Between(q.keys, at, x)
    BY <1>1, TreeChild
  <2> QED BY <1>1, <2>1
<1>6. u \in Int /\ K[l] \subseteq Int
  BY SplitGhosts
<1>7. ASSUME NEW j \in DOMAIN q.children, j # at
      PROVE  /\ q.children[j] \in NodesIn(g) /\ g[q.children[j]].parent = p
             /\ H[p] = H[q.children[j]] + 1 /\ J[q.children[j]] \subseteq J[p]
             /\ \A x \in J[q.children[j]] : Between(q.keys, j, x)
  BY <1>7, SplitSibling, SMTT(40)
<1> SUFFICES ASSUME NEW i \in 1 .. a + 2 PROVE ChildOK(g, p, i, H, J)
  OBVIOUS
<1> HIDE DEF q, m, a, u
<1>8. CASE i < at
  <2>1. i \in DOMAIN q.children /\ i # at /\ m.children[i] = q.children[i]
    BY <1>2, <1>3, <1>8, SMTT(20) DEF a
  <2>2. i > 1 => m.keys[i - 1] = q.keys[i - 1]
    BY <1>2, <1>3, <1>8 DEF a
  <2>3. i <= a /\ m.keys[i] = q.keys[i]
    BY <1>2, <1>3, <1>8 DEF a
  <2>4. \A x \in J[q.children[i]] : Between(m.keys, i, x)
    BY <1>7, <2>1, <2>2, <2>3 DEF Between, a, q
  <2> QED BY <1>7, <2>1, <2>4 DEF ChildOK, m
<1>9. CASE i = at
  <2>1. m.children[i] = l
    BY <1>1, <1>2, <1>3, <1>9 DEF a
  <2>2. i > 1 => m.keys[i - 1] = q.keys[i - 1]
    BY <1>2, <1>3, <1>9 DEF a
  <2>3. m.keys[i] = u
    BY <1>2, <1>3, <1>9 DEF a
  <2>4. \A x \in J[l] : Between(m.keys, i, x)
    BY <1>4, <1>5, <1>9, <2>2, <2>3 DEF Between
  <2>5. g[l].parent = p
    BY DEF SplitCase, IsPart
  <2> QED BY <1>1, <1>4, <1>5, <2>1, <2>4, <2>5 DEF ChildOK, m
<1>10. CASE i = at + 1
  <2>1. m.children[i] = right
    BY <1>2, <1>3, <1>10 DEF a
  <2>2. m.keys[i - 1] = u
    BY <1>2, <1>3, <1>10 DEF a
  <2>3. i <= a + 1 => m.keys[i] = q.keys[at] /\ at <= a
    BY <1>2, <1>3, <1>10 DEF a
  <2>4. \A x \in J[right] : Between(m.keys, i, x)
    <3>1. ASSUME NEW x \in J[right] PROVE Between(m.keys, i, x)
      <4>1. x \in K[l] /\ x >= u /\ x \in Int
        BY <1>4, <1>6
      <4>2. i <= a + 1 => x < m.keys[i]
        BY <1>5, <2>3, <4>1 DEF Between, a, q
      <4>3. i > 1 => m.keys[i - 1] <= x
        BY <1>6, <2>2, <4>1
      <4> QED BY <1>3, <4>2, <4>3 DEF Between
    <3> QED BY <3>1
  <2>5. g[right].parent = p
    BY DEF SplitCase, IsPart
  <2> QED BY <1>1, <1>4, <1>5, <2>1, <2>4, <2>5 DEF ChildOK, m
<1>11. CASE i > at + 1
  <2> DEFINE j == i - 1
  <2>0. /\ i \in 1 .. a + 2 /\ i - 1 \in 1 .. a + 1 /\ i - 1 # at /\ i - 1 > 1
        /\ ~(i <= at) /\ i # at + 1 /\ ~(i - 1 < at)
    <3>1. a \in Nat /\ at \in 1 .. a + 1
      BY <1>2
    <3> QED BY <1>11, <3>1
  <2>1. j \in DOMAIN q.children /\ j # at /\ m.children[i] = q.children[j] /\ j > 1
    BY <1>2, <1>3, <2>0
  <2>2. m.keys[i - 1] = q.keys[j - 1]
    BY <1>3, <2>0
  <2>3. i <= a + 1 => m.keys[i] = q.keys[j] /\ j <= a
    BY <1>2, <1>3, <1>11 DEF a
  <2> HIDE DEF j
  <2>4. \A x \in J[q.children[j]] : Between(m.keys, i, x)
    BY <1>3, <1>7, <2>1, <2>2, <2>3 DEF Between, a, q
  <2> QED BY <1>7, <2>1, <2>4 DEF ChildOK, m
<1>12. i < at \/ i = at \/ i = at + 1 \/ i > at + 1
  BY <1>2 DEF a
<1> QED BY <1>8, <1>9, <1>10, <1>11, <1>12

(* The children of the parent m, which was q, as a list.                    *)
ListGrows(q, m, at, l, right) ==
  LET a == Len(q.keys)
  IN  /\ a \in Nat /\ DOMAIN q.children = 1 .. a + 1
      /\ DOMAIN m.children = 1 .. a + 2 /\ Len(m.children) = a + 2
      /\ at \in 1 .. a + 1
      /\ \A j \in 1 .. a + 1 : j <= at => m.children[j] = q.children[j]
      /\ \A j \in 1 .. a + 1 : j > at => m.children[j + 1] = q.children[j]
      /\ m.children[at] = l /\ m.children[at + 1] = right
      /\ \A j \in 1 .. a + 2 : j > at + 1 => m.children[j] = q.children[j - 1]

(* The list of children of the parent grows by the right part, next to the  *)
(* left.                                                                    *)
LEMMA SplitParentList ==
  ASSUME NEW h, NEW g, NEW r, NEW ht, NEW K, NEW l, NEW p, NEW right, NEW at,
         SplitCase(h, g, r, ht, K, l, p, right, at)
  PROVE  ListGrows(h[p], g[p], at, l, right)
<1> DEFINE q == h[p]
           m == g[p]
           a == Len(h[p].keys)
           u == UpKey(h[l])
<1>1. /\ a \in Nat /\ Len(q.children) = a + 1 /\ DOMAIN q.children = 1 .. a + 1 /\ at \in 1 .. a + 1
  BY SplitParentLists
<1>2. IsWider(m, q, at, u, right) /\ q.children[at] = l
  BY DEF SplitCase, SplitSites
<1> HIDE DEF q, m, a, u
<1>3. a \in Nat /\ at \in 1 .. a + 1 /\ Len(q.children) + 1 = a + 2
  BY <1>1
<1>4. /\ m \in NodeRecs /\ Len(m.children) = a + 2
      /\ \A j \in 1 .. a + 2 :
           m.children[j] = IF j <= at THEN q.children[j] ELSE IF j = at + 1 THEN right ELSE q.children[j - 1]
  BY <1>2, <1>3 DEF IsWider
<1>5. DOMAIN m.children = 1 .. a + 2
  <2>1. m.children \in Seq(Locs)
    BY <1>4 DEF NodeRecs
  <2> QED BY <1>4, <2>1
<1>6. ASSUME NEW j \in 1 .. a + 1, j <= at PROVE m.children[j] = q.children[j]
  BY <1>3, <1>4, <1>6
<1>7. ASSUME NEW j \in 1 .. a + 1, j > at PROVE m.children[j + 1] = q.children[j]
  <2>1. j + 1 \in 1 .. a + 2 /\ ~(j + 1 <= at) /\ j + 1 # at + 1 /\ (j + 1) - 1 = j
    BY <1>3, <1>7
  <2> QED BY <1>4, <2>1
<1>8. m.children[at] = l /\ m.children[at + 1] = right
  <2>1. at \in 1 .. a + 2 /\ at + 1 \in 1 .. a + 2 /\ at <= at /\ ~(at + 1 <= at)
    BY <1>3
  <2> QED BY <1>2, <1>4, <2>1
<1>9. ASSUME NEW j \in 1 .. a + 2, j > at + 1 PROVE m.children[j] = q.children[j - 1]
  BY <1>3, <1>4, <1>9
<1> QED BY <1>1, <1>4, <1>5, <1>6, <1>7, <1>8, <1>9 DEF ListGrows, q, m, a

(* The parent.                                                              *)
LEMMA SplitParent ==
  ASSUME NEW h, NEW g, NEW r, NEW ht, NEW K, NEW l, NEW p, NEW right, NEW at,
         SplitCase(h, g, r, ht, K, l, p, right, at),
         NEW H, H = HtSplit(ht, l, right), NEW J, J = KeysSplit(h, K, l, right)
  PROVE  NodeOK(g, p, H, J)
<1> DEFINE q == h[p]
           m == g[p]
           a == Len(h[p].keys)
           u == UpKey(h[l])
<1>1. /\ Tree(h, r, ht, K) /\ l \in NodesIn(h) /\ p \in NodesIn(h) /\ ~q.isLeaf
      /\ at \in DOMAIN q.children /\ q.children[at] = l /\ l # p /\ right \notin NodesIn(h)
  BY DEF SplitCase, SplitSites
<1>2. /\ a \in Nat /\ DOMAIN q.children = 1 .. a + 1
      /\ DOMAIN m.children = 1 .. a + 2 /\ Len(m.children) = a + 2
      /\ at \in 1 .. a + 1
      /\ \A j \in 1 .. a + 1 : j <= at => m.children[j] = q.children[j]
      /\ \A j \in 1 .. a + 1 : j > at => m.children[j + 1] = q.children[j]
      /\ m.children[at] = l /\ m.children[at + 1] = right
      /\ \A j \in 1 .. a + 2 : j > at + 1 => m.children[j] = q.children[j - 1]
  <2>1. ListGrows(h[p], g[p], at, l, right)
    BY SplitParentList
  <2> QED BY <2>1 DEF ListGrows
<1>3. Ascending(m.keys)
  BY SplitParentLists
<1>4. ~m.isLeaf /\ Len(m.keys) = a + 1
  BY DEF SplitCase, IsWider
<1>5. /\ J[p] = K[p]
      /\ J[l] = {x \in K[l] : x < u} /\ J[right] = {x \in K[l] : x >= u}
      /\ u \in Int /\ K[l] \subseteq Int
  BY <1>1, SplitGhosts
<1>6. \A i \in 1 .. a + 2 : ChildOK(g, p, i, H, J)
  BY SplitParentChild
<1>7. \A j \in DOMAIN q.children : j # at => J[q.children[j]] = K[q.children[j]]
  BY SplitSibling
<1>8. IsInjective(q.children) /\ \A x \in K[p] : \E i \in DOMAIN q.children : x \in K[q.children[i]]
  BY <1>1, TreeInner
<1>9. \A j \in DOMAIN q.children : q.children[j] # right
  BY <1>1, TreeChild
<1> HIDE DEF q, m, a, u
<1>10. ShapeOK(m)
  <2>1. Len(m.children) = Len(m.keys) + (IF m.isLeaf THEN 0 ELSE 1)
    BY <1>2, <1>4
  <2> QED BY <1>3, <2>1 DEF ShapeOK
<1>11. ASSUME NEW x \in J[p] PROVE \E i \in 1 .. a + 2 : x \in J[m.children[i]]
  <2>1. PICK j \in DOMAIN q.children : x \in K[q.children[j]]
    BY <1>5, <1>8
  <2>2. j \in 1 .. a + 1 /\ (j <= at \/ j > at) /\ at \in 1 .. a + 1 /\ a \in Nat
    BY <1>2
  <2>3. CASE j = at
    <3>1. x \in Int /\ x \in K[l]
      BY <1>1, <1>5, <2>1, <2>3
    <3>2. x \in J[l] \/ x \in J[right]
      BY <1>5, <3>1
    <3>3. at \in 1 .. a + 2 /\ at + 1 \in 1 .. a + 2
      BY <2>2
    <3> QED BY <1>2, <3>2, <3>3
  <2>4. CASE j # at
    <3>1. x \in J[q.children[j]]
      BY <1>7, <2>1, <2>4
    <3>2. j \in 1 .. a + 2 /\ j + 1 \in 1 .. a + 2
      BY <2>2
    <3> QED BY <1>2, <2>2, <3>1, <3>2
  <2> QED BY <2>3, <2>4
<1>12. IsInjective(m.children)
  <2>1. ASSUME NEW i \in 1 .. a + 2, NEW j \in 1 .. a + 2, i < j, m.children[i] = m.children[j] PROVE FALSE
    <3>1. a \in Nat /\ at \in 1 .. a + 1
      BY <1>2
    <3>2. \A x, y \in 1 .. a + 1 : x # y => q.children[x] # q.children[y]
      BY <1>2, <1>8 DEF IsInjective
    <3>3. CASE j <= at
      <4>1. i <= at /\ i # j /\ i \in 1 .. a + 1 /\ j \in 1 .. a + 1
        BY <2>1, <3>1, <3>3
      <4>2. m.children[i] = q.children[i] /\ m.children[j] = q.children[j]
        BY <1>2, <3>3, <4>1
      <4> QED BY <2>1, <3>2, <4>1, <4>2
    <3>4. CASE j = at + 1
      <4>1. i <= at /\ i \in 1 .. a + 1
        BY <2>1, <3>1, <3>4
      <4>2. m.children[i] = q.children[i] /\ m.children[j] = right
        BY <1>2, <3>4, <4>1
      <4> QED BY <1>2, <1>9, <2>1, <4>1, <4>2
    <3>5. CASE j > at + 1
      <4>1. j - 1 \in 1 .. a + 1 /\ m.children[j] = q.children[j - 1]
        BY <1>2, <3>1, <3>5
      <4>2. CASE i <= at
        <5>1. i \in 1 .. a + 1 /\ i # j - 1
          BY <3>1, <3>5, <4>2
        <5> QED BY <1>2, <2>1, <3>2, <4>1, <4>2, <5>1
      <4>3. CASE i = at + 1
        BY <1>2, <1>9, <2>1, <4>1, <4>3
      <4>4. CASE i > at + 1
        <5>1. i - 1 \in 1 .. a + 1 /\ i - 1 # j - 1
          BY <2>1, <3>1, <4>4
        <5> QED BY <1>2, <2>1, <3>2, <4>1, <4>4, <5>1
      <4>5. i <= at \/ i = at + 1 \/ i > at + 1
        BY <3>1
      <4> QED BY <4>2, <4>3, <4>4, <4>5
    <3>6. j <= at \/ j = at + 1 \/ j > at + 1
      BY <3>1
    <3> QED BY <3>3, <3>4, <3>5, <3>6
  <2>2. ASSUME NEW i \in 1 .. a + 2, NEW j \in 1 .. a + 2, m.children[i] = m.children[j] PROVE i = j
    <3>1. i < j \/ j < i \/ i = j
      BY <1>2
    <3> QED BY <2>1, <2>2, <3>1
  <2> QED BY <1>2, <2>2 DEF IsInjective
<1>13. InnerOK(g, p, H, J)
  BY <1>2, <1>6, <1>11, <1>12 DEF InnerOK, m
<1> QED BY <1>4, <1>10, <1>13 DEF NodeOK, m

(* Each node but the root is a child of the one it names.                   *)
LEMMA SplitParents ==
  ASSUME NEW h, NEW g, NEW r, NEW ht, NEW K, NEW l, NEW p, NEW right, NEW at,
         SplitCase(h, g, r, ht, K, l, p, right, at), NEW c \in NodesIn(g), c # r
  PROVE  \E i \in Nat : ChildOf(g, c, g[c].parent, i)
<1>1. /\ Tree(h, r, ht, K) /\ l \in NodesIn(h) /\ p \in NodesIn(h) /\ ~h[p].isLeaf /\ l # p
      /\ at \in DOMAIN h[p].children /\ h[p].children[at] = l
      /\ NodesIn(g) = NodesIn(h) \cup {right} /\ right \notin NodesIn(h)
  BY DEF SplitCase, SplitSites
<1>2. ListGrows(h[p], g[p], at, l, right)
  BY SplitParentList
<1>3. at \in Nat /\ at + 1 \in Nat /\ at \in DOMAIN g[p].children /\ at + 1 \in DOMAIN g[p].children
  BY <1>2 DEF ListGrows
<1>4. g[p].children[at] = l /\ g[p].children[at + 1] = right
  BY <1>2 DEF ListGrows
<1>5. ~g[p].isLeaf /\ g[l].parent = p /\ g[right].parent = p /\ (g[right].isLeaf <=> h[l].isLeaf)
  BY DEF SplitCase, IsWider, IsPart
<1>6. /\ Len(g[right].children) = Len(h[l].children) - Cut(h[l])
      /\ \A i \in 1 .. Len(h[l].children) - Cut(h[l]) : g[right].children[i] = h[l].children[i + Cut(h[l])]
      /\ Len(g[l].children) = Cut(h[l])
      /\ \A i \in 1 .. Cut(h[l]) : g[l].children[i] = h[l].children[i + 0]
      /\ g[l] \in NodeRecs /\ g[right] \in NodeRecs
  BY DEF SplitCase, IsPart
<1>7. /\ Cut(h[l]) \in Nat /\ Cut(h[l]) <= Len(h[l].children) /\ Len(h[l].children) \in Nat
      /\ DOMAIN h[l].children = 1 .. Len(h[l].children)
  BY SplitNodeLists
<1>8. DOMAIN g[l].children = 1 .. Cut(h[l]) /\ DOMAIN g[right].children = 1 .. Len(h[l].children) - Cut(h[l])
  <2>1. g[l].children \in Seq(Locs) /\ g[right].children \in Seq(Locs)
    BY <1>6 DEF NodeRecs
  <2> QED BY <1>6, <2>1
<1>9. CASE c = right
  <2>1. ChildOf(g, c, p, at + 1)
    BY <1>1, <1>3, <1>4, <1>5, <1>9 DEF ChildOf
  <2> QED BY <1>3, <1>5, <1>9, <2>1
<1>10. CASE c = l
  <2>1. ChildOf(g, c, p, at)
    BY <1>1, <1>3, <1>4, <1>5, <1>10 DEF ChildOf
  <2> QED BY <1>3, <1>5, <1>10, <2>1
<1>11. CASE c # right /\ c # l /\ Moves(h, l, c)
  <2>1. c \in NodesIn(h)
    BY <1>1, <1>11
  <2>2. g[c].parent = right
    BY <1>11, <2>1, SplitParentOf
  <2>3. PICK i \in DOMAIN h[l].children : i > Cut(h[l]) /\ h[l].children[i] = c /\ ~h[l].isLeaf
    BY <1>11 DEF Moves
  <2> DEFINE j == i - Cut(h[l])
  <2>4. j \in 1 .. Len(h[l].children) - Cut(h[l]) /\ j + Cut(h[l]) = i /\ j \in Nat
    <3>1. i \in Int /\ i <= Len(h[l].children)
      BY <1>7
    <3> QED BY <1>7, <2>3, <3>1
  <2> HIDE DEF j
  <2>5. g[right].children[j] = c /\ j \in DOMAIN g[right].children
    BY <1>6, <1>8, <2>3, <2>4
  <2>6. ChildOf(g, c, right, j)
    BY <1>1, <1>5, <2>3, <2>5 DEF ChildOf
  <2> QED BY <2>2, <2>4, <2>6
<1>12. CASE c # right /\ c # l /\ ~Moves(h, l, c)
  <2> DEFINE m == h[c].parent
  <2>1. c \in NodesIn(h)
    BY <1>1, <1>12
  <2>2. /\ m \in NodesIn(h) /\ ~h[m].isLeaf /\ m \in NodesIn(g)
        /\ \E i \in DOMAIN h[m].children : h[m].children[i] = c
    BY <1>1, <2>1, TreeParent
  <2>3. PICK i \in DOMAIN h[m].children : h[m].children[i] = c
    BY <2>2
  <2>4. g[c].parent = m /\ ~g[m].isLeaf
    BY <1>12, <2>1, <2>2, SplitParentOf
  <2>5. ~(l = m /\ i > Cut(h[m]))
    BY <1>1, <1>12, <2>2, <2>3, MovesFacts
  <2>6. i \in Nat
    <3>1. DOMAIN h[m].children = 1 .. Len(h[m].children) /\ Len(h[m].children) \in Nat
      BY <1>1, <2>2, TreeNode
    <3> QED BY <3>1
  <2> HIDE DEF m
  <2>7. CASE m = l
    <3>1. i \in 1 .. Cut(h[l]) /\ i + 0 = i
      BY <1>7, <2>3, <2>5, <2>6, <2>7
    <3>2. ChildOf(g, c, m, i)
      BY <1>6, <1>8, <2>2, <2>3, <2>4, <2>7, <3>1 DEF ChildOf
    <3> QED BY <2>4, <2>6, <3>2
  <2>8. CASE m = p
    <3>1. i # at
      BY <1>1, <1>12, <2>3, <2>8
    <3>0. i \in DOMAIN h[p].children /\ h[p].children[i] = c
      BY <2>3, <2>8
    <3>5. i \in 1 .. Len(h[p].keys) + 1 /\ Len(h[p].keys) \in Nat
      BY <1>2, <3>0 DEF ListGrows
    <3>2. i <= at \/ i > at
      BY <1>3, <2>6
    <3>3. CASE i <= at
      <4>1. i \in DOMAIN g[p].children /\ g[p].children[i] = c
        <5>1. i \in 1 .. Len(h[p].keys) + 2
          BY <3>5
        <5> QED BY <1>2, <3>0, <3>3, <3>5, <5>1 DEF ListGrows
      <4>2. ChildOf(g, c, m, i)
        BY <2>2, <2>4, <2>8, <4>1 DEF ChildOf
      <4> QED BY <2>4, <2>6, <4>2
    <3>4. CASE i > at
      <4>1. i + 1 \in DOMAIN g[p].children /\ g[p].children[i + 1] = c
        <5>1. i + 1 \in 1 .. Len(h[p].keys) + 2
          BY <3>5
        <5> QED BY <1>2, <3>0, <3>4, <3>5, <5>1 DEF ListGrows
      <4>2. ChildOf(g, c, m, i + 1) /\ i + 1 \in Nat
        BY <2>2, <2>4, <2>6, <2>8, <4>1 DEF ChildOf
      <4> QED BY <2>4, <4>2
    <3> QED BY <3>2, <3>3, <3>4
  <2>9. CASE m # l /\ m # p
    <3>1. g[m].children = h[m].children
      BY <2>2, <2>9 DEF SplitCase, SplitOthers
    <3>2. ChildOf(g, c, m, i)
      BY <2>2, <2>3, <2>4, <3>1 DEF ChildOf
    <3> QED BY <2>4, <2>6, <3>2
  <2> QED BY <2>7, <2>8, <2>9
<1> QED BY <1>9, <1>10, <1>11, <1>12

(* A split keeps the tree.                                                  *)
LEMMA SplitTree ==
  ASSUME NEW h, NEW g, NEW r, NEW ht, NEW K, NEW l, NEW p, NEW right, NEW at,
         SplitCase(h, g, r, ht, K, l, p, right, at),
         NEW H, H = HtSplit(ht, l, right), NEW J, J = KeysSplit(h, K, l, right)
  PROVE  Tree(g, r, H, J)
<1>1. /\ Tree(h, r, ht, K) /\ l \in NodesIn(h) /\ g \in Heaps
      /\ NodesIn(g) = NodesIn(h) \cup {right} /\ right \notin NodesIn(h)
  BY DEF SplitCase, SplitSites
<1>2. H \in [Locs -> Nat] /\ J \in [Locs -> SUBSET Keys]
  BY SplitGhosts
<1>3. r \in NodesIn(g) /\ g[r].parent = NoLoc
  BY <1>1, TreeHeap, SplitParentOf
<1>4. ASSUME NEW c \in NodesIn(g) PROVE NodeOK(g, c, H, J)
  BY <1>1, SplitLeft, SplitRight, SplitParent, SplitOther
<1>5. ASSUME NEW c \in NodesIn(g) PROVE H[c] <= H[r]
  <2>1. H[right] = ht[l] /\ \A m \in NodesIn(h) : H[m] = ht[m]
    BY SplitGhosts
  <2>2. \A m \in NodesIn(h) : ht[m] <= ht[r]
    BY <1>1, TreeNode
  <2>3. H[r] = ht[r]
    BY <1>1, <2>1, TreeHeap
  <2> QED BY <1>1, <2>1, <2>2, <2>3
<1>6. \A c \in NodesIn(g) \ {r} : \E i \in Nat : ChildOf(g, c, g[c].parent, i)
  BY SplitParents
<1> QED BY <1>1, <1>2, <1>3, <1>4, <1>5, <1>6 DEF Tree

(* The entries of a full leaf are those of its parts.                       *)
LEMMA SplitEntries ==
  ASSUME NEW h, NEW g, NEW r, NEW ht, NEW K, NEW l, NEW p, NEW right, NEW at,
         SplitCase(h, g, r, ht, K, l, p, right, at)
  PROVE  Entries(g) = Entries(h)
<1> DEFINE n == h[l]
           At(f, m, i, k, a) ==
             /\ m \in NodesIn(f) /\ f[m].isLeaf /\ i \in DOMAIN f[m].keys
             /\ k = f[m].keys[i] /\ a = f[m].children[i] /\ k \in Keys /\ a \in Locs
<1>1. /\ Tree(h, r, ht, K) /\ l \in NodesIn(h) /\ p \in NodesIn(h) /\ ~h[p].isLeaf /\ l # p
      /\ NodesIn(g) = NodesIn(h) \cup {right} /\ h \in Heaps /\ g \in Heaps
  BY TreeHeap DEF SplitCase, SplitSites
<1>2. /\ Half \in Nat /\ BRankMax \in Nat /\ Half >= 1 /\ Half < BRankMax /\ DOMAIN n.keys = 1 .. BRankMax
      /\ Cut(n) = IF n.isLeaf THEN Half ELSE Half + 1
      /\ Len(n.children) = BRankMax + (IF n.isLeaf THEN 0 ELSE 1)
  BY SplitNodeLists
<1>3. /\ g[l] \in NodeRecs /\ (g[l].isLeaf <=> n.isLeaf)
      /\ Len(g[l].keys) = Half /\ \A i \in 1 .. Half : g[l].keys[i] = n.keys[i + 0]
      /\ \A i \in 1 .. Cut(n) : g[l].children[i] = n.children[i + 0]
      /\ g[right] \in NodeRecs /\ (g[right].isLeaf <=> n.isLeaf)
      /\ Len(g[right].keys) = BRankMax - Cut(n)
      /\ \A i \in 1 .. BRankMax - Cut(n) : g[right].keys[i] = n.keys[i + Cut(n)]
      /\ \A i \in 1 .. Len(n.children) - Cut(n) : g[right].children[i] = n.children[i + Cut(n)]
      /\ ~g[p].isLeaf
  BY DEF SplitCase, IsPart, IsWider
<1>4. DOMAIN g[l].keys = 1 .. Half /\ DOMAIN g[right].keys = 1 .. BRankMax - Cut(n)
  <2>1. g[l].keys \in Seq(Keys) /\ g[right].keys \in Seq(Keys)
    BY <1>3 DEF NodeRecs
  <2> QED BY <1>3, <2>1
<1>5. \A m \in NodesIn(h) \ {l, p} :
        (g[m].isLeaf <=> h[m].isLeaf) /\ g[m].keys = h[m].keys /\ g[m].children = h[m].children
  BY DEF SplitCase, SplitOthers
<1> HIDE DEF n
<1>6. ASSUME n.isLeaf
      PROVE  /\ \A i \in 1 .. Half : /\ g[l].keys[i] = n.keys[i] /\ g[l].children[i] = n.children[i]
                                     /\ i \in 1 .. BRankMax
             /\ \A i \in 1 .. BRankMax - Half : /\ g[right].keys[i] = n.keys[i + Half]
                                                /\ g[right].children[i] = n.children[i + Half]
                                                /\ i + Half \in 1 .. BRankMax
             /\ DOMAIN g[right].keys = 1 .. BRankMax - Half
  <2>1. Cut(n) = Half /\ Len(n.children) - Cut(n) = BRankMax - Half
    BY <1>2, <1>6
  <2>2. \A i \in 1 .. Half : i + 0 = i /\ i \in 1 .. BRankMax
    BY <1>2
  <2>3. \A i \in 1 .. BRankMax - Half : i + Half \in 1 .. BRankMax
    BY <1>2
  <2>4. \A i \in 1 .. Half : g[l].keys[i] = n.keys[i] /\ g[l].children[i] = n.children[i]
    BY <1>3, <2>1, <2>2
  <2>5. \A i \in 1 .. BRankMax - Half : /\ g[right].keys[i] = n.keys[i + Half]
                                        /\ g[right].children[i] = n.children[i + Half]
    BY <1>3, <2>1
  <2> QED BY <1>4, <2>1, <2>2, <2>3, <2>4, <2>5
<1>7. ASSUME NEW k, NEW a, NEW m, NEW i, At(g, m, i, k, a)
      PROVE  \E m1, i1 : At(h, m1, i1, k, a)
  <2>1. m # p
    BY <1>3, <1>7
  <2>2. CASE m = l
    <3>1. n.isLeaf /\ i \in 1 .. Half
      BY <1>3, <1>4, <1>7, <2>2
    <3>2. At(h, l, i, k, a)
      BY <1>1, <1>2, <1>6, <1>7, <2>2, <3>1 DEF n
    <3> QED BY <3>2
  <2>3. CASE m = right
    <3>1. n.isLeaf
      BY <1>3, <1>7, <2>3
    <3>2. i \in 1 .. BRankMax - Half
      BY <1>6, <1>7, <2>3, <3>1
    <3>3. At(h, l, i + Half, k, a)
      BY <1>1, <1>2, <1>6, <1>7, <2>3, <3>1, <3>2 DEF n
    <3> QED BY <3>3
  <2>4. CASE m # l /\ m # right
    <3>1. At(h, m, i, k, a)
      BY <1>1, <1>5, <1>7, <2>1, <2>4
    <3> QED BY <3>1
  <2> QED BY <2>2, <2>3, <2>4
<1>8. ASSUME NEW k, NEW a, NEW m, NEW i, At(h, m, i, k, a)
      PROVE  \E m1, i1 : At(g, m1, i1, k, a)
  <2>1. m # p
    BY <1>1, <1>8
  <2>2. CASE m = l
    <3>1. n.isLeaf /\ i \in 1 .. BRankMax
      BY <1>2, <1>8, <2>2 DEF n
    <3>2. i <= Half \/ i > Half
      BY <1>2, <3>1
    <3>3. CASE i <= Half
      <4>1. i \in 1 .. Half
        BY <1>2, <3>1, <3>3
      <4>2. At(g, l, i, k, a)
        BY <1>1, <1>3, <1>4, <1>6, <1>8, <2>2, <3>1, <4>1 DEF n
      <4> QED BY <4>2
    <3>4. CASE i > Half
      <4> DEFINE j == i - Half
      <4>1. j \in 1 .. BRankMax - Half /\ j + Half = i
        BY <1>2, <3>1, <3>4
      <4> HIDE DEF j
      <4>2. /\ g[right].keys[j] = n.keys[i] /\ g[right].children[j] = n.children[i]
            /\ j \in DOMAIN g[right].keys
        BY <1>6, <3>1, <4>1
      <4>3. At(g, right, j, k, a)
        BY <1>1, <1>3, <1>8, <2>2, <3>1, <4>2 DEF n
      <4> QED BY <4>3
    <3> QED BY <3>2, <3>3, <3>4
  <2>3. CASE m # l
    <3>1. At(g, m, i, k, a)
      BY <1>1, <1>5, <1>8, <2>1, <2>3
    <3> QED BY <3>1
  <2> QED BY <2>2, <2>3
<1>9. ASSUME NEW f, f \in Heaps, NEW k, NEW a
      PROVE  <<k, a>> \in Entries(f) <=> \E m, i : At(f, m, i, k, a)
  <2>1. ASSUME <<k, a>> \in Entries(f) PROVE \E m, i : At(f, m, i, k, a)
    <3>1. PICK m \in NodesIn(f) : /\ f[m].isLeaf
                                  /\ \E i \in DOMAIN f[m].keys : /\ k = f[m].keys[i] /\ a = f[m].children[i]
                                                                 /\ k \in Keys /\ a \in Locs
      BY <1>9, <2>1, EntryFacts
    <3>2. PICK i \in DOMAIN f[m].keys : k = f[m].keys[i] /\ a = f[m].children[i] /\ k \in Keys /\ a \in Locs
      BY <3>1
    <3>3. At(f, m, i, k, a)
      BY <3>1, <3>2
    <3> QED BY <3>3
  <2>2. ASSUME NEW m, NEW i, At(f, m, i, k, a) PROVE <<k, a>> \in Entries(f)
    BY <1>9, <2>2, EntryFacts
  <2> HIDE DEF At
  <2> QED BY <2>1, <2>2
<1> HIDE DEF At
<1>10. ASSUME NEW k, NEW a PROVE <<k, a>> \in Entries(g) <=> <<k, a>> \in Entries(h)
  <2>1. (\E m, i : At(g, m, i, k, a)) <=> (\E m, i : At(h, m, i, k, a))
    BY <1>7, <1>8
  <2>2. <<k, a>> \in Entries(g) <=> \E m, i : At(g, m, i, k, a)
    BY <1>1, <1>9
  <2>3. <<k, a>> \in Entries(h) <=> \E m, i : At(h, m, i, k, a)
    BY <1>1, <1>9
  <2> QED BY <2>1, <2>2, <2>3
<1>11. Entries(g) \subseteq Keys \X Locs /\ Entries(h) \subseteq Keys \X Locs
  BY <1>1, EntryFacts
<1> QED BY <1>10, <1>11

(* How long the lists are after a split.                                    *)
LEMMA SplitFits ==
  ASSUME NEW h, NEW g, NEW r, NEW ht, NEW K, NEW l, NEW p, NEW right, NEW at,
         SplitCase(h, g, r, ht, K, l, p, right, at),
         \A c \in NodesIn(h) \ {l, p} : KeysFit(h, c),
         \A c \in NodesIn(h) \ {p} : ~h[c].isLeaf => Len(h[c].children) >= LeastKids
  PROVE  /\ Filled(g)
         /\ \A c \in NodesIn(g) \ {p} : KeysFit(g, c)
         /\ Len(g[p].keys) = Len(h[p].keys) + 1 /\ Len(g[p].children) = Len(h[p].children) + 1
         /\ \A c \in NodesIn(g) \ {p} : ~g[c].isLeaf => Len(g[c].children) >= LeastKids
<1> DEFINE n == h[l]
<1>1. /\ Tree(h, r, ht, K) /\ l \in NodesIn(h) /\ p \in NodesIn(h) /\ ~h[p].isLeaf /\ l # p
      /\ NodesIn(g) = NodesIn(h) \cup {right} /\ Filled(h)
  BY DEF SplitCase, SplitSites
<1>2. /\ Half \in Nat /\ BRankMax \in Nat /\ Half >= 1 /\ Half < BRankMax
      /\ Cut(n) = IF n.isLeaf THEN Half ELSE Half + 1
      /\ Len(n.children) = BRankMax + (IF n.isLeaf THEN 0 ELSE 1)
  BY SplitNodeLists
<1>3. /\ (g[l].isLeaf <=> n.isLeaf)
      /\ Len(g[l].keys) = Half /\ Len(g[l].children) = Cut(n)
      /\ (g[right].isLeaf <=> n.isLeaf)
      /\ Len(g[right].keys) = BRankMax - Cut(n) /\ Len(g[right].children) = Len(n.children) - Cut(n)
      /\ ~g[p].isLeaf /\ Len(g[p].keys) = Len(h[p].keys) + 1 /\ Len(g[p].children) = Len(h[p].children) + 1
  BY DEF SplitCase, IsPart, IsWider
<1>4. \A m \in NodesIn(h) \ {l, p} :
        (g[m].isLeaf <=> h[m].isLeaf) /\ g[m].keys = h[m].keys /\ g[m].children = h[m].children
  BY DEF SplitCase, SplitOthers
<1>5. LeastKids \in Nat /\ LeastKids <= 2 /\ LeastKids <= BRankMax - Half
  BY RankFacts
<1> HIDE DEF n
<1>6. /\ n.isLeaf => Len(g[l].keys) > 0 /\ Len(g[right].keys) > 0
      /\ Len(g[l].keys) < BRankMax /\ Len(g[right].keys) < BRankMax
      /\ ~n.isLeaf => Len(g[l].children) >= LeastKids /\ Len(g[right].children) >= LeastKids
  BY <1>2, <1>3, <1>5
<1>7. Filled(g)
  <2>1. ASSUME NEW c \in NodesIn(g), g[c].isLeaf PROVE g[c].keys # <<>>
    <3>1. c # p
      BY <1>3, <2>1
    <3>2. c = l \/ c = right => Len(g[c].keys) > 0
      BY <1>3, <1>6, <2>1
    <3>3. Len(<<>>) = 0
      OBVIOUS
    <3>4. c # l /\ c # right => g[c].keys # <<>>
      BY <1>1, <1>4, <2>1, <3>1 DEF Filled
    <3> QED BY <3>2, <3>3, <3>4
  <2> QED BY <2>1 DEF Filled
<1>8. ASSUME NEW c \in NodesIn(g), c # p PROVE KeysFit(g, c)
  <2>1. c = l \/ c = right => Len(g[c].keys) < BRankMax
    BY <1>6
  <2>2. c # l /\ c # right => g[c].keys = h[c].keys /\ KeysFit(h, c)
    BY <1>1, <1>4, <1>8
  <2> QED BY <2>1, <2>2 DEF KeysFit
<1>9. ASSUME NEW c \in NodesIn(g), c # p, ~g[c].isLeaf PROVE Len(g[c].children) >= LeastKids
  <2>1. c = l \/ c = right => Len(g[c].children) >= LeastKids
    BY <1>3, <1>6, <1>9
  <2>2. c # l /\ c # right => Len(g[c].children) >= LeastKids
    BY <1>1, <1>4, <1>9
  <2> QED BY <2>1, <2>2
<1> QED BY <1>3, <1>7, <1>8, <1>9

-----------------------------------------------------------------------------
(* splitNode in the file *)

LEMMA MovedChild ==
  ASSUME NEW h, NEW r, NEW ht, NEW K, Tree(h, r, ht, K), NEW l \in NodesIn(h), NEW c, Moves(h, l, c)
  PROVE  c \in NodesIn(h) /\ c # l /\ h[c].parent = l /\ ht[l] = ht[c] + 1
<1>1. PICK i \in DOMAIN h[l].children : ~h[l].isLeaf /\ h[l].children[i] = c
  BY DEF Moves
<1>2. c \in NodesIn(h) /\ h[c].parent = l /\ ht[l] = ht[c] + 1
  BY <1>1, TreeChild
<1>3. ht[c] \in Nat
  BY <1>2, TreeNode
<1>4. c # l
  BY <1>2, <1>3
<1> QED BY <1>2, <1>4

(* What a full node at l becomes, whatever its parent.                      *)
IsHalved(g, h, l, p, right) ==
  /\ g = [c \in Locs |-> g[c]]
  /\ g[l] = LeftPart(h[l], p) /\ g[right] = RightPart(h[l], p)
  /\ \A c \in Locs \ {l, right} :
       g[c] = IF Moves(h, l, c) THEN [h[c] EXCEPT !.parent = right] ELSE h[c]

(* Halved writes both parts and tells the moved children.                   *)
LEMMA HalvedFacts ==
  ASSUME NEW h, NEW r, NEW ht, NEW K, Tree(h, r, ht, K), NEW l \in NodesIn(h), Full(h[l]),
         NEW right, right = NodePlace(FreeLocs(h)), right \in FreeLocs(h),
         NEW p \in Locs \cup {NoLoc}, NEW g, g = Halved(h, l, p)
  PROVE  IsHalved(g, h, l, p, right)
<1> DEFINE a == LeftPart(h[l], p)
           b == RightPart(h[l], p)
           parts == [h EXCEPT ![l] = a, ![right] = b]
<1>1. h \in Heaps /\ l \in Locs
  BY TreeHeap
<1>2. right \in Locs /\ right \notin NodesIn(h) /\ l # right
  BY <1>1, PlaceKinds DEF FreeLocs
<1>3. g = IF h[l].isLeaf THEN parts ELSE Adopted(parts, b.children, right)
  BY DEF Halved
<1>4. parts = [c \in Locs |-> IF c = right THEN b ELSE IF c = l THEN a ELSE h[c]]
  <2> HIDE DEF a, b
  <2> QED BY <1>1, <1>2 DEF Heaps
<1> HIDE DEF parts, a
<1>5. /\ parts[l] = a /\ parts[right] = b /\ \A c \in Locs \ {l, right} : parts[c] = h[c]
      /\ parts = [c \in Locs |-> parts[c]]
  BY <1>1, <1>2, <1>4
<1>6. CASE h[l].isLeaf
  <2>1. g = parts
    BY <1>3, <1>6
  <2>2. \A c : ~Moves(h, l, c)
    BY <1>6 DEF Moves
  <2> QED BY <1>5, <2>1, <2>2 DEF IsHalved, a
<1>7. CASE ~h[l].isLeaf
  <2>1. h[l] \in NodeRecs /\ ShapeOK(h[l])
    BY TreeNode DEF Tree, NodeOK
  <2>2. /\ b \in NodeRecs /\ Len(b.children) = Len(h[l].children) - Cut(h[l])
        /\ \A i \in 1 .. Len(h[l].children) - Cut(h[l]) : b.children[i] = h[l].children[i + Cut(h[l])]
    BY <2>1, RightFacts
  <2>3. DOMAIN b.children = 1 .. Len(h[l].children) - Cut(h[l])
    <3>1. b.children \in Seq(Locs)
      BY <2>2 DEF NodeRecs
    <3> QED BY <2>2, <3>1
  <2>4. /\ DOMAIN h[l].children = 1 .. Len(h[l].children)
        /\ Len(h[l].children) \in Nat /\ Cut(h[l]) \in Nat /\ Cut(h[l]) <= Len(h[l].children)
    <3>1. /\ DOMAIN h[l].children = 1 .. Len(h[l].children)
          /\ Len(h[l].children) = BRankMax + (IF h[l].isLeaf THEN 0 ELSE 1)
          /\ BRankMax \in Nat /\ Half \in Nat /\ Half < BRankMax
      BY <2>1, FullLists
    <3> QED BY <3>1 DEF Cut
  <2> HIDE DEF b
  <2>5. ASSUME NEW c PROVE c \in ToSet(b.children) <=> Moves(h, l, c)
    <3>1. ASSUME c \in ToSet(b.children) PROVE Moves(h, l, c)
      <4>1. PICK j \in 1 .. Len(h[l].children) - Cut(h[l]) : b.children[j] = c
        BY <2>3, <3>1 DEF ToSet
      <4>2. j + Cut(h[l]) \in DOMAIN h[l].children /\ j + Cut(h[l]) > Cut(h[l])
        BY <2>4
      <4> QED BY <1>7, <2>2, <4>1, <4>2 DEF Moves
    <3>2. ASSUME Moves(h, l, c) PROVE c \in ToSet(b.children)
      <4>1. PICK i \in DOMAIN h[l].children : i > Cut(h[l]) /\ h[l].children[i] = c
        BY <3>2 DEF Moves
      <4> DEFINE j == i - Cut(h[l])
      <4>2. j \in 1 .. Len(h[l].children) - Cut(h[l]) /\ j + Cut(h[l]) = i
        <5>1. i \in Int /\ i <= Len(h[l].children)
          BY <2>4
        <5> QED BY <2>4, <4>1, <5>1
      <4> HIDE DEF j
      <4>3. b.children[j] = c
        BY <2>2, <4>1, <4>2
      <4> QED BY <2>3, <4>2, <4>3 DEF ToSet
    <3> QED BY <3>1, <3>2
  <2>6. g = [c \in Locs |-> IF c \in ToSet(b.children) THEN [parts[c] EXCEPT !.parent = right] ELSE parts[c]]
    BY <1>3, <1>7 DEF Adopted
  <2>7. ~Moves(h, l, l) /\ ~Moves(h, l, right)
    BY <1>2, MovedChild
  <2>8. g[l] = a /\ g[right] = b
    BY <1>1, <1>2, <1>5, <2>5, <2>6, <2>7
  <2>9. \A c \in Locs \ {l, right} :
          g[c] = IF Moves(h, l, c) THEN [h[c] EXCEPT !.parent = right] ELSE h[c]
    BY <1>5, <2>5, <2>6
  <2>10. g = [c \in Locs |-> g[c]]
    BY <2>6
  <2> QED BY <2>8, <2>9, <2>10 DEF IsHalved, a, b
<1> QED BY <1>6, <1>7

(* A node with a parent.                                                    *)
LEMMA BelowSplits ==
  ASSUME NEW h, NEW r, NEW ht, NEW K, Tree(h, r, ht, K), NEW l \in NodesIn(h), Full(h[l]), l # r,
         NEW right, right = NodePlace(FreeLocs(h)), right \in FreeLocs(h)
  PROVE  Splits(h, SplitBelow(h, l, h[l].parent), l, h[l].parent, right)
<1> DEFINE p == h[l].parent
           f == Halved(h, l, p)
           m == WithChild(h[p], l, UpKey(h[l]), right)
           g == SplitBelow(h, l, p)
<1>1. h \in Heaps /\ l \in Locs
  BY TreeHeap
<1>2. p \in NodesIn(h) /\ p \in Locs /\ ht[p] = ht[l] + 1
  BY TreeParent
<1>3. right \in Locs /\ right \notin NodesIn(h)
  BY <1>1, PlaceKinds DEF FreeLocs
<1>4. l # p
  <2>1. ht[l] \in Nat
    BY TreeNode
  <2> QED BY <1>2, <2>1
<1>5. /\ f = [c \in Locs |-> f[c]]
      /\ f[l] = LeftPart(h[l], p) /\ f[right] = RightPart(h[l], p)
      /\ \A c \in Locs \ {l, right} :
           f[c] = IF Moves(h, l, c) THEN [h[c] EXCEPT !.parent = right] ELSE h[c]
  <2>1. p \in Locs \cup {NoLoc} /\ f = Halved(h, l, p)
    BY <1>2
  <2>2. IsHalved(f, h, l, p, right)
    <3> HIDE DEF p, f
    <3> QED BY <2>1, HalvedFacts
  <2> QED BY <2>2 DEF IsHalved
<1>6. g = [f EXCEPT ![p] = m]
  BY DEF SplitBelow
<1> HIDE DEF f, m, g
<1>7. g = [c \in Locs |-> IF c = p THEN m ELSE f[c]]
  BY <1>5, <1>6
<1>8. g[p] = m /\ \A c \in Locs \ {p} : g[c] = f[c]
  BY <1>2, <1>7
<1>9. g = [c \in Locs |-> g[c]]
  BY <1>7
<1>10. p # right
  BY <1>2, <1>3
<1>11. /\ g[l] = LeftPart(h[l], p) /\ g[right] = RightPart(h[l], p)
       /\ \A c \in Locs \ {l, p, right} :
            g[c] = IF Moves(h, l, c) THEN [h[c] EXCEPT !.parent = right] ELSE h[c]
  BY <1>1, <1>3, <1>4, <1>5, <1>8, <1>10
<1> QED BY <1>2, <1>4, <1>8, <1>9, <1>11 DEF Splits, m, g

(* The data records stay as they are, and one place less is free.           *)
SameData(g, h) ==
  Entries(g) = Entries(h) /\ DataIn(g) = DataIn(h) /\ \A c \in DataIn(h) : g[c] = h[c]

(* A split takes one free location and touches no data.                     *)
LEMMA SplitRest ==
  ASSUME NEW h, NEW r, NEW ht, NEW K, Tree(h, r, ht, K),
         NEW g, NEW l, NEW p, NEW right, Splits(h, g, l, p, right),
         g \in Heaps, NodesIn(g) = NodesIn(h) \cup {right}
  PROVE  /\ FreeLocs(g) = FreeLocs(h) \ {right} /\ right \in FreeLocs(h)
         /\ DataIn(g) = DataIn(h) /\ \A c \in DataIn(h) : g[c] = h[c]
<1>1. /\ l \in NodesIn(h) /\ p \in NodesIn(h) /\ right \in FreeLocs(h)
      /\ \A c \in Locs \ {l, p, right} :
           g[c] = IF Moves(h, l, c) THEN [h[c] EXCEPT !.parent = right] ELSE h[c]
  BY DEF Splits
<1>2. h \in Heaps /\ right \in Locs
  BY <1>1, TreeHeap DEF FreeLocs
<1>3. \A c \in Locs : c \notin NodesIn(h) /\ c # right => g[c] = h[c]
  BY <1>1, MovedChild
<1>4. \A c \in Locs : /\ c \in FreeLocs(h) <=> h[c] = Free
                      /\ c \in FreeLocs(g) <=> g[c] = Free
                      /\ c \in FreeLocs(h) => c \notin DataIn(h) /\ c \notin NodesIn(h)
                      /\ c \in FreeLocs(g) => c \notin DataIn(g) /\ c \notin NodesIn(g)
                      /\ c \in DataIn(h) => c \notin NodesIn(h)
                      /\ c \in DataIn(g) => c \notin NodesIn(g)
                      /\ c \in DataIn(h) <=> h[c].kind = "data"
                      /\ c \in DataIn(g) <=> g[c].kind = "data"
  <2>1. \A f \in Heaps : \A c \in Locs :
          /\ c \in FreeLocs(f) <=> f[c] = Free
          /\ c \in FreeLocs(f) => c \notin DataIn(f) /\ c \notin NodesIn(f)
          /\ c \in DataIn(f) => c \notin NodesIn(f)
          /\ c \in DataIn(f) <=> f[c].kind = "data"
    BY PlaceKinds DEF DataIn
  <2> QED BY <1>2, <2>1
<1>5. \A f : FreeLocs(f) \subseteq Locs /\ DataIn(f) \subseteq Locs
  BY DEF FreeLocs, DataIn
<1>6. FreeLocs(g) = FreeLocs(h) \ {right}
  BY <1>1, <1>2, <1>3, <1>4, <1>5
<1>7. DataIn(g) = DataIn(h) /\ \A c \in DataIn(h) : g[c] = h[c]
  BY <1>1, <1>2, <1>3, <1>4, <1>5
<1> QED BY <1>1, <1>6, <1>7

(* A file has finitely many free locations.                                 *)
LEMMA FreeFinite ==
  ASSUME NEW h
  PROVE  FreeLocs(h) \in SUBSET Locs /\ IsFiniteSet(FreeLocs(h))
<1>1. IsFiniteSet(Locs)
  BY LocAssumption, FS_Interval DEF Locs
<1>2. FreeLocs(h) \in SUBSET Locs
  BY DEF FreeLocs
<1> QED BY <1>1, <1>2, FS_Subset

(* One free place is taken.                                                 *)
LEMMA FreeLeft ==
  ASSUME NEW h, NEW n \in Nat, Cardinality(FreeLocs(h)) >= n, n >= 1
  PROVE  /\ NodePlace(FreeLocs(h)) \in FreeLocs(h)
         /\ \A right \in FreeLocs(h) : Cardinality(FreeLocs(h) \ {right}) >= n - 1
<1> DEFINE F == FreeLocs(h)
<1>1. F \in SUBSET Locs /\ IsFiniteSet(F)
  BY FreeFinite
<1> HIDE DEF F
<1>2. F # {}
  BY FS_EmptySet DEF F
<1>3. NodePlace(F) \in F
  BY <1>1, <1>2, PlaceAssumption
<1>4. ASSUME NEW right \in F PROVE Cardinality(F \ {right}) >= n - 1
  <2>1. Cardinality(F \ {right}) = Cardinality(F) - 1 /\ Cardinality(F) \in Nat
    BY <1>1, FS_RemoveElement, FS_CardinalityType
  <2>2. Cardinality(F) >= n
    BY DEF F
  <2> QED BY <2>1, <2>2
<1> QED BY <1>3, <1>4 DEF F

IsRoute(path, r, n) ==
  path[1] = r /\ \A i, j \in 1 .. n : path[i] = path[j] => i = j

(* The nodes at the end of path are done down to the i-th, which may have   *)
(* one key too many.                                                        *)
Climb(f, h, r, path, i, ht, K) ==
  /\ Tree(f, r, ht, K) /\ Filled(f) /\ KidsFit(f)
  /\ \A c \in NodesIn(f) \ {path[i]} : KeysFit(f, c)
  /\ path[i] \in NodesIn(f) /\ Len(f[path[i]].keys) <= BRankMax
  /\ \A j \in 2 .. i : path[j] \in NodesIn(f) /\ f[path[j]].parent = path[j - 1]
  /\ Cardinality(FreeLocs(f)) >= i + 1
  /\ SameData(f, h)

(* It is not full: its parent is next.                                      *)
LEMMA ClimbOn ==
  ASSUME NEW f, NEW h, NEW r, NEW path, NEW n \in Nat, IsRoute(path, r, n), NEW i \in 2 .. n,
         NEW ht, NEW K, Climb(f, h, r, path, i, ht, K), ~Full(f[path[i]])
  PROVE  Climb(f, h, r, path, i - 1, ht, K)
<1>1. /\ Tree(f, r, ht, K) /\ \A c \in NodesIn(f) \ {path[i]} : KeysFit(f, c)
      /\ path[i] \in NodesIn(f) /\ Len(f[path[i]].keys) <= BRankMax
      /\ \A j \in 2 .. i : path[j] \in NodesIn(f) /\ f[path[j]].parent = path[j - 1]
      /\ Cardinality(FreeLocs(f)) >= i + 1
  BY DEF Climb
<1>2. i \in Nat /\ i \in 1 .. n /\ 1 \in 1 .. n /\ i # 1 /\ i - 1 \in 1 .. n /\ i - 1 # i /\ i - 1 \in Nat
  OBVIOUS
<1>3. path[i] # r
  BY <1>2 DEF IsRoute
<1>4. f[path[i]].parent = path[i - 1] /\ path[i - 1] \in NodesIn(f)
  <2>1. f[path[i]].parent = path[i - 1]
    BY <1>1, <1>2
  <2> QED BY <1>1, <1>3, <2>1, TreeParent
<1>5. KeysFit(f, path[i])
  <2>1. Len(f[path[i]].keys) \in Nat /\ BRankMax \in Nat
    BY <1>1, TreeNode, RankFacts
  <2> QED BY <1>1, <2>1 DEF Full, KeysFit
<1>6. path[i - 1] # path[i]
  BY <1>2 DEF IsRoute
<1>7. Len(f[path[i - 1]].keys) <= BRankMax
  <2>1. KeysFit(f, path[i - 1])
    BY <1>1, <1>4, <1>6
  <2>2. Len(f[path[i - 1]].keys) \in Nat /\ BRankMax \in Nat
    BY <1>1, <1>4, TreeNode, RankFacts
  <2> QED BY <2>1, <2>2 DEF KeysFit
<1>8. \A c \in NodesIn(f) \ {path[i - 1]} : KeysFit(f, c)
  BY <1>1, <1>5
<1>9. \A j \in 2 .. i - 1 : path[j] \in NodesIn(f) /\ f[path[j]].parent = path[j - 1]
  <2>1. \A j \in 2 .. i - 1 : j \in 2 .. i
    BY <1>2
  <2> QED BY <1>1, <2>1
<1>10. Cardinality(FreeLocs(f)) >= (i - 1) + 1
  <2>1. Cardinality(FreeLocs(f)) \in Nat
    BY FreeFinite, FS_CardinalityType
  <2> QED BY <1>1, <1>2, <2>1
<1> QED BY <1>4, <1>7, <1>8, <1>9, <1>10 DEF Climb

(* It is full.                                                              *)
LEMMA ClimbSplit ==
  ASSUME NEW f, NEW h, NEW r, NEW path, NEW n \in Nat, IsRoute(path, r, n), NEW i \in 2 .. n,
         NEW ht, NEW K, Climb(f, h, r, path, i, ht, K), Full(f[path[i]]),
         NEW g, g = SplitBelow(f, path[i], path[i - 1])
  PROVE  \E H, J : Climb(g, h, r, path, i - 1, H, J)
<1> DEFINE l == path[i]
           p == path[i - 1]
           right == NodePlace(FreeLocs(f))
           H == HtSplit(ht, l, right)
           J == KeysSplit(f, K, l, right)
<1>1. /\ Tree(f, r, ht, K) /\ Filled(f) /\ KidsFit(f) /\ \A c \in NodesIn(f) \ {l} : KeysFit(f, c)
      /\ l \in NodesIn(f)
      /\ \A j \in 2 .. i : path[j] \in NodesIn(f) /\ f[path[j]].parent = path[j - 1]
      /\ Cardinality(FreeLocs(f)) >= i + 1 /\ SameData(f, h)
  BY DEF Climb
<1>2. /\ i \in Nat /\ i \in 1 .. n /\ 1 \in 1 .. n /\ i # 1 /\ i - 1 \in 1 .. n /\ i - 1 # i /\ i - 1 \in Nat
      /\ i + 1 \in Nat /\ i + 1 >= 1 /\ (i + 1) - 1 = (i - 1) + 1 /\ i \in 2 .. i
  OBVIOUS
<1>3. l # r /\ l # p
  BY <1>2 DEF IsRoute
<1>4. f[l].parent = p
  BY <1>1, <1>2
<1>5. right \in FreeLocs(f) /\ Cardinality(FreeLocs(f) \ {right}) >= (i - 1) + 1
  BY <1>1, <1>2, FreeLeft
<1>6. Splits(f, g, l, p, right)
  <2>1. g = SplitBelow(f, l, f[l].parent)
    BY <1>4
  <2> HIDE DEF l, p, right
  <2>2. right = NodePlace(FreeLocs(f)) /\ Full(f[l])
    BY DEF right, l
  <2>3. Splits(f, SplitBelow(f, l, f[l].parent), l, f[l].parent, right)
    BY <1>1, <1>3, <1>5, <2>2, BelowSplits
  <2> QED BY <1>4, <2>1, <2>3
<1> HIDE DEF l, p, right
<1>7. PICK at \in Nat :
           /\ SplitSites(f, g, l, p, right, at)
           /\ IsPart(g[l], f[l], p, 0, Half, Cut(f[l]))
           /\ IsPart(g[right], f[l], p, Cut(f[l]), BRankMax - Cut(f[l]), Len(f[l].children) - Cut(f[l]))
           /\ IsWider(g[p], f[p], at, UpKey(f[l]), right)
           /\ SplitOthers(f, g, l, p, right)
  BY <1>1, <1>6, SplitShape
<1>8. SplitCase(f, g, r, ht, K, l, p, right, at)
  BY <1>1, <1>7 DEF SplitCase
<1> HIDE DEF H, J
<1>9. Tree(g, r, H, J)
  BY <1>8, SplitTree DEF H, J
<1>10. p \in NodesIn(f) /\ NodesIn(g) = NodesIn(f) \cup {right} /\ g \in Heaps /\ ~f[p].isLeaf
  BY <1>7 DEF SplitSites
<1>11. KeysFit(f, p) /\ Len(f[p].children) >= LeastKids
  BY <1>1, <1>3, <1>10 DEF KidsFit
<1>12. /\ Filled(g)
       /\ \A c \in NodesIn(g) \ {p} : KeysFit(g, c)
       /\ Len(g[p].keys) = Len(f[p].keys) + 1 /\ Len(g[p].children) = Len(f[p].children) + 1
       /\ \A c \in NodesIn(g) \ {p} : ~g[c].isLeaf => Len(g[c].children) >= LeastKids
  <2>1. \A c \in NodesIn(f) \ {l, p} : KeysFit(f, c)
    BY <1>1
  <2>2. \A c \in NodesIn(f) \ {p} : ~f[c].isLeaf => Len(f[c].children) >= LeastKids
    BY <1>1 DEF KidsFit
  <2> QED BY <1>8, <2>1, <2>2, SplitFits
<1>13. Len(g[p].keys) <= BRankMax /\ Len(g[p].children) >= LeastKids
  <2>1. /\ Len(f[p].keys) \in Nat /\ Len(f[p].children) \in Nat
        /\ BRankMax \in Nat /\ LeastKids \in Nat
    BY <1>1, <1>10, TreeNode, RankFacts
  <2>2. Len(g[p].keys) = Len(f[p].keys) + 1 /\ Len(g[p].children) = Len(f[p].children) + 1
    BY <1>12
  <2>3. Len(f[p].keys) < BRankMax /\ Len(f[p].children) >= LeastKids
    BY <1>11 DEF KeysFit
  <2> QED BY <2>1, <2>2, <2>3
<1>14. KidsFit(g)
  BY <1>12, <1>13 DEF KidsFit
<1>15. FreeLocs(g) = FreeLocs(f) \ {right} /\ DataIn(g) = DataIn(f) /\ \A c \in DataIn(f) : g[c] = f[c]
  BY <1>1, <1>6, <1>10, SplitRest
<1>16. SameData(g, h)
  <2>1. Entries(g) = Entries(f)
    BY <1>8, SplitEntries
  <2> QED BY <1>1, <1>15, <2>1 DEF SameData
<1>17. ASSUME NEW j \in 2 .. i - 1
       PROVE  path[j] \in NodesIn(g) /\ g[path[j]].parent = path[j - 1]
  <2>1. j \in 2 .. i /\ j - 1 \in 1 .. n /\ j - 1 # i
    BY <1>2
  <2>2. path[j] \in NodesIn(f) /\ f[path[j]].parent = path[j - 1]
    BY <1>1, <2>1
  <2>3. path[j - 1] # l
    BY <1>2, <2>1 DEF IsRoute, l
  <2>4. ~Moves(f, l, path[j])
    BY <1>1, <2>2, <2>3, MovedChild
  <2>5. g[path[j]].parent = path[j - 1]
    BY <1>8, <2>2, <2>4, SplitParentOf
  <2> QED BY <1>10, <2>2, <2>5
<1>18. Climb(g, h, r, path, i - 1, H, J)
  BY <1>5, <1>9, <1>10, <1>12, <1>13, <1>14, <1>15, <1>16, <1>17 DEF Climb, p
<1> QED BY <1>18

(* The file after the node at i + 1 is done.                                *)
SplitOver(f, path, i) == IF Full(f[path[i + 1]]) THEN SplitBelow(f, path[i + 1], path[i]) ELSE f

Climbed(f, h, r, path, i) == \E ht, K : Climb(f, h, r, path, i, ht, K)

(* One step up the path: if the file below is a tree with at most one full  *)
(* node on the path, so it is after the node was split or left alone.       *)
LEMMA ClimbStep ==
  ASSUME NEW f, NEW h, NEW r, NEW path, NEW n \in Nat, IsRoute(path, r, n), NEW i \in 1 .. n - 1,
         Climbed(f, h, r, path, i + 1)
  PROVE  Climbed(SplitOver(f, path, i), h, r, path, i) /\ SplitOver(f, path, i) \in Heaps
<1> DEFINE m == i + 1
           g == SplitOver(f, path, i)
<1>1. m \in 2 .. n /\ m - 1 = i
  OBVIOUS
<1>2. PICK ht, K : Climb(f, h, r, path, m, ht, K)
  BY DEF Climbed
<1>3. g = IF Full(f[path[m]]) THEN SplitBelow(f, path[m], path[m - 1]) ELSE f
  BY <1>1 DEF SplitOver
<1> HIDE DEF g, m
<1>4. CASE Full(f[path[m]])
  <2>1. g = SplitBelow(f, path[m], path[m - 1])
    BY <1>3, <1>4
  <2>2. PICK H, J : Climb(g, h, r, path, m - 1, H, J)
    BY <1>1, <1>2, <1>4, <2>1, ClimbSplit
  <2>3. g \in Heaps
    BY <2>2 DEF Climb, Tree
  <2> QED BY <1>1, <2>2, <2>3 DEF Climbed, g
<1>5. CASE ~Full(f[path[m]])
  <2>1. Climb(f, h, r, path, m - 1, ht, K)
    BY <1>1, <1>2, <1>5, ClimbOn
  <2>2. g = f
    BY <1>3, <1>5
  <2>3. f \in Heaps
    BY <2>1 DEF Climb, Tree
  <2> QED BY <1>1, <2>1, <2>2, <2>3 DEF Climbed, g
<1> QED BY <1>4, <1>5

(* From the end of path to its start.                                       *)
LEMMA ClimbAll ==
  ASSUME NEW file, NEW h, NEW r, NEW path, NEW n \in Nat, n >= 1, IsRoute(path, r, n),
         Climbed(file[n], h, r, path, n),
         \A i \in 1 .. n - 1 : Climbed(file[i + 1], h, r, path, i + 1) => file[i] = SplitOver(file[i + 1], path, i)
  PROVE  \A i \in 1 .. n : Climbed(file[i], h, r, path, i)
<1> DEFINE L == 1 .. n
           ht == [i \in L |-> n - i]
           G == {i \in L : Climbed(file[i], h, r, path, i)}
<1>1. ASSUME NEW i \in L, \A m \in L : ht[m] < ht[i] => m \in G PROVE i \in G
  <2>1. CASE i = n
    BY <2>1
  <2>2. CASE i # n
    <3>1. i \in 1 .. n - 1 /\ i + 1 \in L /\ ht[i + 1] < ht[i]
      BY <2>2
    <3>2. Climbed(file[i + 1], h, r, path, i + 1)
      BY <1>1, <3>1
    <3>3. Climbed(file[i], h, r, path, i)
      BY <3>1, <3>2, ClimbStep
    <3> QED BY <3>3
  <2> QED BY <2>1, <2>2
<1>2. ht \in [L -> Nat] /\ G \in SUBSET L
  OBVIOUS
<1>3. L \subseteq G
  <2> HIDE DEF L, ht, G
  <2> QED BY <1>1, <1>2, HeightInduction
<1> QED BY <1>3

(* The loop of splitNode comes to the root with the tree in order.          *)
LEMMA ClimbEnds ==
  ASSUME NEW h, NEW r, NEW path, NEW n, n = Len(path), n \in Nat, n >= 1, IsRoute(path, r, n),
         Climbed(h, h, r, path, n)
  PROVE  \E f : /\ Climbed(f, h, r, path, 1)
                /\ SplitNode(h, path) = IF Full(f[path[1]]) THEN SplitRoot(f, path[1])
                                                            ELSE [heap |-> f, root |-> path[1]]
<1> DEFINE L == 1 .. Len(path)
           After(f) == [i \in L |->
                          IF i = Len(path) THEN h
                          ELSE IF Full(f[i + 1][path[i + 1]]) THEN SplitBelow(f[i + 1], path[i + 1], path[i])
                                                              ELSE f[i + 1]]
           Guarded(f) == [i \in L |-> IF After(f)[i] \in Heaps THEN After(f)[i] ELSE h]
           step == [f \in [L -> Heaps] |-> Guarded(f)]
           level == [i \in L |-> n - i]
           file == CHOOSE f : f = After(f)
<1>1. h \in Heaps
  BY DEF Climbed, Climb, Tree
<1>2. /\ \A i \in L : level[i] \in Nat /\ level[i] < n
      /\ \A i \in L : i # n => i + 1 \in L /\ level[i + 1] < level[i]
      /\ n \in L /\ level \in [L -> Nat]
  OBVIOUS
<1>3. \A f : \A i \in 1 .. n - 1 : After(f)[i] = SplitOver(f[i + 1], path, i)
  BY DEF SplitOver
<1>4. \A f : After(f)[n] = h
  BY <1>2
<1>5. PICK f0 \in [L -> Heaps] : f0 = Guarded(f0)
  <2>1. step \in [[L -> Heaps] -> [L -> Heaps]]
    <3>1. ASSUME NEW f PROVE Guarded(f) \in [L -> Heaps]
      <4> HIDE DEF After
      <4> QED BY <1>1
    <3> HIDE DEF Guarded
    <3> QED BY <3>1
  <2>2. ASSUME NEW f \in [L -> Heaps], NEW g \in [L -> Heaps], NEW i \in L,
               \A m \in L : level[m] < level[i] => f[m] = g[m]
        PROVE  step[f][i] = step[g][i]
    <3>1. i # n => f[i + 1] = g[i + 1]
      BY <1>2, <2>2
    <3>2. After(f)[i] = After(g)[i]
      BY <3>1
    <3>3. Guarded(f)[i] = Guarded(g)[i]
      <4> HIDE DEF After
      <4> QED BY <3>2
    <3> HIDE DEF Guarded
    <3> QED BY <3>3
  <2>3. Heaps # {}
    BY <1>1
  <2>4. Descends(step, L, Heaps, level, n)
    <3> HIDE DEF step, level, L
    <3> QED BY <1>2, <2>1, <2>2, <2>3 DEF Descends
  <2>5. PICK f \in [L -> Heaps] : f = step[f]
    <3> HIDE DEF step, level, L
    <3> QED BY <2>4, RecursionExists
  <2>6. step[f] = Guarded(f)
    BY <2>5
  <2> HIDE DEF Guarded, step
  <2> QED BY <2>5, <2>6
<1>6. f0 = After(f0)
  <2> HIDE DEF After
  <2>0. \A i \in L : f0[i] = IF After(f0)[i] \in Heaps THEN After(f0)[i] ELSE h
    BY <1>5
  <2>1. f0[n] = h
    BY <1>1, <1>2, <1>4, <2>0
  <2>2. ASSUME NEW i \in 1 .. n - 1, Climbed(f0[i + 1], h, r, path, i + 1)
        PROVE  f0[i] = SplitOver(f0[i + 1], path, i)
    <3>1. SplitOver(f0[i + 1], path, i) \in Heaps
      BY <2>2, ClimbStep
    <3>2. i \in L
      BY <1>2
    <3> QED BY <1>3, <2>0, <3>1, <3>2
  <2>3. \A i \in 1 .. n : Climbed(f0[i], h, r, path, i)
    BY <2>1, <2>2, ClimbAll
  <2>4. ASSUME NEW i \in L PROVE f0[i] = After(f0)[i]
    <3>0. i \in Int /\ n \in Int /\ 1 <= i /\ i <= n
      OBVIOUS
    <3> HIDE DEF L
    <3>1. i = n \/ (i \in 1 .. n - 1 /\ i + 1 \in 1 .. n)
      BY <3>0
    <3>2. CASE i = n
      BY <1>4, <2>1, <3>2
    <3>3. CASE i \in 1 .. n - 1 /\ i + 1 \in 1 .. n
      BY <1>3, <2>2, <2>3, <3>3
    <3> QED BY <3>1, <3>2, <3>3
  <2>5. After(f0) = [i \in L |-> After(f0)[i]]
    BY DEF After
  <2> QED BY <1>5, <2>4, <2>5
<1>7. file = After(file)
  <2> HIDE DEF After
  <2> QED BY <1>6
<1>8. SplitNode(h, path) = IF Full(file[1][path[1]]) THEN SplitRoot(file[1], path[1])
                                                     ELSE [heap |-> file[1], root |-> path[1]]
  BY DEF SplitNode
<1> HIDE DEF file
<1>9. Climbed(file[1], h, r, path, 1)
  <2> HIDE DEF After
  <2>1. file[n] = h
    BY <1>4, <1>7
  <2>2. \A i \in 1 .. n - 1 : file[i] = SplitOver(file[i + 1], path, i)
    BY <1>3, <1>7
  <2>3. \A i \in 1 .. n : Climbed(file[i], h, r, path, i)
    BY <2>1, <2>2, ClimbAll
  <2> QED BY <2>3
<1> QED BY <1>8, <1>9

-----------------------------------------------------------------------------
(* A split of the root *)

LEMMA SameEntries ==
  ASSUME NEW f, NEW g, f \in Heaps, g \in Heaps,
         \A c \in Locs : /\ (c \in NodesIn(f) /\ f[c].isLeaf) <=> (c \in NodesIn(g) /\ g[c].isLeaf)
                         /\ c \in NodesIn(f) /\ f[c].isLeaf => /\ f[c].keys = g[c].keys
                                                               /\ f[c].children = g[c].children
  PROVE  Entries(f) = Entries(g)
<1>1. NodesIn(f) \subseteq Locs /\ NodesIn(g) \subseteq Locs
  BY DEF NodesIn
<1>2. ASSUME NEW e \in Keys \X Locs
      PROVE  e \in Entries(f) <=> e \in Entries(g)
  BY <1>1 DEF Entries
<1>3. Entries(f) \subseteq Keys \X Locs /\ Entries(g) \subseteq Keys \X Locs
  BY DEF Entries
<1> QED BY <1>2, <1>3

(* The file f with a new root above the old one, which is its only child.   *)
Topped(w, f, r, top) ==
  /\ w = [c \in Locs |-> w[c]]
  /\ w[top] = Node(FALSE, <<>>, <<r>>, NoLoc) /\ w[r] = [f[r] EXCEPT !.parent = top]
  /\ \A c \in Locs \ {r, top} : w[c] = f[c]

(* A file with a new node above the root, with no key yet: what it consists *)
(* of.                                                                      *)
LEMMA ToppedNodes ==
  ASSUME NEW f, NEW r, NEW ht, NEW K, Tree(f, r, ht, K), NEW top \in FreeLocs(f),
         NEW w, Topped(w, f, r, top)
  PROVE  /\ w \in Heaps /\ NodesIn(w) = NodesIn(f) \cup {top} /\ top \notin NodesIn(f) /\ top \in Locs
         /\ top # r /\ r \in NodesIn(f) /\ w[r].parent = top
         /\ w[top].keys = <<>> /\ w[top].children = <<r>> /\ ~w[top].isLeaf /\ w[top].parent = NoLoc
         /\ \A c \in NodesIn(f) : /\ w[c].keys = f[c].keys /\ w[c].children = f[c].children
                                  /\ (w[c].isLeaf <=> f[c].isLeaf)
         /\ \A c \in NodesIn(f) \ {r} : w[c].parent = f[c].parent
         /\ FreeLocs(w) = FreeLocs(f) \ {top}
         /\ DataIn(w) = DataIn(f) /\ \A c \in DataIn(f) : w[c] = f[c]
<1>1. /\ w = [c \in Locs |-> w[c]]
      /\ w[top] = Node(FALSE, <<>>, <<r>>, NoLoc) /\ w[r] = [f[r] EXCEPT !.parent = top]
      /\ \A c \in Locs \ {r, top} : w[c] = f[c]
  BY DEF Topped
<1>2. f \in Heaps /\ r \in NodesIn(f) /\ r \in Locs /\ f[r] \in NodeRecs /\ NodesIn(f) \subseteq Locs
  BY TreeHeap, NodeFacts
<1>3. top \in Locs /\ top \notin NodesIn(f) /\ f[top] = Free
  BY <1>2, PlaceKinds DEF FreeLocs
<1>4. /\ w[top] \in NodeRecs /\ w[top].kind = "node"
      /\ w[top].keys = <<>> /\ w[top].children = <<r>> /\ ~w[top].isLeaf /\ w[top].parent = NoLoc
  <2> DEFINE one == <<r>>
             none == <<>>
             leaf == FALSE
  <2>1. leaf \in BOOLEAN /\ ~leaf /\ none \in Seq(Keys) /\ one \in Seq(Locs) /\ NoLoc \in Locs \cup {NoLoc}
    BY <1>2
  <2>2. w[top] = Node(leaf, none, one, NoLoc)
    BY <1>1
  <2>3. /\ w[top] \in NodeRecs /\ w[top].kind = "node"
        /\ w[top].keys = none /\ w[top].children = one /\ ~w[top].isLeaf /\ w[top].parent = NoLoc
    <3> HIDE DEF one, none, leaf
    <3> QED BY <2>1, <2>2, NodeFields
  <2> QED BY <2>3
<1>5. /\ w[r] \in NodeRecs /\ w[r].kind = "node" /\ w[r].parent = top
      /\ w[r].keys = f[r].keys /\ w[r].children = f[r].children /\ (w[r].isLeaf <=> f[r].isLeaf)
  BY <1>1, <1>2, <1>3 DEF NodeRecs
<1>6. w \in Heaps
  <2>1. \A c \in Locs : w[c] \in {Free} \cup DataRecs \cup NodeRecs
    BY <1>1, <1>2, <1>4, <1>5 DEF Heaps
  <2> QED BY <1>1, <2>1 DEF Heaps
<1>7. NodesIn(w) = NodesIn(f) \cup {top}
  <2>1. \A c \in Locs : c \in NodesIn(w) <=> w[c].kind = "node"
    BY DEF NodesIn
  <2>2. \A c \in Locs : c \in NodesIn(f) <=> f[c].kind = "node"
    BY DEF NodesIn
  <2>3. \A c \in Locs : c \in NodesIn(w) <=> c \in NodesIn(f) \/ c = top
    BY <1>1, <1>2, <1>4, <1>5, <2>1, <2>2
  <2>4. NodesIn(w) \subseteq Locs
    BY DEF NodesIn
  <2> QED BY <1>2, <1>3, <2>3, <2>4
<1>8. FreeLocs(w) = FreeLocs(f) \ {top}
  <2>1. w[top] # Free /\ w[r] # Free /\ f[r] # Free
    BY <1>2, <1>4, <1>5 DEF Free, NodesIn
  <2> QED BY <1>1, <2>1 DEF FreeLocs
<1>9. DataIn(w) = DataIn(f) /\ \A c \in DataIn(f) : w[c] = f[c]
  <2>1. f[top].kind # "data" /\ f[r].kind # "data"
    BY <1>2, <1>3 DEF Free, NodesIn
  <2> QED BY <1>1, <1>4, <1>5, <2>1 DEF DataIn
<1>10. top # r
  BY <1>2, <1>3
<1> QED BY <1>1, <1>2, <1>3, <1>4, <1>5, <1>6, <1>7, <1>8, <1>9, <1>10

(* With a new node above the root the file is a tree, one higher.           *)
LEMMA ToppedTree ==
  ASSUME NEW f, NEW r, NEW ht, NEW K, Tree(f, r, ht, K), NEW top \in FreeLocs(f),
         NEW w, Topped(w, f, r, top),
         NEW H, H = [c \in Locs |-> IF c = top THEN ht[r] + 1 ELSE ht[c]],
         NEW J, J = [c \in Locs |-> IF c = top THEN K[r] ELSE K[c]]
  PROVE  Tree(w, top, H, J)
<1>1. /\ w \in Heaps /\ NodesIn(w) = NodesIn(f) \cup {top} /\ top \notin NodesIn(f) /\ top \in Locs
      /\ top # r /\ r \in NodesIn(f) /\ w[r].parent = top
      /\ w[top].keys = <<>> /\ w[top].children = <<r>> /\ ~w[top].isLeaf /\ w[top].parent = NoLoc
      /\ \A c \in NodesIn(f) : /\ w[c].keys = f[c].keys /\ w[c].children = f[c].children
                               /\ (w[c].isLeaf <=> f[c].isLeaf)
      /\ \A c \in NodesIn(f) \ {r} : w[c].parent = f[c].parent
  BY ToppedNodes
<1>2. /\ f \in Heaps /\ ht \in [Locs -> Nat] /\ K \in [Locs -> SUBSET Keys] /\ NodesIn(f) \subseteq Locs
      /\ f[r].parent = NoLoc
  BY TreeHeap
<1>3. /\ H \in [Locs -> Nat] /\ J \in [Locs -> SUBSET Keys]
      /\ H[top] = ht[r] + 1 /\ J[top] = K[r]
      /\ \A c \in NodesIn(f) : H[c] = ht[c] /\ J[c] = K[c]
  BY <1>1, <1>2
<1>4. ASSUME NEW c \in NodesIn(f) PROVE NodeOK(w, c, H, J)
  <2>1. NodeOK(f, c, ht, K) /\ w[c].keys = f[c].keys /\ w[c].children = f[c].children /\ (w[c].isLeaf <=> f[c].isLeaf)
    BY <1>1 DEF Tree
  <2>2. H[c] = ht[c] /\ J[c] = K[c]
    BY <1>3
  <2>3. ShapeOK(w[c])
    BY <2>1 DEF NodeOK, ShapeOK
  <2>4. CASE f[c].isLeaf
    BY <2>1, <2>2, <2>3, <2>4 DEF NodeOK, LeafOK
  <2>5. CASE ~f[c].isLeaf
    <3>1. ASSUME NEW i \in DOMAIN f[c].children
          PROVE  ChildOK(w, c, i, H, J) /\ J[f[c].children[i]] = K[f[c].children[i]]
      <4> DEFINE d == f[c].children[i]
      <4>1. /\ d \in NodesIn(f) /\ f[d].parent = c /\ ht[c] = ht[d] + 1 /\ K[d] \subseteq K[c]
            /\ \A x \in K[d] : Between(f[c].keys, i, x)
        BY <2>5, TreeChild
      <4>2. w[c].children[i] = d
        BY <2>1
      <4> HIDE DEF d
      <4>3. d # r
        <5>1. c # NoLoc
          BY <1>2 DEF Locs, NoLoc
        <5> QED BY <1>2, <4>1, <5>1
      <4>4. w[d].parent = c /\ H[d] = ht[d] /\ J[d] = K[d] /\ d \in NodesIn(w)
        BY <1>1, <1>3, <4>1, <4>3
      <4>5. ChildOK(w, c, i, H, J)
        BY <2>1, <2>2, <4>1, <4>2, <4>4 DEF ChildOK
      <4> QED BY <4>4, <4>5 DEF d
    <3>2. \A x \in J[c] : \E i \in DOMAIN f[c].children : x \in J[f[c].children[i]]
      BY <2>2, <2>5, <3>1, TreeInner, ZenonT(40)
    <3>3. IsInjective(f[c].children)
      BY <2>5, TreeInner
    <3>4. InnerOK(w, c, H, J)
      BY <2>1, <3>1, <3>2, <3>3 DEF InnerOK
    <3> QED BY <2>1, <2>3, <2>5, <3>4 DEF NodeOK
  <2> QED BY <2>4, <2>5
<1>5. NodeOK(w, top, H, J)
  <2> DEFINE one == <<r>>
             none == <<>>
  <2>1. /\ DOMAIN one = {1} /\ one[1] = r /\ Len(one) = 1 /\ Len(none) = 0 /\ DOMAIN none = {}
        /\ IsInjective(one)
    BY DEF IsInjective
  <2>2. w[top].children = one /\ w[top].keys = none
    BY <1>1
  <2> HIDE DEF one, none
  <2>3. ShapeOK(w[top])
    BY <1>1, <2>1, <2>2 DEF ShapeOK, Ascending
  <2>4. ChildOK(w, top, 1, H, J)
    <3>1. \A x : Between(none, 1, x)
      BY <2>1 DEF Between
    <3> QED BY <1>1, <1>3, <2>1, <2>2, <3>1 DEF ChildOK
  <2>5. InnerOK(w, top, H, J)
    <3>1. DOMAIN w[top].children = {1} /\ w[top].children[1] = r /\ IsInjective(w[top].children)
      BY <2>1, <2>2
    <3>2. J[top] = J[r]
      BY <1>1, <1>3
    <3> QED BY <2>4, <3>1, <3>2 DEF InnerOK
  <2> QED BY <1>1, <2>3, <2>5 DEF NodeOK
<1>6. ASSUME NEW c \in NodesIn(w) PROVE H[c] <= H[top]
  <2>1. \A m \in NodesIn(f) : ht[m] \in Nat /\ ht[m] <= ht[r] /\ ht[r] \in Nat
    BY TreeNode
  <2>2. c = top \/ c \in NodesIn(f)
    BY <1>1
  <2>3. ht[r] \in Nat /\ H[top] = ht[r] + 1
    BY <1>1, <1>3, <2>1
  <2>4. ASSUME c \in NodesIn(f) PROVE H[c] <= H[top]
    BY <1>3, <2>1, <2>3, <2>4
  <2> QED BY <2>2, <2>3, <2>4
<1>7. ASSUME NEW c \in NodesIn(w), c # top PROVE \E i \in Nat : ChildOf(w, c, w[c].parent, i)
  <2>1. c \in NodesIn(f)
    BY <1>1, <1>7
  <2>2. CASE c = r
    <3>1. 1 \in DOMAIN <<r>> /\ <<r>>[1] = r
      OBVIOUS
    <3>2. ChildOf(w, c, top, 1)
      BY <1>1, <2>2, <3>1 DEF ChildOf
    <3> QED BY <1>1, <2>2, <3>2
  <2>3. CASE c # r
    <3>1. PICK i \in Nat : ChildOf(f, c, f[c].parent, i)
      BY <2>1, <2>3 DEF Tree
    <3>2. ChildOf(w, c, w[c].parent, i)
      BY <1>1, <2>1, <2>3, <3>1 DEF ChildOf
    <3> QED BY <3>2
  <2> QED BY <2>2, <2>3
<1>8. top \in NodesIn(w) /\ w[top].parent = NoLoc
  BY <1>1
<1>9. \A l \in NodesIn(w) : NodeOK(w, l, H, J)
  BY <1>1, <1>4, <1>5
<1> QED BY <1>1, <1>3, <1>6, <1>7, <1>8, <1>9 DEF Tree

(* The parts of a node are told who their parent is afterwards.             *)
LEMMA PartsMoved ==
  ASSUME NEW n, NEW m, NEW top,
         m.keys = n.keys, m.children = n.children, m.isLeaf <=> n.isLeaf,
         n.isLeaf \in BOOLEAN, m.isLeaf \in BOOLEAN
  PROVE  /\ [LeftPart(n, NoLoc) EXCEPT !.parent = top] = LeftPart(m, top)
         /\ [RightPart(n, NoLoc) EXCEPT !.parent = top] = RightPart(m, top)
<1>1. \A leaf, keys, children, p, q :
        [Node(leaf, keys, children, p) EXCEPT !.parent = q] = Node(leaf, keys, children, q)
  BY DEF Node
<1>2. m.isLeaf = n.isLeaf
  OBVIOUS
<1> QED BY <1>1, <1>2 DEF LeftPart, RightPart

(* The first key and the second child of a new root.                        *)
LEMMA FirstChildren ==
  ASSUME NEW r \in Locs, NEW right \in Locs, NEW u \in Keys
  PROVE  WithChild(Node(FALSE, <<>>, <<r>>, NoLoc), r, u, right) = Node(FALSE, <<u>>, <<r, right>>, NoLoc)
<1> DEFINE n == Node(FALSE, <<>>, <<r>>, NoLoc)
<1>1. n.keys = <<>> /\ n.children = <<r>>
  BY DEF Node
<1>2. (CHOOSE i \in 1 .. Len(<<r>>) : <<r>>[i] = r) = 1
  <2>1. 1 .. Len(<<r>>) = {1} /\ <<r>>[1] = r
    OBVIOUS
  <2> QED BY <2>1
<1>3. InsertAt(<<>>, 1, u) = <<u>>
  <2> DEFINE none == <<>>
             i == 1
             t == InsertAt(none, i, u)
  <2>0. none \in Seq(Keys)
    OBVIOUS
  <2>1. Len(none) = 0
    OBVIOUS
  <2> HIDE DEF none
  <2>2. t \in Seq(Keys) /\ Len(t) = 1 /\ t[1] = u
    <3>1. i \in 1 .. Len(none) + 1
      BY <2>1
    <3> HIDE DEF i
    <3>2. /\ t \in Seq(Keys) /\ Len(t) = Len(none) + 1
          /\ \A j \in 1 .. Len(none) + 1 : t[j] = IF j < i THEN none[j] ELSE IF j = i THEN u ELSE none[j - 1]
      <4>1. Inserted(t, Keys, none, i, u)
        BY <2>0, <3>1, InsertedIs
      <4> QED BY <4>1 DEF Inserted
    <3> HIDE DEF t
    <3> QED BY <2>1, <3>1, <3>2 DEF i
  <2> HIDE DEF t
  <2>3. t = <<u>>
    BY <2>2
  <2> QED BY <2>3 DEF t, none, i
<1>4. InsertAt(<<r>>, 1 + 1, right) = <<r, right>>
  <2> DEFINE one == <<r>>
             i == 2
             t == InsertAt(one, i, right)
  <2>0. one \in Seq(Locs)
    OBVIOUS
  <2>1. Len(one) = 1 /\ one[1] = r
    OBVIOUS
  <2> HIDE DEF one
  <2>2. t \in Seq(Locs) /\ Len(t) = 2 /\ t[1] = r /\ t[2] = right
    <3>1. i \in 1 .. Len(one) + 1 /\ 1 \in 1 .. Len(one) + 1 /\ Len(one) + 1 = 2
      BY <2>1
    <3> HIDE DEF i
    <3>2. /\ t \in Seq(Locs) /\ Len(t) = Len(one) + 1
          /\ \A j \in 1 .. Len(one) + 1 : t[j] = IF j < i THEN one[j] ELSE IF j = i THEN right ELSE one[j - 1]
      <4>1. Inserted(t, Locs, one, i, right)
        BY <2>0, <3>1, InsertedIs
      <4> QED BY <4>1 DEF Inserted
    <3> HIDE DEF t
    <3> QED BY <2>1, <3>1, <3>2 DEF i
  <2> HIDE DEF t
  <2>3. t = <<r, right>>
    BY <2>2
  <2> QED BY <2>3 DEF t, one, i
<1>5. WithChild(n, r, u, right) = [n EXCEPT !.keys = <<u>>, !.children = <<r, right>>]
  <2> HIDE DEF n
  <2> QED BY <1>1, <1>2, <1>3, <1>4 DEF WithChild
<1>6. [n EXCEPT !.keys = <<u>>, !.children = <<r, right>>] = Node(FALSE, <<u>>, <<r, right>>, NoLoc)
  <2> DEFINE no == FALSE
             a == <<u>>
             b == <<r, right>>
             x == <<>>
             y == <<r>>
  <2>1. [Node(no, x, y, NoLoc) EXCEPT !.keys = a, !.children = b] = Node(no, a, b, NoLoc)
    <3> HIDE DEF no, a, b, x, y
    <3>1. [Node(no, x, y, NoLoc) EXCEPT !.keys = a] = Node(no, a, y, NoLoc)
      BY DEF Node
    <3>2. [Node(no, a, y, NoLoc) EXCEPT !.children = b] = Node(no, a, b, NoLoc)
      BY DEF Node
    <3>3. \A z : [z EXCEPT !.keys = a, !.children = b] = [[z EXCEPT !.keys = a] EXCEPT !.children = b]
      OBVIOUS
    <3> QED BY <3>1, <3>2, <3>3
  <2> QED BY <2>1
<1> QED BY <1>5, <1>6

(* The places a split of the root takes.                                    *)
LEMMA RootPlaces ==
  ASSUME NEW f, NEW r, NEW ht, NEW K, Tree(f, r, ht, K), Full(f[r]), Cardinality(FreeLocs(f)) >= 2,
         NEW right, right = NodePlace(FreeLocs(f)),
         NEW parts, parts = Halved(f, r, NoLoc), NEW top, top = NodePlace(FreeLocs(parts))
  PROVE  /\ right \in FreeLocs(f) /\ top \in FreeLocs(f) /\ top # right
         /\ IsHalved(parts, f, r, NoLoc, right)
<1>1. right \in FreeLocs(f) /\ Cardinality(FreeLocs(f) \ {right}) >= 1
  <2>1. 2 \in Nat /\ 2 >= 1 /\ 2 - 1 = 1
    OBVIOUS
  <2> QED BY <2>1, FreeLeft
<1>2. r \in NodesIn(f) /\ f \in Heaps /\ r \in Locs /\ f[r] \in NodeRecs
  BY TreeHeap, NodeFacts
<1>3. IsHalved(parts, f, r, NoLoc, right)
  <2>1. NoLoc \in Locs \cup {NoLoc}
    OBVIOUS
  <2> QED BY <1>1, <1>2, <2>1, HalvedFacts
<1>4. /\ parts[r] = LeftPart(f[r], NoLoc) /\ parts[right] = RightPart(f[r], NoLoc)
      /\ \A c \in Locs \ {r, right} :
           parts[c] = IF Moves(f, r, c) THEN [f[c] EXCEPT !.parent = right] ELSE f[c]
  BY <1>3 DEF IsHalved
<1>5. \A m \in NodeRecs : m # Free
  BY DEF NodeRecs, Free
<1>6. parts[r] # Free /\ parts[right] # Free /\ f[r] # Free
  <2>1. NoLoc \in Locs \cup {NoLoc} /\ ShapeOK(f[r])
    BY <1>2 DEF Tree, NodeOK
  <2>2. LeftPart(f[r], NoLoc) \in NodeRecs /\ RightPart(f[r], NoLoc) \in NodeRecs
    BY <1>2, <2>1, LeftFacts, RightFacts
  <2> QED BY <1>2, <1>4, <1>5, <2>2
<1>7. ASSUME NEW c \in Locs, c # r, c # right PROVE parts[c] = Free <=> f[c] = Free
  <2>1. ASSUME Moves(f, r, c) PROVE parts[c] # Free /\ f[c] # Free
    <3>1. f[c] \in NodeRecs
      BY <1>2, <2>1, MovedChild, NodeFacts
    <3>2. [f[c] EXCEPT !.parent = right].kind = "node" /\ f[c].kind = "node"
      BY <3>1 DEF NodeRecs
    <3>3. parts[c] = [f[c] EXCEPT !.parent = right]
      BY <1>4, <1>7, <2>1
    <3>4. parts[c].kind = "node"
      BY <3>2, <3>3
    <3> QED BY <3>2, <3>4 DEF Free
  <2> QED BY <1>4, <1>7, <2>1
<1>8. FreeLocs(parts) = FreeLocs(f) \ {right}
  BY <1>6, <1>7 DEF FreeLocs
<1>9. top \in FreeLocs(parts)
  <2>1. 1 \in Nat /\ 1 >= 1 /\ Cardinality(FreeLocs(parts)) >= 1
    BY <1>1, <1>8
  <2> QED BY <2>1, FreeLeft
<1> QED BY <1>1, <1>3, <1>8, <1>9

(* It is the split of a root that has got a parent first.                   *)
LEMMA RootSplits ==
  ASSUME NEW f, NEW r, NEW ht, NEW K, Tree(f, r, ht, K), Full(f[r]), Cardinality(FreeLocs(f)) >= 2
  PROVE  LET after == SplitRoot(f, r)
             right == NodePlace(FreeLocs(f))
         IN  \E w : /\ after.root \in FreeLocs(f) /\ Topped(w, f, r, after.root)
                    /\ Splits(w, after.heap, r, after.root, right)
<1> DEFINE right == NodePlace(FreeLocs(f))
           parts == Halved(f, r, NoLoc)
           top == NodePlace(FreeLocs(parts))
           u == UpKey(f[r])
           m == Node(FALSE, <<u>>, <<r, right>>, NoLoc)
           topped == [parts EXCEPT ![top] = m]
           g == Adopted(topped, <<r, right>>, top)
           w == [c \in Locs |-> IF c = top THEN Node(FALSE, <<>>, <<r>>, NoLoc)
                                ELSE IF c = r THEN [f[r] EXCEPT !.parent = top] ELSE f[c]]
<1>1. SplitRoot(f, r).heap = g /\ SplitRoot(f, r).root = top
  BY DEF SplitRoot
<1>2. /\ r \in NodesIn(f) /\ f \in Heaps /\ r \in Locs /\ f[r] \in NodeRecs /\ f[r].isLeaf \in BOOLEAN
      /\ f[r].keys \in Seq(Keys) /\ ShapeOK(f[r])
  BY TreeHeap, NodeFacts DEF Tree, NodeOK
<1>3. /\ right \in FreeLocs(f) /\ top \in FreeLocs(f) /\ top # right
      /\ IsHalved(parts, f, r, NoLoc, right)
  <2> HIDE DEF right, parts, top
  <2>1. right = NodePlace(FreeLocs(f)) /\ parts = Halved(f, r, NoLoc) /\ top = NodePlace(FreeLocs(parts))
    BY DEF right, parts, top
  <2> QED BY <2>1, RootPlaces
<1> HIDE DEF right, parts, top
<1>4. /\ right \in Locs /\ top \in Locs /\ right \notin NodesIn(f) /\ top \notin NodesIn(f)
      /\ f[right] = Free /\ f[top] = Free
  BY <1>2, <1>3, PlaceKinds DEF FreeLocs
<1>5. r # right /\ r # top /\ top # right
  BY <1>2, <1>3, <1>4
<1>6. Topped(w, f, r, top)
  BY <1>2, <1>4, <1>5 DEF Topped
<1> HIDE DEF w
<1>7. /\ w \in Heaps /\ NodesIn(w) = NodesIn(f) \cup {top} /\ w[r].parent = top
      /\ w[top].children = <<r>> /\ FreeLocs(w) = FreeLocs(f) \ {top}
      /\ \A c \in NodesIn(f) : /\ w[c].keys = f[c].keys /\ w[c].children = f[c].children
                               /\ (w[c].isLeaf <=> f[c].isLeaf)
  BY <1>3, <1>6, ToppedNodes
<1>8. /\ w[r].keys = f[r].keys /\ w[r].children = f[r].children /\ (w[r].isLeaf <=> f[r].isLeaf)
      /\ w[r].isLeaf \in BOOLEAN
  <2>1. w[r] \in NodeRecs
    BY <1>2, <1>7, NodeFacts
  <2> QED BY <1>2, <1>7, <2>1 DEF NodeRecs
<1>9. /\ parts = [c \in Locs |-> parts[c]]
      /\ parts[r] = LeftPart(f[r], NoLoc) /\ parts[right] = RightPart(f[r], NoLoc)
      /\ \A c \in Locs \ {r, right} :
           parts[c] = IF Moves(f, r, c) THEN [f[c] EXCEPT !.parent = right] ELSE f[c]
  BY <1>3 DEF IsHalved
<1>10. topped = [c \in Locs |-> IF c = top THEN m ELSE parts[c]]
  <2> HIDE DEF m
  <2> QED BY <1>4, <1>9
<1> HIDE DEF topped
<1>11. g = [c \in Locs |-> IF c \in {r, right} THEN [topped[c] EXCEPT !.parent = top] ELSE topped[c]]
  <2>1. ToSet(<<r, right>>) = {r, right}
    BY DEF ToSet
  <2> QED BY <2>1 DEF Adopted
<1> HIDE DEF g, m
<1>12. /\ g = [c \in Locs |-> g[c]]
       /\ g[r] = [parts[r] EXCEPT !.parent = top] /\ g[right] = [parts[right] EXCEPT !.parent = top]
       /\ g[top] = m /\ \A c \in Locs \ {r, right, top} : g[c] = parts[c]
  BY <1>2, <1>4, <1>5, <1>10, <1>11
<1>13. g[r] = LeftPart(w[r], top) /\ g[right] = RightPart(w[r], top)
  <2> DEFINE a == f[r]
             b == w[r]
  <2>1. /\ b.keys = a.keys /\ b.children = a.children /\ (b.isLeaf <=> a.isLeaf)
        /\ a.isLeaf \in BOOLEAN /\ b.isLeaf \in BOOLEAN
    BY <1>2, <1>8
  <2>2. g[r] = [LeftPart(a, NoLoc) EXCEPT !.parent = top] /\ g[right] = [RightPart(a, NoLoc) EXCEPT !.parent = top]
    BY <1>9, <1>12
  <2>3. /\ [LeftPart(a, NoLoc) EXCEPT !.parent = top] = LeftPart(b, top)
        /\ [RightPart(a, NoLoc) EXCEPT !.parent = top] = RightPart(b, top)
    <3> HIDE DEF a, b
    <3> QED BY <2>1, PartsMoved
  <2> QED BY <2>2, <2>3
<1>14. UpKey(w[r]) = u /\ u \in Keys
  <2>1. Half + 1 \in 1 .. Len(f[r].keys)
    BY <1>2, FullLists
  <2> QED BY <1>2, <1>8, <2>1 DEF UpKey
<1>15. g[top] = WithChild(w[top], r, UpKey(w[r]), right)
  <2>1. w[top] = Node(FALSE, <<>>, <<r>>, NoLoc)
    BY <1>6 DEF Topped
  <2>2. WithChild(Node(FALSE, <<>>, <<r>>, NoLoc), r, u, right) = Node(FALSE, <<u>>, <<r, right>>, NoLoc)
    BY <1>2, <1>4, <1>14, FirstChildren
  <2>3. g[top] = Node(FALSE, <<u>>, <<r, right>>, NoLoc)
    BY <1>12 DEF m
  <2> HIDE DEF u
  <2> QED BY <1>14, <2>1, <2>2, <2>3
<1>16. Full(w[r]) /\ Cut(w[r]) = Cut(f[r])
  BY <1>8 DEF Full, Cut
<1>17. ASSUME NEW c \in Locs \ {r, top, right}
       PROVE  g[c] = IF Moves(w, r, c) THEN [w[c] EXCEPT !.parent = right] ELSE w[c]
  <2>1. Moves(w, r, c) <=> Moves(f, r, c)
    BY <1>8, <1>16 DEF Moves
  <2>2. w[c] = f[c]
    BY <1>6 DEF Topped
  <2> QED BY <1>9, <1>12, <2>1, <2>2
<1>18. Splits(w, g, r, top, right)
  BY <1>2, <1>3, <1>5, <1>7, <1>12, <1>13, <1>15, <1>16, <1>17 DEF Splits
<1> QED BY <1>1, <1>3, <1>6, <1>18 DEF right

(* The file g is in order and holds the data of h.                          *)
Done(g, r, h) ==
  /\ \E ht \in [Locs -> Nat], K \in [Locs -> SUBSET Keys] : FileOK(g, r, ht, K)
  /\ Filled(g) /\ SameData(g, h)

(* The split of the root is a new node above it and a split below that      *)
(* node, so it leaves a file in order.                                      *)
LEMMA RootDone ==
  ASSUME NEW f, NEW h, NEW r, NEW path, path[1] = r, NEW ht, NEW K, Climb(f, h, r, path, 1, ht, K),
         Full(f[r])
  PROVE  Done(SplitRoot(f, r).heap, SplitRoot(f, r).root, h)
<1> DEFINE g == SplitRoot(f, r).heap
           top == SplitRoot(f, r).root
           right == NodePlace(FreeLocs(f))
           H0 == [c \in Locs |-> IF c = top THEN ht[r] + 1 ELSE ht[c]]
           J0 == [c \in Locs |-> IF c = top THEN K[r] ELSE K[c]]
<1>1. /\ Tree(f, r, ht, K) /\ Filled(f) /\ KidsFit(f) /\ \A c \in NodesIn(f) \ {r} : KeysFit(f, c)
      /\ Cardinality(FreeLocs(f)) >= 2 /\ SameData(f, h)
  BY DEF Climb
<1>2. PICK w : top \in FreeLocs(f) /\ Topped(w, f, r, top) /\ Splits(w, g, r, top, right)
  BY <1>1, RootSplits
<1> HIDE DEF g, top, right
<1>3. /\ w \in Heaps /\ NodesIn(w) = NodesIn(f) \cup {top} /\ top \notin NodesIn(f)
      /\ top # r /\ r \in NodesIn(f)
      /\ w[top].keys = <<>> /\ w[top].children = <<r>> /\ ~w[top].isLeaf
      /\ \A c \in NodesIn(f) : /\ w[c].keys = f[c].keys /\ w[c].children = f[c].children
                               /\ (w[c].isLeaf <=> f[c].isLeaf)
      /\ DataIn(w) = DataIn(f) /\ \A c \in DataIn(f) : w[c] = f[c]
  BY <1>1, <1>2, ToppedNodes
<1>4. Tree(w, top, H0, J0)
  BY <1>1, <1>2, ToppedTree
<1> HIDE DEF H0, J0
<1>5. Filled(w)
  BY <1>1, <1>3 DEF Filled
<1>6. PICK at \in Nat :
           /\ SplitSites(w, g, r, top, right, at)
           /\ IsPart(g[r], w[r], top, 0, Half, Cut(w[r]))
           /\ IsPart(g[right], w[r], top, Cut(w[r]), BRankMax - Cut(w[r]), Len(w[r].children) - Cut(w[r]))
           /\ IsWider(g[top], w[top], at, UpKey(w[r]), right)
           /\ SplitOthers(w, g, r, top, right)
  BY <1>2, <1>4, SplitShape
<1>7. SplitCase(w, g, top, H0, J0, r, top, right, at)
  BY <1>4, <1>5, <1>6 DEF SplitCase
<1> DEFINE H == HtSplit(H0, r, right)
           J == KeysSplit(w, J0, r, right)
<1>8. Tree(g, top, H, J)
  BY <1>7, SplitTree
<1> HIDE DEF H, J
<1>9. NodesIn(g) = NodesIn(w) \cup {right} /\ g \in Heaps
  BY <1>6 DEF SplitSites
<1>10. /\ Filled(g)
       /\ \A c \in NodesIn(g) \ {top} : KeysFit(g, c)
       /\ Len(g[top].keys) = Len(w[top].keys) + 1 /\ Len(g[top].children) = Len(w[top].children) + 1
       /\ \A c \in NodesIn(g) \ {top} : ~g[c].isLeaf => Len(g[c].children) >= LeastKids
  <2>1. \A c \in NodesIn(w) \ {r, top} : KeysFit(w, c)
    BY <1>1, <1>3 DEF KeysFit
  <2>2. \A c \in NodesIn(w) \ {top} : ~w[c].isLeaf => Len(w[c].children) >= LeastKids
    BY <1>1, <1>3 DEF KidsFit
  <2> QED BY <1>7, <2>1, <2>2, SplitFits
<1>11. Len(g[top].keys) = 1 /\ Len(g[top].children) = 2
  <2>1. Len(<<>>) = 0 /\ Len(<<r>>) = 1
    OBVIOUS
  <2>2. Len(w[top].keys) = 0 /\ Len(w[top].children) = 1
    BY <1>3, <2>1
  <2> QED BY <1>10, <2>2
<1>12. KeysFit(g, top) /\ Len(g[top].children) >= LeastKids
  <2>1. BRankMax \in Nat /\ BRankMax >= 2 /\ LeastKids \in Nat /\ LeastKids <= 2
    BY RankFacts, RankAssumption
  <2> QED BY <1>11, <2>1 DEF KeysFit
<1>13. KidsFit(g) /\ \A c \in NodesIn(g) : KeysFit(g, c)
  BY <1>10, <1>12 DEF KidsFit
<1>14. DataIn(g) = DataIn(w) /\ \A c \in DataIn(w) : g[c] = w[c]
  BY <1>2, <1>4, <1>9, SplitRest
<1>15. SameData(g, h)
  <2>1. Entries(g) = Entries(w)
    BY <1>7, SplitEntries
  <2>2. Entries(f) = Entries(w)
    <3>1. f \in Heaps
      BY <1>1, TreeHeap
    <3>2. \A c \in Locs : /\ (c \in NodesIn(f) /\ f[c].isLeaf) <=> (c \in NodesIn(w) /\ w[c].isLeaf)
                          /\ c \in NodesIn(f) /\ f[c].isLeaf => /\ f[c].keys = w[c].keys
                                                                /\ f[c].children = w[c].children
      BY <1>3
    <3> QED BY <1>3, <3>1, <3>2, SameEntries
  <2> QED BY <1>1, <1>3, <1>14, <2>1, <2>2 DEF SameData
<1>16. H \in [Locs -> Nat] /\ J \in [Locs -> SUBSET Keys]
  BY <1>8, TreeHeap
<1>17. Done(g, top, h)
  BY <1>8, <1>10, <1>13, <1>15, <1>16 DEF Done, FileOK
<1> QED BY <1>17 DEF g, top

(* Nothing is left to be split.                                             *)
LEMMA RootFits ==
  ASSUME NEW f, NEW h, NEW r, NEW path, path[1] = r, NEW ht, NEW K, Climb(f, h, r, path, 1, ht, K),
         ~Full(f[r])
  PROVE  Done(f, r, h)
<1>1. /\ Tree(f, r, ht, K) /\ Filled(f) /\ KidsFit(f) /\ \A c \in NodesIn(f) \ {r} : KeysFit(f, c)
      /\ r \in NodesIn(f) /\ Len(f[r].keys) <= BRankMax /\ SameData(f, h)
  BY DEF Climb
<1>2. KeysFit(f, r)
  <2>1. Len(f[r].keys) \in Nat /\ BRankMax \in Nat
    BY <1>1, TreeNode, RankFacts
  <2> QED BY <1>1, <2>1 DEF Full, KeysFit
<1>3. ht \in [Locs -> Nat] /\ K \in [Locs -> SUBSET Keys] /\ FileOK(f, r, ht, K)
  BY <1>1, <1>2, TreeHeap DEF FileOK
<1> QED BY <1>1, <1>3 DEF Done

(* splitNode restores the tree in which a leaf may have got one key too     *)
(* many.                                                                    *)
LEMMA SplitNodeDone ==
  ASSUME NEW h, NEW r, NEW path, NEW n, n = Len(path), n \in Nat, n >= 1, IsRoute(path, r, n),
         Climbed(h, h, r, path, n)
  PROVE  Done(SplitNode(h, path).heap, SplitNode(h, path).root, h)
<1>1. PICK f : /\ Climbed(f, h, r, path, 1)
               /\ SplitNode(h, path) = IF Full(f[path[1]]) THEN SplitRoot(f, path[1])
                                                           ELSE [heap |-> f, root |-> path[1]]
  BY ClimbEnds
<1>2. PICK ht, K : Climb(f, h, r, path, 1, ht, K)
  BY <1>1 DEF Climbed
<1>3. path[1] = r
  BY DEF IsRoute
<1>4. CASE Full(f[r])
  <2>1. SplitNode(h, path) = SplitRoot(f, r)
    BY <1>1, <1>3, <1>4
  <2> QED BY <1>2, <1>3, <1>4, <2>1, RootDone
<1>5. CASE ~Full(f[r])
  <2>1. SplitNode(h, path) = [heap |-> f, root |-> r]
    BY <1>1, <1>3, <1>5
  <2>2. SplitNode(h, path).heap = f /\ SplitNode(h, path).root = r
    BY <2>1
  <2> QED BY <1>2, <1>3, <1>5, <2>2, RootFits
<1> QED BY <1>4, <1>5
=============================================================================
