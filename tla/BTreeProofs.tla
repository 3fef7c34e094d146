----------------------------- MODULE BTreeProofs ------------------------------
(***************************************************************************)
(* Theorems about BTree: whatever is inserted and removed, for any ranks,  *)
(* the file holds a search tree of equal depth with the data of its keys   *)
(* and nothing else, and the tree implements the map KeyMap.               *)
(***************************************************************************)
EXTENDS BTreeLemmas

-----------------------------------------------------------------------------
(* The operations *)

(* What searchNode and get find is what the entries say.                    *)
LEMMA SearchFacts ==
  ASSUME NEW ht, NEW K, Tree(heap, root, ht, K), NEW k \in Keys
  PROVE  /\ root \in Locs /\ root # NoLoc
         /\ Found(k) <=> k \in ToSet(heap[Last(PathTo(k))].keys)
         /\ \A a : <<k, a>> \in Entries(heap) <=> Found(k) /\ a = DataLoc(k)
         /\ Found(k) => DataLoc(k) \in Locs
<1>1. root \in Locs /\ heap \in Heaps
  BY TreeHeap
<1>2. root # NoLoc
  BY <1>1, LocAssumption DEF Locs, NoLoc
<1>3. Way(heap, root, k, PathTo(k))
  BY PathIsWay
<1>4. Found(k) <=> k \in ToSet(heap[Last(PathTo(k))].keys)
  BY <1>2 DEF Found, LeafOf
<1>5. \A a : <<k, a>> \in Entries(heap) <=> Found(k) /\ a = DataLoc(k)
  BY <1>3, <1>4, SearchFinds DEF DataLoc, LeafOf
<1>6. \A a : <<k, a>> \in Entries(heap) => a \in Locs
  BY <1>1, EntryFacts
<1> QED BY <1>1, <1>2, <1>4, <1>5, <1>6

(* Files that differ in their data only.                                    *)
NodesSame(h, g) ==
  h \in Heaps /\ g \in Heaps /\ NodesIn(g) = NodesIn(h) /\ \A l \in NodesIn(h) : g[l] = h[l]

(* A file with the same nodes is the same tree.                             *)
LEMMA NodesSameTree ==
  ASSUME NEW h, NEW g, NodesSame(h, g), NEW r, NEW ht, NEW K, Tree(h, r, ht, K)
  PROVE  Tree(g, r, ht, K)
<1>1. /\ h \in Heaps /\ g \in Heaps /\ NodesIn(g) = NodesIn(h) /\ \A l \in NodesIn(h) : g[l] = h[l]
  BY DEF NodesSame
<1>2. /\ ht \in [Locs -> Nat] /\ K \in [Locs -> SUBSET Keys]
      /\ r \in NodesIn(h) /\ h[r].parent = NoLoc
      /\ \A l \in NodesIn(h) : NodeOK(h, l, ht, K) /\ ht[l] <= ht[r]
      /\ \A l \in NodesIn(h) \ {r} : \E i \in Nat : ChildOf(h, l, h[l].parent, i)
  BY DEF Tree
<1>3. ASSUME NEW l \in NodesIn(h) PROVE NodeOK(g, l, ht, K)
  <2>1. NodeOK(h, l, ht, K) /\ g[l] = h[l]
    BY <1>1, <1>2
  <2>2. ASSUME InnerOK(h, l, ht, K) PROVE InnerOK(g, l, ht, K)
    <3>1. /\ \A i \in DOMAIN h[l].children : ChildOK(h, l, i, ht, K)
          /\ \A x \in K[l] : \E i \in DOMAIN h[l].children : x \in K[h[l].children[i]]
          /\ IsInjective(h[l].children)
      BY <2>2 DEF InnerOK
    <3>2. ASSUME NEW i \in DOMAIN h[l].children PROVE ChildOK(g, l, i, ht, K)
      <4>1. ChildOK(h, l, i, ht, K)
        BY <3>1
      <4> QED BY <1>1, <2>1, <4>1 DEF ChildOK
    <3> QED BY <2>1, <3>1, <3>2 DEF InnerOK
  <2> QED BY <2>1, <2>2 DEF NodeOK, LeafOK
<1>4. ASSUME NEW l \in NodesIn(h) \ {r} PROVE \E i \in Nat : ChildOf(g, l, g[l].parent, i)
  <2>1. PICK i \in Nat : ChildOf(h, l, h[l].parent, i)
    BY <1>2
  <2>2. ChildOf(g, l, g[l].parent, i)
    BY <1>1, <2>1 DEF ChildOf
  <2> QED BY <2>2
<1>5. g[r].parent = NoLoc
  BY <1>1, <1>2
<1> QED BY <1>1, <1>2, <1>3, <1>4, <1>5 DEF Tree

(* A file with the same nodes has the same entries.                         *)
LEMMA NodesSameRest ==
  ASSUME NEW h, NEW g, NodesSame(h, g)
  PROVE  /\ Entries(g) = Entries(h) /\ (Filled(h) => Filled(g))
         /\ \A r, ht, K : FileOK(h, r, ht, K) => FileOK(g, r, ht, K)
<1>1. /\ h \in Heaps /\ g \in Heaps /\ NodesIn(g) = NodesIn(h) /\ \A l \in NodesIn(h) : g[l] = h[l]
  BY DEF NodesSame
<1>2. Entries(h) = Entries(g)
  BY <1>1 DEF Entries
<1>3. Filled(h) => Filled(g)
  BY <1>1 DEF Filled
<1>4. ASSUME NEW r, NEW ht, NEW K, FileOK(h, r, ht, K) PROVE FileOK(g, r, ht, K)
  <2>1. Tree(g, r, ht, K)
    BY <1>4, NodesSameTree DEF FileOK
  <2> QED BY <1>1, <1>4, <2>1 DEF FileOK, KeysFit, KidsFit
<1> QED BY <1>2, <1>3, <1>4

(* g is the file f with n written to l.                                     *)
Written(g, f, l, n) == g = [f EXCEPT ![l] = n]

(* A data record is put, changed or freed.                                  *)
LEMMA DataSet ==
  ASSUME NEW h \in Heaps, NEW l \in Locs, l \notin NodesIn(h),
         NEW v \in {Free} \cup DataRecs, NEW g, Written(g, h, l, v)
  PROVE  /\ NodesSame(h, g) /\ g \in Heaps /\ l \notin NodesIn(g)
         /\ v = Free => DataIn(g) = DataIn(h) \ {l} /\ FreeLocs(g) = FreeLocs(h) \cup {l}
         /\ v \in DataRecs => DataIn(g) = DataIn(h) \cup {l} /\ FreeLocs(g) = FreeLocs(h) \ {l}
<1>1. g \in Heaps
  BY DEF Heaps, Written
<1>2. g[l] = v /\ \A c \in Locs \ {l} : g[c] = h[c]
  BY DEF Heaps, Written
<1>3. (v = Free => v.kind = "free") /\ (v \in DataRecs => v.kind = "data" /\ v # Free)
  BY DEF Free, DataRecs, DataRec
<1>4. NodesIn(g) = NodesIn(h) /\ \A c \in NodesIn(h) : g[c] = h[c]
  BY <1>2, <1>3 DEF NodesIn
<1>5. NodesSame(h, g)
  BY <1>1, <1>4 DEF NodesSame
<1>6. v = Free => DataIn(g) = DataIn(h) \ {l} /\ FreeLocs(g) = FreeLocs(h) \cup {l}
  BY <1>2, <1>3 DEF DataIn, FreeLocs
<1>7. v \in DataRecs => DataIn(g) = DataIn(h) \cup {l} /\ FreeLocs(g) = FreeLocs(h) \ {l}
  BY <1>2, <1>3 DEF DataIn, FreeLocs
<1> QED BY <1>1, <1>4, <1>5, <1>6, <1>7

(* n is the leaf q with T for k.                                            *)
LeafEdit(n, q, k, T) ==
  /\ n \in NodeRecs /\ n.isLeaf /\ n.parent = q.parent /\ ShapeOK(n)
  /\ k \in Keys /\ T \subseteq {k} \X Locs
  /\ Pairs(n) = {x \in Pairs(q) : x[1] # k} \cup T

(* The leaf at e is written to a file whose data changed from those of h.   *)
LEMMA LeafSet ==
  ASSUME NEW h, NEW f, NodesSame(h, f), NEW e \in NodesIn(h), h[e].isLeaf,
         NEW n, NEW k, NEW T, LeafEdit(n, h[e], k, T),
         NEW g, Written(g, f, e, n)
  PROVE  /\ LeafChange(h, g, e, k, T) /\ g[e] = n
         /\ FreeLocs(g) = FreeLocs(f) /\ DataIn(g) = DataIn(f)
         /\ NodesIn(g) = NodesIn(h) /\ \A l \in NodesIn(h) \ {e} : g[l] = h[l]
         /\ \A l \in DataIn(f) : g[l] = f[l]
<1>1. /\ h \in Heaps /\ f \in Heaps /\ NodesIn(f) = NodesIn(h) /\ \A l \in NodesIn(h) : f[l] = h[l]
  BY DEF NodesSame
<1>2. /\ n \in NodeRecs /\ n.isLeaf /\ n.parent = h[e].parent /\ ShapeOK(n)
      /\ k \in Keys /\ T \subseteq {k} \X Locs /\ Pairs(n) = {x \in Pairs(h[e]) : x[1] # k} \cup T
  BY DEF LeafEdit
<1>3. e \in Locs /\ f[e].kind = "node"
  BY <1>1 DEF NodesIn
<1>4. g \in Heaps
  BY <1>1, <1>2, <1>3 DEF Heaps, Written
<1>5. g[e] = n /\ \A c \in Locs \ {e} : g[c] = f[c]
  BY <1>1, <1>3 DEF Heaps, Written
<1>6. n.kind = "node" /\ n # Free /\ f[e] # Free
  BY <1>2, <1>3 DEF NodeRecs, Free
<1>7. NodesIn(g) = NodesIn(h)
  <2>1. NodesIn(g) = NodesIn(f)
    BY <1>3, <1>5, <1>6 DEF NodesIn
  <2> QED BY <1>1, <2>1
<1>8. \A l \in NodesIn(h) \ {e} : g[l] = h[l]
  BY <1>1, <1>5 DEF NodesIn
<1>9. FreeLocs(g) = FreeLocs(f) /\ DataIn(g) = DataIn(f)
  <2>1. f[e].kind # "data" /\ n.kind # "data"
    BY <1>3, <1>6
  <2> QED BY <1>3, <1>5, <1>6, <2>1 DEF FreeLocs, DataIn
<1>10. \A l \in DataIn(f) : g[l] = f[l]
  BY <1>3, <1>5 DEF DataIn
<1>11. LeafChange(h, g, e, k, T)
  BY <1>1, <1>2, <1>4, <1>5, <1>7, <1>8 DEF LeafChange
<1> QED BY <1>5, <1>7, <1>8, <1>9, <1>10, <1>11

(* The data change as the entry of k does.                                  *)
DataChange(h, g, k, T) ==
  /\ h \in Heaps /\ T \subseteq {k} \X Locs
  /\ Entries(g) = {x \in Entries(h) : x[1] # k} \cup T
  /\ \A a : a \in DataIn(g) <=> \/ a \in DataIn(h) /\ <<k, a>> \notin Entries(h)
                                \/ <<k, a>> \in T
  /\ \A a : <<k, a>> \in T => a \notin DataIn(h) \/ <<k, a>> \in Entries(h)

(* They stay those of the entries.                                          *)
LEMMA DataAfter ==
  ASSUME NEW h, NEW g, DataOK(h), NEW k, NEW T, DataChange(h, g, k, T)
  PROVE  DataOK(g)
<1>0. /\ h \in Heaps /\ T \subseteq {k} \X Locs
      /\ Entries(g) = {x \in Entries(h) : x[1] # k} \cup T
      /\ \A a : a \in DataIn(g) <=> \/ a \in DataIn(h) /\ <<k, a>> \notin Entries(h)
                                    \/ <<k, a>> \in T
      /\ \A a : <<k, a>> \in T => a \notin DataIn(h) \/ <<k, a>> \in Entries(h)
  BY DEF DataChange
<1>1. /\ \A e, f \in Entries(h) : e[2] = f[2] => e[1] = f[1]
      /\ DataIn(h) = {e[2] : e \in Entries(h)}
  BY DEF DataOK
<1>2. \A e \in Entries(h) : e = <<e[1], e[2]>>
  BY DEF Entries
<1>3. \A e \in T : e = <<k, e[2]>> /\ e[1] = k
  BY <1>0
<1>4. ASSUME NEW e \in Entries(h), e[1] # k PROVE e[2] \in DataIn(h) /\ <<k, e[2]>> \notin Entries(h)
  <2>1. <<k, e[2]>>[1] = k /\ <<k, e[2]>>[2] = e[2]
    OBVIOUS
  <2> QED BY <1>1, <1>4, <2>1
<1>5. ASSUME NEW e \in Entries(g), NEW f \in Entries(g), e[2] = f[2] PROVE e[1] = f[1]
  <2>1. CASE e \in T /\ f \in T
    BY <1>3, <2>1
  <2>2. CASE e \in Entries(h) /\ f \in Entries(h)
    BY <1>1, <1>5, <2>2
  <2>3. ASSUME NEW x \in Entries(h), x[1] # k, NEW y \in T, x[2] = y[2] PROVE FALSE
    <3>1. x[2] \in DataIn(h) /\ <<k, x[2]>> \notin Entries(h)
      BY <1>4, <2>3
    <3>2. <<k, x[2]>> \in T
      BY <1>3, <2>3
    <3> QED BY <1>0, <3>1, <3>2
  <2>4. \A x \in Entries(g) : x \in T \/ (x \in Entries(h) /\ x[1] # k)
    BY <1>0
  <2> QED BY <1>5, <2>1, <2>2, <2>3, <2>4
<1>6. ASSUME NEW a, a \in DataIn(g) PROVE \E e \in Entries(g) : a = e[2]
  <2>1. CASE <<k, a>> \in T
    <3>1. <<k, a>> \in Entries(g) /\ <<k, a>>[2] = a
      BY <1>0, <2>1
    <3> QED BY <3>1
  <2>2. CASE a \in DataIn(h) /\ <<k, a>> \notin Entries(h)
    <3>1. PICK e \in Entries(h) : a = e[2]
      BY <1>1, <2>2
    <3>2. e[1] # k
      BY <1>2, <2>2, <3>1
    <3> QED BY <1>0, <3>1, <3>2
  <2> QED BY <1>0, <1>6, <2>1, <2>2
<1>7. ASSUME NEW e \in Entries(g) PROVE e[2] \in DataIn(g)
  <2>1. CASE e \in T
    <3>1. <<k, e[2]>> \in T
      BY <1>3, <2>1
    <3> QED BY <1>0, <3>1
  <2>2. CASE e \in Entries(h) /\ e[1] # k
    BY <1>0, <1>4, <2>2
  <2> QED BY <1>0, <2>1, <2>2
<1>8. DataIn(g) = {e[2] : e \in Entries(g)}
  BY <1>6, <1>7
<1> QED BY <1>5, <1>8 DEF DataOK

(* The file g: the leaf at the end of p is n, the data are those of f, and  *)
(* the rest is as in h.                                                     *)
LeafDone(h, r, ht, K, k, p, f, n, T, g) ==
  /\ Tree(g, r, ht, KeysAfter(K, p, k, T)) /\ KidsFit(g)
  /\ Entries(g) = {x \in Entries(h) : x[1] # k} \cup T
  /\ \A c \in NodesIn(g) \ {Last(p)} : KeysFit(g, c)
  /\ Len(n.keys) < BRankMax => FileOK(g, r, ht, KeysAfter(K, p, k, T))
  /\ Filled(h) /\ n.keys # <<>> => Filled(g)
  /\ Last(p) \in NodesIn(g) /\ g[Last(p)] = n
  /\ NodesIn(g) = NodesIn(h) /\ \A l \in NodesIn(h) \ {Last(p)} : g[l] = h[l]
  /\ FreeLocs(g) = FreeLocs(f) /\ DataIn(g) = DataIn(f) /\ \A l \in DataIn(f) : g[l] = f[l]

(* What a change of one leaf leaves as it was.                              *)
LEMMA LeafOp ==
  ASSUME NEW h, NEW r, NEW ht, NEW K, FileOK(h, r, ht, K), NEW k \in Keys, NEW p, Way(h, r, k, p),
         NEW f, NodesSame(h, f), NEW n, NEW T, LeafEdit(n, h[Last(p)], k, T),
         NEW g, Written(g, f, Last(p), n)
  PROVE  LeafDone(h, r, ht, K, k, p, f, n, T, g)
<1> DEFINE e == Last(p)
<1>1. Tree(h, r, ht, K) /\ (\A l \in NodesIn(h) : KeysFit(h, l)) /\ KidsFit(h)
  BY DEF FileOK
<1>2. e \in NodesIn(h) /\ h[e].isLeaf
  BY <1>1, WayEnd
<1> HIDE DEF e
<1>3. LeafEdit(n, h[e], k, T) /\ Written(g, f, e, n)
  BY DEF e
<1>4. /\ LeafChange(h, g, e, k, T) /\ g[e] = n
      /\ FreeLocs(g) = FreeLocs(f) /\ DataIn(g) = DataIn(f)
      /\ NodesIn(g) = NodesIn(h) /\ \A l \in NodesIn(h) \ {e} : g[l] = h[l]
      /\ \A l \in DataIn(f) : g[l] = f[l]
  BY <1>2, <1>3, LeafSet
<1>5. Tree(g, r, ht, KeysAfter(K, p, k, T)) /\ Entries(g) = {x \in Entries(h) : x[1] # k} \cup T
  <2>1. LeafChange(h, g, Last(p), k, T)
    BY <1>4 DEF e
  <2>2. Tree(g, r, ht, KeysAfter(K, p, k, T))
    BY <1>1, <2>1, LeafChangeTree
  <2>3. Entries(g) = {x \in Entries(h) : x[1] # k} \cup T
    BY <1>1, <2>1, LeafChangeEntries
  <2> QED BY <2>2, <2>3
<1>6. n.isLeaf
  BY DEF LeafEdit
<1>7. KidsFit(g)
  <2>1. ASSUME NEW l \in NodesIn(g), ~g[l].isLeaf PROVE Len(g[l].children) >= LeastKids
    <3>1. l # e
      BY <1>4, <1>6, <2>1
    <3>2. l \in NodesIn(h) /\ g[l] = h[l]
      BY <1>4, <3>1
    <3> QED BY <1>1, <2>1, <3>2 DEF KidsFit
  <2> QED BY <2>1 DEF KidsFit
<1>8. \A c \in NodesIn(g) \ {e} : KeysFit(g, c)
  BY <1>1, <1>4 DEF KeysFit
<1>9. Len(n.keys) < BRankMax => FileOK(g, r, ht, KeysAfter(K, p, k, T))
  <2> SUFFICES ASSUME Len(n.keys) < BRankMax PROVE FileOK(g, r, ht, KeysAfter(K, p, k, T))
    OBVIOUS
  <2>1. KeysFit(g, e)
    BY <1>4 DEF KeysFit
  <2>2. \A c \in NodesIn(g) : KeysFit(g, c)
    BY <1>8, <2>1
  <2> QED BY <1>5, <1>7, <2>2 DEF FileOK
<1>10. Filled(h) /\ n.keys # <<>> => Filled(g)
  BY <1>4 DEF Filled
<1> QED BY <1>2, <1>4, <1>5, <1>7, <1>8, <1>9, <1>10 DEF LeafDone, e

(* Key sets after a change of one entry are sets of keys.                   *)
LEMMA KeysAfterType ==
  ASSUME NEW K \in [Locs -> SUBSET Keys], NEW p, NEW k \in Keys, NEW T \in SUBSET ({k} \X Locs)
  PROVE  KeysAfter(K, p, k, T) \in [Locs -> SUBSET Keys]
<1>1. FirstOf(T) \subseteq Keys
  BY FirstFacts
<1> QED BY <1>1 DEF KeysAfter

(* What the invariant says of a tree that lives.                            *)
LEMMA TreeLives ==
  ASSUME IInv, status = "alive", root # NoLoc
  PROVE  /\ \E ht \in [Locs -> Nat], K \in [Locs -> SUBSET Keys] : FileOK(heap, root, ht, K)
         /\ Filled(heap) /\ DataOK(heap) /\ heap \in Heaps
BY DEF IInv

(* Where the data of k is, and where an update may put it.                  *)
LEMMA UpdatePlaces ==
  ASSUME NEW ht, NEW K, Tree(heap, root, ht, K), DataOK(heap), NEW k \in Keys, Found(k)
  PROVE  /\ DataLoc(k) \in Locs /\ DataLoc(k) \in DataIn(heap) /\ DataLoc(k) \notin NodesIn(heap)
         /\ \A a : <<k, a>> \in Entries(heap) <=> a = DataLoc(k)
         /\ \A m \in Places(k) : m \in Locs /\ (m = DataLoc(k) \/ m \in FreeLocs(heap))
<1>1. DataLoc(k) \in Locs /\ \A a : <<k, a>> \in Entries(heap) <=> a = DataLoc(k)
  BY SearchFacts
<1>2. <<k, DataLoc(k)>> \in Entries(heap) /\ <<k, DataLoc(k)>>[2] = DataLoc(k)
  BY <1>1
<1>3. DataLoc(k) \in DataIn(heap)
  BY <1>2 DEF DataOK
<1>4. DataLoc(k) \notin NodesIn(heap)
  BY <1>1, <1>3, TreeHeap, PlaceKinds
<1>5. ASSUME NEW m \in Places(k) PROVE m \in Locs /\ (m = DataLoc(k) \/ m \in FreeLocs(heap))
  <2>1. FreeLocs(heap) \in SUBSET Locs
    BY FreeFinite
  <2>2. m = DataLoc(k) \/ (FreeLocs(heap) # {} /\ m = DataPlace(FreeLocs(heap), k))
    BY <1>5 DEF Places
  <2> QED BY <1>1, <2>1, <2>2, PlaceAssumption
<1> QED BY <1>1, <1>3, <1>4, <1>5

(* What insert writes for a key is a data record.                           *)
LEMMA DataRecKinds == \A d \in Data : DataRec(d) \in DataRecs
BY DEF DataRecs

(* The data at l are written to m instead.                                  *)
LEMMA ReplacedData ==
  ASSUME heap \in Heaps, NEW l \in Locs, l \notin NodesIn(heap), NEW m \in Locs, m \notin NodesIn(heap),
         NEW d \in Data
  PROVE  /\ NodesSame(heap, Replaced(l, m, d))
         /\ DataIn(Replaced(l, m, d)) = (DataIn(heap) \ {l}) \cup {m}
         /\ Replaced(l, m, d)[m] = DataRec(d) /\ Replaced(l, m, d) \in Heaps
         /\ \A c \in Locs \ {l, m} : Replaced(l, m, d)[c] = heap[c]
<1> DEFINE w == [heap EXCEPT ![l] = Free]
           f == Replaced(l, m, d)
<1>1. Written(w, heap, l, Free) /\ Written(f, w, m, DataRec(d))
  BY DEF Heaps, Replaced, Written
<1>2. NodesSame(heap, w) /\ w \in Heaps /\ DataIn(w) = DataIn(heap) \ {l}
  <2> HIDE DEF w
  <2> QED BY <1>1, DataSet
<1>3. \A c \in Locs \ {l} : w[c] = heap[c]
  BY DEF Heaps
<1> HIDE DEF w, f
<1>4. m \notin NodesIn(w)
  BY <1>2 DEF NodesSame
<1>5. NodesSame(w, f) /\ f \in Heaps /\ DataIn(f) = DataIn(w) \cup {m}
  BY <1>1, <1>2, <1>4, DataRecKinds, DataSet
<1>6. NodesSame(heap, f)
  BY <1>2, <1>5 DEF NodesSame
<1>7. f[m] = DataRec(d) /\ \A c \in Locs \ {l, m} : f[c] = heap[c]
  BY <1>1, <1>2, <1>3 DEF Heaps, Written
<1> QED BY <1>2, <1>5, <1>6, <1>7 DEF f

(* g is a file where k has the data d, and the other keys have what they    *)
(* have in h.                                                               *)
Put(h, g, k, d) ==
  /\ \E a \in Locs : /\ Entries(g) = {x \in Entries(h) : x[1] # k} \cup {<<k, a>>}
                     /\ g[a] = DataRec(d)
  /\ \A e \in Entries(h) : e[1] # k => g[e[2]] = h[e[2]]

(* The same without k.                                                      *)
Taken(h, g, k) ==
  /\ Entries(g) = {x \in Entries(h) : x[1] # k}
  /\ \A e \in Entries(h) : e[1] # k => g[e[2]] = h[e[2]]

(* The data of k are freed but its entry remains.                           *)
Loses(h, g, k) ==
  /\ Entries(g) = Entries(h)
  /\ \A e \in Entries(h) : IF e[1] = k THEN g[e[2]] = Free ELSE g[e[2]] = h[e[2]] /\ g[e[2]] # Free

(* The leaf where k is or belongs.                                          *)
LEMMA EndLeaf ==
  ASSUME NEW ht, NEW K, FileOK(heap, root, ht, K), NEW k \in Keys
  PROVE  /\ Tree(heap, root, ht, K) /\ Way(heap, root, k, PathTo(k)) /\ heap \in Heaps
         /\ Last(PathTo(k)) \in NodesIn(heap) /\ Last(PathTo(k)) \in Locs
         /\ heap[Last(PathTo(k))] \in NodeRecs /\ heap[Last(PathTo(k))].isLeaf
         /\ ShapeOK(heap[Last(PathTo(k))])
         /\ Len(heap[Last(PathTo(k))].keys) \in Nat /\ Len(heap[Last(PathTo(k))].keys) < BRankMax
<1> DEFINE e == Last(PathTo(k))
<1>1. Tree(heap, root, ht, K) /\ \A l \in NodesIn(heap) : KeysFit(heap, l)
  BY DEF FileOK
<1>2. Way(heap, root, k, PathTo(k))
  BY <1>1, PathIsWay
<1>3. e \in NodesIn(heap) /\ e \in Locs /\ heap[e].isLeaf
  BY <1>1, <1>2, WayEnd
<1> HIDE DEF e
<1>4. heap[e] \in NodeRecs /\ Len(heap[e].keys) \in Nat /\ heap \in Heaps
  BY <1>1, <1>3, TreeNode, TreeHeap
<1>5. ShapeOK(heap[e])
  BY <1>1, <1>3 DEF Tree, NodeOK
<1>6. Len(heap[e].keys) < BRankMax
  BY <1>1, <1>3 DEF KeysFit
<1> QED BY <1>1, <1>2, <1>3, <1>4, <1>5, <1>6 DEF e

(* What has to be shown of a step.                                          *)
LEMMA StepKeeps ==
  ASSUME NEW ht \in [Locs -> Nat], NEW K \in [Locs -> SUBSET Keys], FileOK(heap', root', ht, K),
         status' \in Ends \cup {"alive"}, status' = "alive" => Filled(heap'),
         status' # "dangling" => DataOK(heap')
  PROVE  IInv'
<1>1. heap' \in Heaps /\ root' \in Locs
  BY TreeHeap DEF FileOK
<1>2. root' # NoLoc
  BY <1>1, LocAssumption DEF Locs, NoLoc
<1> QED BY <1>1, <1>2 DEF IInv

(* A key that is found is found in a tree.                                  *)
LEMMA FoundTree ==
  ASSUME IInv, status = "alive", NEW k \in Keys, Found(k)
  PROVE  /\ root # NoLoc /\ Filled(heap) /\ DataOK(heap)
         /\ \E ht \in [Locs -> Nat], K \in [Locs -> SUBSET Keys] : FileOK(heap, root, ht, K)
<1>1. root # NoLoc
  BY DEF Found
<1> QED BY <1>1, TreeLives

(* update keeps the invariant and puts the data for the key.                *)
LEMMA UpdateKeeps ==
  ASSUME IInv, NEW k \in Keys, NEW d \in Data, NEW m, Update(k, d, m)
  PROVE  IInv' /\ Put(heap, heap', k, d)
<1> DEFINE p == PathTo(k)
           e == Last(p)
           l == DataLoc(k)
           f == Replaced(l, m, d)
           n == WithData(heap[e], k, m)
           T == {<<k, m>>}
<1>1. /\ status = "alive" /\ Found(k) /\ m \in Places(k) /\ root' = root /\ status' = status
      /\ heap' = [f EXCEPT ![e] = WithData(@, k, m)]
  BY DEF Update
<1>2. Filled(heap) /\ DataOK(heap)
  BY <1>1, FoundTree
<1>3. PICK ht \in [Locs -> Nat], K \in [Locs -> SUBSET Keys] : FileOK(heap, root, ht, K)
  BY <1>1, FoundTree
<1>4. /\ Tree(heap, root, ht, K) /\ Way(heap, root, k, p) /\ heap \in Heaps
      /\ e \in NodesIn(heap) /\ heap[e] \in NodeRecs /\ heap[e].isLeaf /\ ShapeOK(heap[e])
      /\ Len(heap[e].keys) < BRankMax
  BY <1>3, EndLeaf
<1>5. k \in ToSet(heap[e].keys)
  BY <1>1, <1>4, SearchFacts
<1>6. /\ l \in Locs /\ l \in DataIn(heap) /\ l \notin NodesIn(heap)
      /\ \A a : <<k, a>> \in Entries(heap) <=> a = l
      /\ m \in Locs /\ (m = l \/ m \in FreeLocs(heap))
  BY <1>1, <1>2, <1>4, UpdatePlaces
<1>7. m \notin NodesIn(heap)
  BY <1>4, <1>6, PlaceKinds
<1> HIDE DEF p, e, l, f, n
<1>8. NodesSame(heap, f) /\ DataIn(f) = (DataIn(heap) \ {l}) \cup {m}
  BY <1>4, <1>6, <1>7, ReplacedData DEF f
<1>9. f[e] = heap[e]
  BY <1>4, <1>8 DEF NodesSame
<1>10. Written(heap', f, e, n)
  BY <1>1, <1>9 DEF Written, n
<1>11. LeafEdit(n, heap[e], k, T) /\ n.keys = heap[e].keys
  <2>1. /\ n \in NodeRecs /\ n.isLeaf /\ n.parent = heap[e].parent /\ ShapeOK(n)
        /\ n.keys = heap[e].keys /\ Pairs(n) = {x \in Pairs(heap[e]) : x[1] # k} \cup {<<k, m>>}
    BY <1>4, <1>5, <1>6, LeafWithData DEF n
  <2>2. T \subseteq {k} \X Locs
    BY <1>6
  <2> QED BY <2>1, <2>2 DEF LeafEdit
<1>12. heap[e].keys # <<>>
  BY <1>2, <1>4 DEF Filled
<1> HIDE DEF T
<1> DEFINE J == KeysAfter(K, p, k, T)
<1>13. /\ FileOK(heap', root, ht, J) /\ Filled(heap') /\ DataIn(heap') = DataIn(f)
       /\ Entries(heap') = {x \in Entries(heap) : x[1] # k} \cup T
  <2>1. LeafEdit(n, heap[Last(p)], k, T) /\ Written(heap', f, Last(p), n)
    BY <1>10, <1>11 DEF e
  <2>2. LeafDone(heap, root, ht, K, k, p, f, n, T, heap')
    BY <1>3, <1>4, <1>8, <2>1, LeafOp
  <2> QED BY <1>2, <1>4, <1>11, <1>12, <2>2 DEF LeafDone
<1>14. J \in [Locs -> SUBSET Keys] /\ T \subseteq {k} \X Locs
  BY <1>11, KeysAfterType DEF LeafEdit
<1>15. DataOK(heap')
  <2>1. \A a : <<k, a>> \in T <=> a = m
    BY DEF T
  <2>2. m \notin DataIn(heap) \/ <<k, m>> \in Entries(heap)
    BY <1>4, <1>6, PlaceKinds
  <2>3. \A a : a \in DataIn(heap') <=> \/ a \in DataIn(heap) /\ <<k, a>> \notin Entries(heap)
                                       \/ <<k, a>> \in T
    BY <1>6, <1>8, <1>13, <2>1
  <2>4. DataChange(heap, heap', k, T)
    BY <1>4, <1>13, <1>14, <2>1, <2>2, <2>3 DEF DataChange
  <2> QED BY <1>2, <2>4, DataAfter
<1> HIDE DEF J
<1>16. FileOK(heap', root', ht, J) /\ status' = "alive"
  BY <1>1, <1>13
<1>17. IInv'
  BY <1>13, <1>14, <1>15, <1>16, StepKeeps
<1>18. /\ f[m] = DataRec(d) /\ \A c \in Locs \ {l, m} : f[c] = heap[c]
       /\ \A c \in DataIn(f) : heap'[c] = f[c]
  <2>1. f[m] = DataRec(d) /\ \A c \in Locs \ {l, m} : f[c] = heap[c]
    BY <1>4, <1>6, <1>7, ReplacedData DEF f
  <2>2. \A c \in DataIn(f) : c # e
    BY <1>4, <1>8 DEF NodesSame, NodesIn, DataIn
  <2>3. f \in Heaps
    BY <1>8 DEF NodesSame
  <2> QED BY <1>10, <2>1, <2>2, <2>3 DEF Written, Heaps
<1>19. ASSUME NEW x \in Entries(heap), x[1] # k PROVE heap'[x[2]] = heap[x[2]]
  <2>1. x[2] \in DataIn(heap) /\ x[2] \in Locs
    BY <1>2 DEF DataOK, DataIn
  <2>2. x[2] # l
    <3> DEFINE y == <<k, l>>
    <3>1. y \in Entries(heap) /\ y[1] = k /\ y[2] = l
      BY <1>6
    <3> HIDE DEF y
    <3> QED BY <1>2, <1>19, <3>1 DEF DataOK
  <2>3. x[2] # m
    BY <1>4, <1>6, <2>1, <2>2, PlaceKinds
  <2>4. x[2] \in DataIn(f)
    BY <1>8, <2>1, <2>2
  <2> QED BY <1>18, <2>1, <2>2, <2>3, <2>4
<1>20. /\ Entries(heap') = {x \in Entries(heap) : x[1] # k} \cup {<<k, m>>}
       /\ heap'[m] = DataRec(d)
  BY <1>8, <1>13, <1>18 DEF T
<1>21. Put(heap, heap', k, d)
  BY <1>6, <1>19, <1>20 DEF Put
<1> QED BY <1>17, <1>21

(* updateNoResize keeps the invariant and puts the data for the key.        *)
LEMMA UpdateNoResizeKeeps ==
  ASSUME IInv, NEW k \in Keys, NEW d \in Data, UpdateNoResize(k, d)
  PROVE  IInv' /\ Put(heap, heap', k, d)
<1> DEFINE l == DataLoc(k)
<1>1. /\ status = "alive" /\ Found(k) /\ root' = root /\ status' = status
      /\ heap' = [heap EXCEPT ![l] = DataRec(d)]
  BY DEF UpdateNoResize
<1>2. Filled(heap) /\ DataOK(heap)
  BY <1>1, FoundTree
<1>3. PICK ht \in [Locs -> Nat], K \in [Locs -> SUBSET Keys] : FileOK(heap, root, ht, K)
  BY <1>1, FoundTree
<1>4. Tree(heap, root, ht, K) /\ heap \in Heaps
  BY <1>3, EndLeaf
<1>5. /\ l \in Locs /\ l \in DataIn(heap) /\ l \notin NodesIn(heap)
      /\ \A a : <<k, a>> \in Entries(heap) <=> a = l
  BY <1>1, <1>2, <1>4, UpdatePlaces
<1> HIDE DEF l
<1>6. Written(heap', heap, l, DataRec(d))
  BY <1>1 DEF Written
<1>7. NodesSame(heap, heap') /\ DataIn(heap') = DataIn(heap)
  <2>1. NodesSame(heap, heap') /\ DataIn(heap') = DataIn(heap) \cup {l}
    BY <1>4, <1>5, <1>6, DataRecKinds, DataSet
  <2> QED BY <1>5, <2>1
<1>8. Entries(heap') = Entries(heap) /\ Filled(heap') /\ FileOK(heap', root', ht, K)
  BY <1>1, <1>2, <1>3, <1>7, NodesSameRest
<1>9. DataOK(heap')
  BY <1>2, <1>7, <1>8 DEF DataOK
<1>10. IInv'
  BY <1>1, <1>8, <1>9, StepKeeps
<1>11. heap'[l] = DataRec(d) /\ \A c \in Locs \ {l} : heap'[c] = heap[c]
  BY <1>4, <1>5, <1>6 DEF Written, Heaps
<1>12. ASSUME NEW x \in Entries(heap), x[1] # k PROVE heap'[x[2]] = heap[x[2]]
  <2>1. x[2] \in Locs
    BY DEF Entries
  <2>2. x[2] # l
    <3> DEFINE y == <<k, l>>
    <3>1. y \in Entries(heap) /\ y[1] = k /\ y[2] = l
      BY <1>5
    <3> HIDE DEF y
    <3> QED BY <1>2, <1>12, <3>1 DEF DataOK
  <2> QED BY <1>11, <2>1, <2>2
<1>13. Entries(heap') = {x \in Entries(heap) : x[1] # k} \cup {<<k, l>>}
  <2>1. \A x \in Entries(heap) : x = <<x[1], x[2]>>
    BY DEF Entries
  <2>2. \A x \in Entries(heap) : x[1] = k => x = <<k, l>>
    BY <1>5, <2>1
  <2>3. <<k, l>> \in Entries(heap)
    BY <1>5
  <2> QED BY <1>8, <2>2, <2>3
<1>14. Put(heap, heap', k, d)
  BY <1>5, <1>11, <1>12, <1>13 DEF Put
<1> QED BY <1>10, <1>14

(* A traversal that moves the data of a key keeps the invariant, as far as  *)
(* it speaks of a tree left dangling; the data may be lost.                 *)
LEMMA TraverseMovesKeeps ==
  ASSUME IInv, NEW k \in Keys, NEW d \in Data, NEW m, TraverseMoves(k, d, m)
  PROVE  IInv' /\ Loses(heap, heap', k)
<1> DEFINE l == DataLoc(k)
<1>1. /\ status = "alive" /\ Found(k) /\ root' = root /\ status' = "dangling"
      /\ m \in Places(k) /\ m # l /\ heap' = Replaced(l, m, d)
  BY DEF TraverseMoves
<1>2. DataOK(heap)
  BY <1>1, FoundTree
<1>3. PICK ht \in [Locs -> Nat], K \in [Locs -> SUBSET Keys] : FileOK(heap, root, ht, K)
  BY <1>1, FoundTree
<1>4. Tree(heap, root, ht, K) /\ heap \in Heaps
  BY <1>3, EndLeaf
<1>5. /\ l \in Locs /\ l \notin NodesIn(heap) /\ m \in Locs /\ (m = l \/ m \in FreeLocs(heap))
      /\ \A a : <<k, a>> \in Entries(heap) <=> a = l
  BY <1>1, <1>2, <1>4, UpdatePlaces
<1>6. m \notin NodesIn(heap)
  BY <1>4, <1>5, PlaceKinds
<1>7. NodesSame(heap, heap')
  BY <1>1, <1>4, <1>5, <1>6, ReplacedData
<1>8. FileOK(heap', root', ht, K)
  BY <1>1, <1>3, <1>7, NodesSameRest
<1>9. status' \in Ends /\ status' # "alive"
  BY <1>1 DEF Ends
<1>10. IInv'
  BY <1>1, <1>8, <1>9, StepKeeps
<1>11. Entries(heap') = Entries(heap)
  BY <1>7, NodesSameRest
<1>12. heap'[l] = Free /\ \A c \in Locs \ {l, m} : heap'[c] = heap[c]
  BY <1>1, <1>4, <1>5 DEF Replaced, Heaps
<1>13. ASSUME NEW x \in Entries(heap)
       PROVE  IF x[1] = k THEN heap'[x[2]] = Free ELSE heap'[x[2]] = heap[x[2]] /\ heap'[x[2]] # Free
  <2>1. x[2] \in DataIn(heap) /\ x[2] \in Locs /\ x = <<x[1], x[2]>>
    BY <1>2 DEF DataOK, DataIn, Entries
  <2>2. CASE x[1] = k
    BY <1>5, <1>12, <2>1, <2>2
  <2>3. CASE x[1] # k
    <3>1. x[2] # l
      <4> DEFINE y == <<k, l>>
      <4>1. y \in Entries(heap) /\ y[1] = k /\ y[2] = l
        BY <1>5
      <4> HIDE DEF y
      <4> QED BY <1>2, <2>3, <4>1 DEF DataOK
    <3>2. x[2] # m /\ heap[x[2]] # Free
      BY <1>1, <1>4, <1>5, <2>1, PlaceKinds
    <3> QED BY <1>12, <2>1, <2>3, <3>1, <3>2
  <2> QED BY <2>2, <2>3
<1> QED BY <1>10, <1>11, <1>13 DEF Loses

(* The file without the data of k and its entry.                            *)
Deleted(k, ht, J, g) ==
  LET e == Last(PathTo(k))
  IN  /\ FileOK(g, root, ht, J) /\ J \in [Locs -> SUBSET Keys]
      /\ g \in Heaps /\ DataOK(g) /\ NodesIn(g) = NodesIn(heap)
      /\ \A l \in NodesIn(heap) \ {e} : g[l] = heap[l]
      /\ e \in NodesIn(g) /\ g[e].isLeaf /\ g[e].parent = heap[e].parent
      /\ ~LastEntry(k) => Filled(g)
      /\ LastEntry(k) => g[e].keys = <<>>
      /\ Entries(g) = {x \in Entries(heap) : x[1] # k}
      /\ \A c \in DataIn(g) : c # DataLoc(k) /\ g[c] = heap[c]

(* What deleteNode always does leaves a tree without the key, perhaps with  *)
(* an empty leaf.                                                           *)
LEMMA EntryGone ==
  ASSUME NEW k \in Keys, Found(k), Filled(heap), DataOK(heap),
         NEW ht \in [Locs -> Nat], NEW K \in [Locs -> SUBSET Keys], FileOK(heap, root, ht, K)
  PROVE  \E J : Deleted(k, ht, J, EntryDeleted(k))
<1> DEFINE p == PathTo(k)
           e == Last(p)
           l == DataLoc(k)
           f == [heap EXCEPT ![l] = Free]
           n == Without(heap[e], k)
           g == EntryDeleted(k)
           T == {}
<1>1. /\ Tree(heap, root, ht, K) /\ Way(heap, root, k, p) /\ heap \in Heaps
      /\ e \in NodesIn(heap) /\ heap[e] \in NodeRecs /\ heap[e].isLeaf /\ ShapeOK(heap[e])
      /\ Len(heap[e].keys) \in Nat /\ Len(heap[e].keys) < BRankMax
  BY EndLeaf
<1>2. k \in ToSet(heap[e].keys)
  BY <1>1, SearchFacts
<1>3. /\ l \in Locs /\ l \in DataIn(heap) /\ l \notin NodesIn(heap)
      /\ \A a : <<k, a>> \in Entries(heap) <=> a = l
  BY <1>1, UpdatePlaces
<1>5. \A c \in Locs \ {l} : f[c] = heap[c]
  BY <1>1 DEF Heaps
<1>6. Written(f, heap, l, Free)
  BY DEF Written
<1> HIDE DEF p, e, l, f, n, g, T
<1>7. NodesSame(heap, f) /\ DataIn(f) = DataIn(heap) \ {l}
  <2>1. Free \in {Free} \cup DataRecs
    OBVIOUS
  <2> QED BY <1>1, <1>3, <1>6, <2>1, DataSet, ZenonT(40)
<1>8. f[e] = heap[e]
  BY <1>1, <1>7 DEF NodesSame
<1>9. Written(g, f, e, n)
  <2>1. e # l /\ e \in Locs
    BY <1>1, <1>3 DEF NodesIn
  <2>2. g = [heap EXCEPT ![l] = Free, ![e] = n]
    BY <1>1, <2>1 DEF EntryDeleted, Heaps, g, e, l, p, n
  <2> QED BY <1>1, <1>3, <2>1, <2>2 DEF Written, Heaps, f
<1>10. LeafEdit(n, heap[e], k, T) /\ Len(n.keys) = Len(heap[e].keys) - 1 /\ n.keys \in Seq(Keys)
  <2>1. /\ n \in NodeRecs /\ n.isLeaf /\ n.parent = heap[e].parent /\ ShapeOK(n)
        /\ Len(n.keys) = Len(heap[e].keys) - 1
        /\ Pairs(n) = {x \in Pairs(heap[e]) : x[1] # k} \cup {}
    BY <1>1, <1>2, LeafWithout DEF n
  <2>2. n.keys \in Seq(Keys)
    BY <2>1 DEF NodeRecs
  <2> QED BY <2>1, <2>2 DEF LeafEdit, T
<1> DEFINE J == KeysAfter(K, p, k, T)
<1>11. LeafDone(heap, root, ht, K, k, p, f, n, T, g)
  <2>1. LeafEdit(n, heap[Last(p)], k, T) /\ Written(g, f, Last(p), n)
    BY <1>9, <1>10 DEF e
  <2> QED BY <1>1, <1>7, <2>1, LeafOp
<1>12. Len(n.keys) < BRankMax
  BY <1>1, <1>10, RankFacts
<1>13. LastEntry(k) <=> Len(heap[e].keys) = 1
  BY DEF LastEntry, LeafOf, e, p
<1>14. (LastEntry(k) => n.keys = <<>>) /\ (~LastEntry(k) => n.keys # <<>>)
  <2>1. \A s \in Seq(Keys) : Len(s) = 0 <=> s = <<>>
    OBVIOUS
  <2>2. LastEntry(k) <=> Len(n.keys) = 0
    BY <1>1, <1>10, <1>13
  <2> QED BY <1>10, <2>1, <2>2
<1>15. /\ FileOK(g, root, ht, J) /\ (n.keys # <<>> => Filled(g)) /\ DataIn(g) = DataIn(f)
       /\ Entries(g) = {x \in Entries(heap) : x[1] # k} \cup T
       /\ e \in NodesIn(g) /\ g[e] = n /\ NodesIn(g) = NodesIn(heap)
       /\ \A c \in NodesIn(heap) \ {e} : g[c] = heap[c]
       /\ \A c \in DataIn(f) : g[c] = f[c]
  BY <1>11, <1>12 DEF LeafDone, e
<1>16. J \in [Locs -> SUBSET Keys]
  BY <1>10, KeysAfterType DEF LeafEdit
<1>17. DataOK(g)
  <2>1. \A a : <<k, a>> \notin T
    BY DEF T
  <2>2. \A a : a \in DataIn(g) <=> \/ a \in DataIn(heap) /\ <<k, a>> \notin Entries(heap)
                                   \/ <<k, a>> \in T
    BY <1>3, <1>7, <1>15, <2>1
  <2>3. T \subseteq {k} \X Locs
    BY DEF T
  <2>4. DataChange(heap, g, k, T)
    BY <1>1, <1>15, <2>1, <2>2, <2>3 DEF DataChange
  <2> QED BY <2>4, DataAfter
<1>18. g \in Heaps
  BY <1>15, TreeHeap DEF FileOK
<1>19. n.isLeaf /\ n.parent = heap[e].parent
  BY <1>10 DEF LeafEdit
<1>20. Entries(g) = {x \in Entries(heap) : x[1] # k}
  BY <1>15 DEF T
<1>21. \A c \in DataIn(g) : c # l /\ g[c] = heap[c]
  <2>1. \A c \in DataIn(heap) : c \in Locs
    BY DEF DataIn
  <2> QED BY <1>5, <1>7, <1>15, <2>1
<1> HIDE DEF J
<1>22. Deleted(k, ht, J, g)
  BY <1>14, <1>15, <1>16, <1>17, <1>18, <1>19, <1>20, <1>21 DEF Deleted, e, p, l
<1> QED BY <1>22 DEF g

(* What the map of the keys is then.                                        *)
LEMMA DeletedTakes ==
  ASSUME NEW k, NEW ht, NEW J, NEW g, Deleted(k, ht, J, g)
  PROVE  Taken(heap, g, k)
<1>1. Entries(g) = {x \in Entries(heap) : x[1] # k} /\ DataOK(g) /\ \A c \in DataIn(g) : g[c] = heap[c]
  BY DEF Deleted
<1>2. ASSUME NEW x \in Entries(heap), x[1] # k PROVE g[x[2]] = heap[x[2]]
  <2>1. x \in Entries(g)
    BY <1>1, <1>2
  <2>2. x[2] \in DataIn(g)
    BY <1>1, <2>1 DEF DataOK
  <2> QED BY <1>1, <2>2
<1> QED BY <1>1, <1>2 DEF Taken

(* remove keeps the invariant and takes the key: entries remain in the      *)
(* leaf.                                                                    *)
LEMMA RemoveEntryKeeps ==
  ASSUME IInv, NEW k \in Keys, RemoveEntry(k)
  PROVE  IInv' /\ Taken(heap, heap', k)
<1>1. /\ status = "alive" /\ Found(k) /\ ~LastEntry(k) /\ heap' = EntryDeleted(k)
      /\ root' = root /\ status' = status
  BY DEF RemoveEntry
<1>2. Filled(heap) /\ DataOK(heap)
  BY <1>1, FoundTree
<1>3. PICK ht \in [Locs -> Nat], K \in [Locs -> SUBSET Keys] : FileOK(heap, root, ht, K)
  BY <1>1, FoundTree
<1>4. PICK J : Deleted(k, ht, J, heap')
  BY <1>1, <1>2, <1>3, EntryGone
<1>5. FileOK(heap', root', ht, J) /\ J \in [Locs -> SUBSET Keys] /\ DataOK(heap') /\ Filled(heap')
  BY <1>1, <1>4 DEF Deleted
<1>6. Taken(heap, heap', k)
  BY <1>4, DeletedTakes
<1> QED BY <1>1, <1>5, <1>6, StepKeeps

(* remove keeps what the invariant says of an ended process, and takes the  *)
(* key: the parent is too poor.                                             *)
LEMMA RemoveDiesKeeps ==
  ASSUME IInv, NEW k \in Keys, RemoveDies(k)
  PROVE  IInv' /\ Taken(heap, heap', k)
<1>1. /\ status = "alive" /\ Found(k) /\ heap' = EntryDeleted(k)
      /\ root' = root /\ status' = "poorParent"
  BY DEF RemoveDies
<1>2. Filled(heap) /\ DataOK(heap)
  BY <1>1, FoundTree
<1>3. PICK ht \in [Locs -> Nat], K \in [Locs -> SUBSET Keys] : FileOK(heap, root, ht, K)
  BY <1>1, FoundTree
<1>4. PICK J : Deleted(k, ht, J, heap')
  BY <1>1, <1>2, <1>3, EntryGone
<1>5. FileOK(heap', root', ht, J) /\ J \in [Locs -> SUBSET Keys] /\ DataOK(heap')
  BY <1>1, <1>4 DEF Deleted
<1>6. status' \in Ends /\ status' # "alive"
  BY <1>1 DEF Ends
<1>7. Taken(heap, heap', k)
  BY <1>4, DeletedTakes
<1> QED BY <1>5, <1>6, <1>7, StepKeeps

(* An empty file.                                                           *)
LEMMA AllFree ==
  ASSUME NEW h, h = [l \in Locs |-> Free]
  PROVE  /\ h \in Heaps /\ NodesIn(h) = {} /\ DataIn(h) = {} /\ Entries(h) = {}
         /\ Filled(h) /\ DataOK(h)
<1>1. \A l \in Locs : h[l] = Free /\ h[l].kind = "free"
  BY DEF Free
<1>2. NodesIn(h) = {} /\ DataIn(h) = {}
  BY <1>1 DEF NodesIn, DataIn
<1>3. h \in Heaps
  BY DEF Heaps
<1>4. Entries(h) = {}
  BY <1>2 DEF Entries
<1>5. Filled(h)
  BY <1>2 DEF Filled
<1>6. DataOK(h)
  BY <1>2, <1>4 DEF DataOK
<1> QED BY <1>2, <1>3, <1>4, <1>5, <1>6

(* A tree whose root is a leaf has no other node.                           *)
LEMMA OnlyRoot ==
  ASSUME NEW h, NEW r, NEW ht, NEW K, Tree(h, r, ht, K), NEW k \in Keys, NEW p, Way(h, r, k, p), Len(p) = 1
  PROVE  NodesIn(h) = {r} /\ Last(p) = r
<1>1. p[1] = r /\ Len(p) = ht[r] + 1 /\ r \in NodesIn(h)
  BY WayFacts, TreeHeap
<1>2. Last(p) = r
  BY <1>1 DEF Last
<1>3. ASSUME NEW l \in NodesIn(h), l # r PROVE FALSE
  <2> DEFINE q == h[l].parent
  <2>1. q \in NodesIn(h) /\ ht[q] = ht[l] + 1
    BY <1>3, TreeParent
  <2>2. ht[l] \in Nat /\ ht[r] \in Nat
    BY TreeNode
  <2>3. ht[q] <= ht[r]
    BY <2>1, TreeNode
  <2> HIDE DEF q
  <2> QED BY <1>1, <2>1, <2>2, <2>3
<1> QED BY <1>1, <1>2, <1>3

(* remove keeps the invariant and takes the key: the last one of the file.  *)
LEMMA RemoveRootKeeps ==
  ASSUME IInv, NEW k \in Keys, RemoveRoot(k)
  PROVE  IInv' /\ Taken(heap, heap', k)
<1> DEFINE g == EntryDeleted(k)
<1>1. /\ status = "alive" /\ Found(k) /\ LastEntry(k) /\ Len(PathTo(k)) = 1
      /\ heap' = [g EXCEPT ![root] = Free] /\ root' = NoLoc /\ status' = status
  BY DEF RemoveRoot
<1>2. Filled(heap) /\ DataOK(heap)
  BY <1>1, FoundTree
<1>3. PICK ht \in [Locs -> Nat], K \in [Locs -> SUBSET Keys] : FileOK(heap, root, ht, K)
  BY <1>1, FoundTree
<1>4. PICK J : Deleted(k, ht, J, g)
  BY <1>1, <1>2, <1>3, EntryGone
<1> HIDE DEF g
<1>5. NodesIn(heap) = {root} /\ Last(PathTo(k)) = root
  BY <1>1, <1>3, EndLeaf, OnlyRoot
<1>6. g \in Heaps /\ DataOK(g) /\ NodesIn(g) = {root} /\ g[root].keys = <<>>
  BY <1>1, <1>4, <1>5 DEF Deleted
<1>7. Entries(g) = {}
  BY <1>6 DEF Entries
<1>8. DataIn(g) = {}
  BY <1>6, <1>7 DEF DataOK
<1>9. ASSUME NEW l \in Locs PROVE heap'[l] = Free
  <2>1. l # root => g[l] = Free
    BY <1>6, <1>8, PlaceKinds
  <2> QED BY <1>1, <1>6, <2>1 DEF Heaps
<1>10. heap' = [l \in Locs |-> heap'[l]]
  BY <1>1, <1>6 DEF Heaps
<1>11. heap' = [l \in Locs |-> Free]
  BY <1>9, <1>10
<1>12. heap' \in Heaps /\ Filled(heap') /\ DataOK(heap')
  BY <1>11, AllFree
<1>13. Entries(heap') = {}
  BY <1>11, AllFree
<1>14. Taken(g, heap', k) /\ Taken(heap, g, k)
  BY <1>4, <1>7, <1>13, DeletedTakes DEF Taken
<1>15. {x \in Entries(heap) : x[1] # k} = {}
  BY <1>7, <1>14 DEF Taken
<1>16. Taken(heap, heap', k)
  BY <1>13, <1>15 DEF Taken
<1> QED BY <1>1, <1>9, <1>12, <1>16 DEF IInv

(* remove on an empty tree keeps the invariant.                             *)
LEMMA RemoveFromEmptyKeeps ==
  ASSUME IInv, RemoveFromEmpty
  PROVE  IInv'
BY DEF IInv, RemoveFromEmpty, Ends

(* An index file just created satisfies the invariant.                      *)
LEMMA InitKeeps ==
  ASSUME Init
  PROVE  IInv
<1>1. heap \in Heaps /\ Filled(heap) /\ DataOK(heap)
  BY AllFree DEF Init
<1> QED BY <1>1 DEF Init, IInv

-----------------------------------------------------------------------------
(* An empty leaf goes *)

(* The key that goes with child at.                                         *)
KeyWith(at) == IF at = 1 THEN 1 ELSE at - 1

(* m is the inner node q without child at.                                  *)
ListShrinks(q, m, at) ==
  LET a == Len(q.keys)
  IN  /\ a \in Nat /\ a >= 1 /\ q.keys \in Seq(Keys) /\ Ascending(q.keys)
      /\ DOMAIN q.keys = 1 .. a /\ DOMAIN q.children = 1 .. a + 1
      /\ at \in 1 .. a + 1 /\ m \in NodeRecs /\ ~m.isLeaf /\ m.parent = q.parent
      /\ Len(m.keys) = a - 1 /\ DOMAIN m.keys = 1 .. a - 1
      /\ Len(m.children) = a /\ DOMAIN m.children = 1 .. a
      /\ \A j \in 1 .. a : m.children[j] = IF j < at THEN q.children[j] ELSE q.children[j + 1]
      /\ \A j \in 1 .. a - 1 : m.keys[j] = IF j < KeyWith(at) THEN q.keys[j] ELSE q.keys[j + 1]
      /\ Ascending(m.keys)

(* deleteChild takes one child and the key next to it from the lists.       *)
LEMMA WithoutChildLists ==
  ASSUME NEW q \in NodeRecs, ~q.isLeaf, ShapeOK(q), IsInjective(q.children),
         NEW at \in DOMAIN q.children, Len(q.children) >= 2
  PROVE  ListShrinks(q, WithoutChild(q, q.children[at]), at)
<1> DEFINE a == Len(q.keys)
           e == q.children[at]
           m == WithoutChild(q, e)
           b == KeyWith(at)
           keys == q.keys
           children == q.children
<1>1. /\ keys \in Seq(Keys) /\ children \in Seq(Locs) /\ Len(keys) = a /\ Len(children) = a + 1
      /\ Ascending(keys) /\ a \in Nat
  BY DEF NodeRecs, ShapeOK
<1>2. /\ DOMAIN keys = 1 .. a /\ DOMAIN children = 1 .. a + 1 /\ a >= 1 /\ at \in 1 .. a + 1
  <2>1. Len(children) >= 2 /\ at \in DOMAIN children
    OBVIOUS
  <2> HIDE DEF a, keys, children
  <2> QED BY <1>1, <2>1
<1>3. (CHOOSE i \in 1 .. Len(q.children) : q.children[i] = e) = at
  <2>1. Len(q.children) \in Nat /\ DOMAIN q.children = 1 .. Len(q.children)
    BY <1>1
  <2> QED BY <2>1, PlaceIn
<1>4. m = [q EXCEPT !.keys = RemoveAt(@, IF at = 1 THEN 1 ELSE at - 1), !.children = RemoveAt(@, at)]
  <2> DEFINE c == CHOOSE i \in 1 .. Len(q.children) : q.children[i] = e
  <2>1. m = [q EXCEPT !.keys = RemoveAt(@, IF c = 1 THEN 1 ELSE c - 1), !.children = RemoveAt(@, c)]
    BY DEF WithoutChild
  <2>2. c = at
    BY <1>3
  <2> HIDE DEF c, m
  <2> QED BY <2>1, <2>2
<1>5. b \in 1 .. a
  BY <1>1, <1>2 DEF KeyWith
<1> HIDE DEF a, e, m, keys, children
<1>6. /\ RemoveAt(keys, b) \in Seq(Keys) /\ Len(RemoveAt(keys, b)) = a - 1
      /\ \A j \in 1 .. a - 1 : RemoveAt(keys, b)[j] = IF j < b THEN keys[j] ELSE keys[j + 1]
  <2> HIDE DEF b
  <2>1. b \in 1 .. Len(keys) /\ keys \in Seq(Keys)
    BY <1>1, <1>5
  <2>2. /\ RemoveAt(keys, b) \in Seq(Keys) /\ Len(RemoveAt(keys, b)) = Len(keys) - 1
        /\ \A j \in 1 .. Len(keys) - 1 : RemoveAt(keys, b)[j] = IF j < b THEN keys[j] ELSE keys[j + 1]
    BY <2>1, RemovedAt
  <2> QED BY <1>1, <2>2
<1>7. /\ RemoveAt(children, at) \in Seq(Locs) /\ Len(RemoveAt(children, at)) = a
      /\ \A j \in 1 .. a : RemoveAt(children, at)[j] = IF j < at THEN children[j] ELSE children[j + 1]
  <2>1. at \in 1 .. Len(children) /\ children \in Seq(Locs)
    BY <1>1, <1>2
  <2>2. /\ RemoveAt(children, at) \in Seq(Locs) /\ Len(RemoveAt(children, at)) = Len(children) - 1
        /\ \A j \in 1 .. Len(children) - 1 :
             RemoveAt(children, at)[j] = IF j < at THEN children[j] ELSE children[j + 1]
    BY <2>1, RemovedAt
  <2>3. Len(children) - 1 = a
    BY <1>1
  <2> QED BY <2>2, <2>3
<1>8. Relisted(m, q, RemoveAt(keys, b), RemoveAt(children, at))
  BY <1>4, <1>6, <1>7 DEF Relisted, b, keys, children, KeyWith
<1>9. /\ m \in NodeRecs /\ m.keys = RemoveAt(keys, b) /\ m.children = RemoveAt(children, at)
      /\ (m.isLeaf <=> q.isLeaf) /\ m.parent = q.parent
  BY <1>8, RelistedFacts
<1>10. Ascending(m.keys)
  <2> HIDE DEF b
  <2>1. b \in 1 .. Len(keys) /\ keys \in Seq(Int)
    BY <1>1, <1>5, KeyLists
  <2> QED BY <1>1, <1>9, <2>1, AscendingRemove
<1>11. /\ Len(m.keys) = a - 1 /\ DOMAIN m.keys = 1 .. a - 1
       /\ Len(m.children) = a /\ DOMAIN m.children = 1 .. a
  BY <1>1, <1>6, <1>7, <1>9
<1>12. /\ a \in Nat /\ a >= 1 /\ keys \in Seq(Keys) /\ Ascending(keys)
       /\ DOMAIN keys = 1 .. a /\ DOMAIN children = 1 .. a + 1 /\ at \in 1 .. a + 1
       /\ m \in NodeRecs /\ ~m.isLeaf /\ m.parent = q.parent
  BY <1>1, <1>2, <1>9
<1>13. /\ \A j \in 1 .. a : m.children[j] = IF j < at THEN children[j] ELSE children[j + 1]
       /\ \A j \in 1 .. a - 1 : m.keys[j] = IF j < b THEN keys[j] ELSE keys[j + 1]
  BY <1>6, <1>7, <1>9
<1> HIDE DEF b
<1>14. ListShrinks(q, m, at)
  BY <1>10, <1>11, <1>12, <1>13 DEF ListShrinks, a, b, keys, children
<1> QED BY <1>14 DEF m, e

(* What belonged below a remaining child still does.                        *)
LEMMA BetweenAfter ==
  ASSUME NEW q, NEW m, NEW at, ListShrinks(q, m, at), NEW j \in 1 .. Len(q.keys),
         NEW x \in Int, Between(q.keys, IF j < at THEN j ELSE j + 1, x)
  PROVE  Between(m.keys, j, x)
<1> DEFINE a == Len(q.keys)
           keys == q.keys
           b == KeyWith(at)
           i == IF j < at THEN j ELSE j + 1
<1>1. /\ a \in Nat /\ a >= 1 /\ at \in 1 .. a + 1 /\ Len(m.keys) = a - 1 /\ j \in 1 .. a
      /\ DOMAIN keys = 1 .. a /\ Ascending(keys)
      /\ \A n \in 1 .. a - 1 : m.keys[n] = IF n < b THEN keys[n] ELSE keys[n + 1]
  BY DEF ListShrinks
<1>2. \A n \in 1 .. a : keys[n] \in Int
  <2>1. keys \in Seq(Keys)
    BY DEF ListShrinks
  <2>2. keys \in Seq(Int)
    BY <2>1, KeyLists
  <2> QED BY <1>1, <2>2
<1>3. (i > 1 => keys[i - 1] <= x) /\ (i <= a => x < keys[i])
  BY DEF Between
<1> HIDE DEF a, keys
<1>4. b = (IF at = 1 THEN 1 ELSE at - 1) /\ b \in 1 .. a
  BY <1>1 DEF KeyWith
<1> HIDE DEF b
<1>5. ASSUME j > 1 PROVE m.keys[j - 1] <= x
  <2>1. CASE j < at
    <3>1. i = j /\ j - 1 \in 1 .. a - 1 /\ j - 1 < b
      BY <1>1, <1>4, <1>5, <2>1
    <3> QED BY <1>1, <1>3, <1>5, <3>1
  <2>2. CASE j >= at
    <3>1. i = j + 1 /\ j - 1 \in 1 .. a - 1 /\ ~(j - 1 < b) /\ (j - 1) + 1 = j /\ i > 1 /\ i - 1 = j
      BY <1>1, <1>4, <1>5, <2>2
    <3>2. m.keys[j - 1] = keys[j]
      BY <1>1, <3>1
    <3>3. keys[j] <= x
      BY <1>3, <3>1
    <3> QED BY <3>2, <3>3
  <2>3. j < at \/ j >= at
    BY <1>1
  <2> QED BY <2>1, <2>2, <2>3
<1>6. ASSUME j <= a - 1 PROVE x < m.keys[j]
  <2>0. j \in 1 .. a - 1 /\ j + 1 \in 1 .. a /\ j <= a
    BY <1>1, <1>6
  <2>1. CASE j < at
    <3>1. i = j
      BY <2>1
    <3>2. x < keys[j]
      BY <1>3, <2>0, <3>1
    <3>3. keys[j] < keys[j + 1] /\ keys[j] \in Int /\ keys[j + 1] \in Int
      <4>1. j \in DOMAIN keys /\ j + 1 \in DOMAIN keys /\ j < j + 1
        BY <1>1, <2>0
      <4>2. keys[j] < keys[j + 1]
        BY <1>1, <4>1 DEF Ascending
      <4> QED BY <1>1, <1>2, <4>1, <4>2
    <3>4. m.keys[j] = keys[j] \/ m.keys[j] = keys[j + 1]
      BY <1>1, <2>0
    <3> QED BY <3>2, <3>3, <3>4
  <2>2. CASE j >= at
    <3>1. i = j + 1 /\ ~(j < b) /\ i <= a
      BY <1>1, <1>4, <2>0, <2>2
    <3>2. m.keys[j] = keys[j + 1]
      BY <1>1, <2>0, <3>1
    <3> QED BY <1>3, <3>1, <3>2
  <2>3. j < at \/ j >= at
    BY <1>1
  <2> QED BY <2>1, <2>2, <2>3
<1> QED BY <1>1, <1>5, <1>6 DEF Between

(* The empty leaf e, child at of p, is dropped from h.                      *)
DropCase(h, g, r, ht, K, e, p, at) ==
  /\ Tree(h, r, ht, K) /\ e \in NodesIn(h) /\ e # r /\ h[e].isLeaf /\ h[e].keys = <<>>
  /\ p = h[e].parent /\ p \in NodesIn(h) /\ ~h[p].isLeaf
  /\ at \in DOMAIN h[p].children /\ h[p].children[at] = e /\ Len(h[p].children) >= 2
  /\ g = [c \in Locs |-> g[c]] /\ g[p] = WithoutChild(h[p], e) /\ g[e] = Free
  /\ \A c \in Locs \ {e, p} : g[c] = h[c]

(* What the file holds then.                                                *)
Drops(h, g, e, p, at) ==
  /\ g \in Heaps /\ NodesIn(g) = NodesIn(h) \ {e} /\ p # e /\ p \in NodesIn(g) /\ g[p].parent = h[p].parent
  /\ ListShrinks(h[p], g[p], at) /\ ~g[p].isLeaf
  /\ \A l \in NodesIn(g) \ {p} : g[l] = h[l]
  /\ DataIn(g) = DataIn(h) /\ \A l \in DataIn(h) : g[l] = h[l]

(* An empty leaf whose parent lets go of it has no keys, and nothing else   *)
(* changes.                                                                 *)
LEMMA DropFacts ==
  ASSUME NEW h, NEW g, NEW r, NEW ht, NEW K, NEW e, NEW p, NEW at, DropCase(h, g, r, ht, K, e, p, at)
  PROVE  Drops(h, g, e, p, at) /\ K[e] = {}
<1>1. /\ Tree(h, r, ht, K) /\ e \in NodesIn(h) /\ h[e].isLeaf /\ h[e].keys = <<>>
      /\ p \in NodesIn(h) /\ ~h[p].isLeaf
      /\ at \in DOMAIN h[p].children /\ h[p].children[at] = e /\ Len(h[p].children) >= 2
      /\ g = [c \in Locs |-> g[c]] /\ g[p] = WithoutChild(h[p], e) /\ g[e] = Free
      /\ \A c \in Locs \ {e, p} : g[c] = h[c]
  BY DEF DropCase
<1>2. p # e /\ h \in Heaps /\ e \in Locs /\ p \in Locs
  BY <1>1, TreeHeap DEF NodesIn
<1>3. h[p] \in NodeRecs /\ IsInjective(h[p].children)
  BY <1>1, TreeNode, TreeInner
<1>4. ShapeOK(h[p])
  BY <1>1 DEF Tree, NodeOK
<1>5. ListShrinks(h[p], g[p], at)
  <2>1. ListShrinks(h[p], WithoutChild(h[p], h[p].children[at]), at)
    BY <1>1, <1>3, <1>4, WithoutChildLists
  <2> QED BY <1>1, <2>1
<1>6. g[p] \in NodeRecs /\ ~g[p].isLeaf /\ g[p].parent = h[p].parent
  BY <1>5 DEF ListShrinks
<1>7. g \in Heaps
  <2>1. ASSUME NEW c \in Locs PROVE g[c] \in {Free} \cup DataRecs \cup NodeRecs
    <3>1. h[c] \in {Free} \cup DataRecs \cup NodeRecs
      BY <1>2 DEF Heaps
    <3> QED BY <1>1, <1>6, <3>1
  <2> QED BY <1>1, <2>1 DEF Heaps
<1>8. g[p].kind = "node" /\ h[p].kind = "node" /\ h[e].kind = "node" /\ g[e].kind = "free"
  BY <1>1, <1>6 DEF NodeRecs, NodesIn, Free
<1>9. NodesIn(g) = NodesIn(h) \ {e}
  BY <1>1, <1>2, <1>8 DEF NodesIn
<1>10. DataIn(g) = DataIn(h) /\ \A l \in DataIn(h) : g[l] = h[l]
  BY <1>1, <1>2, <1>8 DEF DataIn
<1>11. \A l \in NodesIn(g) \ {p} : g[l] = h[l]
  BY <1>1, <1>9 DEF NodesIn
<1>12. K[e] = {}
  <2>1. K[e] = ToSet(h[e].keys)
    BY <1>1, TreeLeaf
  <2> QED BY <1>1, <2>1 DEF ToSet
<1> QED BY <1>1, <1>2, <1>5, <1>6, <1>7, <1>9, <1>10, <1>11, <1>12 DEF Drops

(* The parent.                                                              *)
LEMMA DropParent ==
  ASSUME NEW h, NEW g, NEW r, NEW ht, NEW K, NEW e, NEW p, NEW at, DropCase(h, g, r, ht, K, e, p, at)
  PROVE  NodeOK(g, p, ht, K)
<1>1. /\ Tree(h, r, ht, K) /\ p \in NodesIn(h) /\ ~h[p].isLeaf
      /\ at \in DOMAIN h[p].children /\ h[p].children[at] = e
  BY DEF DropCase
<1>2. Drops(h, g, e, p, at) /\ K[e] = {}
  BY DropFacts
<1>3. /\ NodesIn(g) = NodesIn(h) \ {e} /\ ListShrinks(h[p], g[p], at) /\ ~g[p].isLeaf
      /\ \A l \in NodesIn(g) \ {p} : g[l] = h[l]
  BY <1>2 DEF Drops
<1> DEFINE a == Len(h[p].keys)
           Old(j) == IF j < at THEN j ELSE j + 1
<1>4. /\ a \in Nat /\ a >= 1 /\ at \in 1 .. a + 1 /\ DOMAIN h[p].children = 1 .. a + 1
      /\ DOMAIN g[p].children = 1 .. a /\ Len(g[p].children) = a /\ Len(g[p].keys) = a - 1
      /\ Ascending(g[p].keys)
      /\ \A j \in 1 .. a : g[p].children[j] = IF j < at THEN h[p].children[j] ELSE h[p].children[j + 1]
  BY <1>3 DEF ListShrinks
<1>5. IsInjective(h[p].children) /\ \A x \in K[p] : \E i \in DOMAIN h[p].children : x \in K[h[p].children[i]]
  BY <1>1, TreeInner
<1> HIDE DEF a
<1>6. ASSUME NEW j \in 1 .. a
      PROVE  /\ Old(j) \in DOMAIN h[p].children /\ Old(j) # at /\ g[p].children[j] = h[p].children[Old(j)]
  BY <1>4
<1>7. ASSUME NEW j \in 1 .. a PROVE ChildOK(g, p, j, ht, K)
  <2> DEFINE i == Old(j)
             c == h[p].children[i]
  <2>1. i \in DOMAIN h[p].children /\ i # at /\ g[p].children[j] = c
    BY <1>6
  <2>2. c # e
    BY <1>1, <1>5, <2>1 DEF IsInjective
  <2>3. /\ c \in NodesIn(h) /\ h[c].parent = p /\ ht[p] = ht[c] + 1 /\ K[c] \subseteq K[p]
        /\ \A x \in K[c] : Between(h[p].keys, i, x)
    <3> HIDE DEF i
    <3> QED BY <1>1, <2>1, TreeChild
  <2>4. ht[c] \in Nat /\ K[c] \subseteq Keys
    <3> HIDE DEF c
    <3> QED BY <1>1, <2>3, TreeNode
  <2>5. c # p
    <3> HIDE DEF c
    <3> QED BY <2>3, <2>4
  <2>6. g[c] = h[c] /\ c \in NodesIn(g)
    BY <1>3, <2>2, <2>3, <2>5
  <2>7. ASSUME NEW x \in K[c] PROVE Between(g[p].keys, j, x)
    <3>1. x \in Int
      BY <2>4, KeysAssumption
    <3>2. Between(h[p].keys, IF j < at THEN j ELSE j + 1, x)
      BY <2>3
    <3>3. j \in 1 .. Len(h[p].keys)
      BY DEF a
    <3> QED BY <1>3, <3>1, <3>2, <3>3, BetweenAfter
  <2> HIDE DEF c, i
  <2> QED BY <2>1, <2>3, <2>6, <2>7 DEF ChildOK
<1>8. ASSUME NEW x \in K[p] PROVE \E j \in DOMAIN g[p].children : x \in K[g[p].children[j]]
  <2>1. PICK i \in DOMAIN h[p].children : x \in K[h[p].children[i]]
    BY <1>5
  <2>2. i # at /\ i \in 1 .. a + 1
    BY <1>1, <1>2, <1>4, <2>1
  <2> DEFINE j == IF i < at THEN i ELSE i - 1
  <2>3. j \in 1 .. a /\ Old(j) = i
    BY <1>4, <2>2
  <2> HIDE DEF j, Old
  <2>4. g[p].children[j] = h[p].children[i]
    BY <1>6, <2>3
  <2> QED BY <1>4, <2>1, <2>3, <2>4
<1>9. IsInjective(g[p].children)
  <2>1. ASSUME NEW i \in 1 .. a, NEW j \in 1 .. a, g[p].children[i] = g[p].children[j] PROVE i = j
    <3>1. h[p].children[Old(i)] = h[p].children[Old(j)]
      BY <1>6, <2>1
    <3>2. Old(i) = Old(j)
      <4> HIDE DEF Old
      <4> QED BY <1>5, <1>6, <3>1 DEF IsInjective
    <3> QED BY <1>4, <3>2
  <2> QED BY <1>4, <2>1 DEF IsInjective
<1>10. ShapeOK(g[p])
  BY <1>3, <1>4 DEF ShapeOK
<1>11. InnerOK(g, p, ht, K)
  BY <1>4, <1>7, <1>8, <1>9 DEF InnerOK
<1> QED BY <1>3, <1>10, <1>11 DEF NodeOK

(* Without an empty leaf the file is still a tree, with the same heights    *)
(* and key sets.                                                            *)
LEMMA DropTree ==
  ASSUME NEW h, NEW g, NEW r, NEW ht, NEW K, NEW e, NEW p, NEW at, DropCase(h, g, r, ht, K, e, p, at)
  PROVE  Tree(g, r, ht, K)
<1>1. /\ Tree(h, r, ht, K) /\ e \in NodesIn(h) /\ e # r /\ h[e].isLeaf /\ p = h[e].parent
      /\ p \in NodesIn(h) /\ ~h[p].isLeaf
      /\ at \in DOMAIN h[p].children /\ h[p].children[at] = e
  BY DEF DropCase
<1>2. Drops(h, g, e, p, at)
  BY DropFacts
<1>3. /\ g \in Heaps /\ NodesIn(g) = NodesIn(h) \ {e} /\ p # e /\ p \in NodesIn(g)
      /\ g[p].parent = h[p].parent /\ ListShrinks(h[p], g[p], at) /\ ~g[p].isLeaf
      /\ \A l \in NodesIn(g) \ {p} : g[l] = h[l]
  BY <1>2 DEF Drops
<1>4. /\ ht \in [Locs -> Nat] /\ K \in [Locs -> SUBSET Keys] /\ r \in NodesIn(h) /\ h[r].parent = NoLoc
      /\ \A l \in NodesIn(h) : NodeOK(h, l, ht, K) /\ ht[l] <= ht[r]
  BY <1>1 DEF Tree
<1>5. r \in NodesIn(g) /\ g[r].parent = NoLoc
  BY <1>1, <1>3, <1>4
<1>6. \A l \in NodesIn(g) : g[l].parent = h[l].parent
  BY <1>3
<1>7. ASSUME NEW l \in NodesIn(g), l # p PROVE NodeOK(g, l, ht, K)
  <2>1. NodeOK(h, l, ht, K) /\ g[l] = h[l]
    BY <1>3, <1>4, <1>7
  <2>2. ASSUME InnerOK(h, l, ht, K) PROVE InnerOK(g, l, ht, K)
    <3>1. /\ \A i \in DOMAIN h[l].children : ChildOK(h, l, i, ht, K)
          /\ \A x \in K[l] : \E i \in DOMAIN h[l].children : x \in K[h[l].children[i]]
          /\ IsInjective(h[l].children)
      BY <2>2 DEF InnerOK
    <3>2. ASSUME NEW i \in DOMAIN h[l].children PROVE ChildOK(g, l, i, ht, K)
      <4>1. ChildOK(h, l, i, ht, K)
        BY <3>1
      <4>2. h[l].children[i] \in NodesIn(h) /\ h[h[l].children[i]].parent = l
        BY <4>1 DEF ChildOK
      <4>3. h[l].children[i] \in NodesIn(g)
        BY <1>1, <1>3, <1>7, <4>2
      <4>4. g[h[l].children[i]].parent = l
        BY <1>6, <4>2, <4>3
      <4> QED BY <2>1, <4>1, <4>3, <4>4 DEF ChildOK
    <3> QED BY <2>1, <3>1, <3>2 DEF InnerOK
  <2> QED BY <2>1, <2>2 DEF NodeOK, LeafOK
<1>8. NodeOK(g, p, ht, K)
  BY DropParent
<1>9. ASSUME NEW l \in NodesIn(g), l # r PROVE \E i \in Nat : ChildOf(g, l, g[l].parent, i)
  <2> DEFINE q == h[l].parent
  <2>1. /\ q \in NodesIn(h) /\ ~h[q].isLeaf
        /\ \E i \in DOMAIN h[q].children : h[q].children[i] = l
    BY <1>1, <1>3, <1>9, TreeParent
  <2>2. g[l].parent = q
    BY <1>6
  <2> HIDE DEF q
  <2>3. PICK i \in DOMAIN h[q].children : h[q].children[i] = l
    BY <2>1
  <2>4. q \in NodesIn(g)
    BY <1>1, <1>3, <2>1
  <2>5. CASE q # p
    <3>1. g[q] = h[q] /\ i \in Nat
      <4>1. DOMAIN h[q].children = 1 .. Len(h[q].children)
        BY <1>1, <2>1, TreeNode
      <4> QED BY <1>3, <2>3, <2>4, <2>5, <4>1
    <3>2. ChildOf(g, l, q, i)
      BY <2>1, <2>3, <2>4, <3>1 DEF ChildOf
    <3> QED BY <2>2, <3>1, <3>2
  <2>6. CASE q = p
    <3> DEFINE a == Len(h[p].keys)
               j == IF i < at THEN i ELSE i - 1
    <3>1. /\ a \in Nat /\ at \in 1 .. a + 1 /\ DOMAIN h[p].children = 1 .. a + 1
          /\ DOMAIN g[p].children = 1 .. a
          /\ \A n \in 1 .. a : g[p].children[n] = IF n < at THEN h[p].children[n] ELSE h[p].children[n + 1]
      BY <1>3 DEF ListShrinks
    <3>2. i # at /\ i \in 1 .. a + 1
      BY <1>1, <1>3, <2>3, <2>6, <3>1
    <3> HIDE DEF a
    <3>3. j \in 1 .. a /\ (IF j < at THEN j ELSE j + 1) = i /\ j \in Nat
      BY <3>1, <3>2
    <3> HIDE DEF j
    <3>4. g[p].children[j] = l
      BY <2>3, <2>6, <3>1, <3>3
    <3>5. ChildOf(g, l, q, j)
      BY <1>3, <2>6, <3>1, <3>3, <3>4 DEF ChildOf
    <3> QED BY <2>2, <3>3, <3>5
  <2> QED BY <2>5, <2>6
<1> QED BY <1>3, <1>4, <1>5, <1>7, <1>8, <1>9 DEF Tree

(* Without its empty leaf the file is in order, with all its entries.       *)
LEMMA DropRest ==
  ASSUME NEW h, NEW g, NEW r, NEW ht, NEW K, NEW e, NEW p, NEW at, DropCase(h, g, r, ht, K, e, p, at),
         \A l \in NodesIn(h) : KeysFit(h, l), KidsFit(h), Len(h[p].children) - 1 >= LeastKids,
         \A l \in NodesIn(h) \ {e} : h[l].isLeaf => h[l].keys # <<>>
  PROVE  /\ FileOK(g, r, ht, K) /\ Filled(g)
         /\ Entries(g) = Entries(h) /\ DataIn(g) = DataIn(h) /\ \A l \in DataIn(h) : g[l] = h[l]
<1>1. Tree(g, r, ht, K)
  BY DropTree
<1>2. /\ ~h[p].isLeaf /\ p \in NodesIn(h) /\ h[e].keys = <<>> /\ h[e].isLeaf
  BY DEF DropCase
<1>3. /\ NodesIn(g) = NodesIn(h) \ {e} /\ ListShrinks(h[p], g[p], at) /\ ~g[p].isLeaf
      /\ \A l \in NodesIn(g) \ {p} : g[l] = h[l]
      /\ DataIn(g) = DataIn(h) /\ \A l \in DataIn(h) : g[l] = h[l]
  <2>1. Drops(h, g, e, p, at)
    BY DropFacts
  <2> QED BY <2>1 DEF Drops
<1>4. /\ Len(h[p].keys) \in Nat /\ Len(g[p].keys) = Len(h[p].keys) - 1
      /\ Len(g[p].children) = Len(h[p].keys)
  BY <1>3 DEF ListShrinks
<1>5. Len(h[p].children) = Len(h[p].keys) + 1
  <2>1. Tree(h, r, ht, K)
    BY DEF DropCase
  <2>2. NodeOK(h, p, ht, K)
    BY <1>2, <2>1 DEF Tree
  <2> QED BY <1>2, <2>2 DEF NodeOK, ShapeOK
<1>6. KeysFit(g, p)
  <2>1. Len(h[p].keys) < BRankMax
    BY <1>2 DEF KeysFit
  <2> QED BY <1>4, <2>1, RankFacts DEF KeysFit
<1>7. \A l \in NodesIn(g) : KeysFit(g, l)
  BY <1>3, <1>6 DEF KeysFit
<1>8. KidsFit(g)
  <2>1. Len(g[p].children) >= LeastKids
    BY <1>4, <1>5
  <2> QED BY <1>3, <2>1 DEF KidsFit
<1>9. Filled(g)
  BY <1>3 DEF Filled
<1>10. Entries(g) = Entries(h)
  <2>1. DOMAIN h[e].keys = {}
    BY <1>2
  <2>2. \A l \in NodesIn(h) : \A i \in DOMAIN h[l].keys : h[l].isLeaf => l \in NodesIn(g) /\ g[l] = h[l]
    BY <1>2, <1>3, <2>1
  <2>3. \A l \in NodesIn(g) : \A i \in DOMAIN g[l].keys : g[l].isLeaf => l \in NodesIn(h) /\ g[l] = h[l]
    BY <1>3
  <2> QED BY <2>2, <2>3 DEF Entries
<1> QED BY <1>1, <1>3, <1>7, <1>8, <1>9, <1>10 DEF FileOK

(* remove keeps the invariant and takes the key: its leaf goes, and the     *)
(* parent can do without it.                                                *)
LEMMA RemoveLeafKeeps ==
  ASSUME IInv, NEW k \in Keys, RemoveLeaf(k)
  PROVE  IInv' /\ Taken(heap, heap', k)
<1> DEFINE p == PathTo(k)
           e == Last(p)
           q == ParentOf(k)
           h == EntryDeleted(k)
<1>1. /\ status = "alive" /\ Found(k) /\ LastEntry(k) /\ Len(p) > 1 /\ ~PoorParent(k)
      /\ heap' = [h EXCEPT ![q] = WithoutChild(@, e), ![e] = Free]
      /\ root' = root /\ status' = status
  BY DEF RemoveLeaf
<1>2. Filled(heap) /\ DataOK(heap)
  BY <1>1, FoundTree
<1>3. PICK ht \in [Locs -> Nat], K \in [Locs -> SUBSET Keys] : FileOK(heap, root, ht, K)
  BY <1>1, FoundTree
<1>4. PICK J : Deleted(k, ht, J, h)
  BY <1>1, <1>2, <1>3, EntryGone
<1>5. Tree(heap, root, ht, K) /\ Way(heap, root, k, p)
  BY <1>3, EndLeaf
<1>6. /\ Len(p) \in Nat /\ p[1] = root
      /\ \A i \in 1 .. Len(p) : p[i] \in NodesIn(heap) /\ p[i] \in Locs
      /\ \A i \in 1 .. Len(p) - 1 : ~heap[p[i]].isLeaf /\ heap[p[i + 1]].parent = p[i]
      /\ \A i, j \in 1 .. Len(p) : p[i] = p[j] => i = j
      /\ heap[p[Len(p)]].isLeaf
  BY <1>5, WayFacts
<1> DEFINE n == Len(p)
<1>7. q = p[n - 1] /\ e = p[n]
  BY DEF ParentOf, Last
<1>8. n \in Nat /\ n > 1
  BY <1>1, <1>6
<1> HIDE DEF n, p, e, q, h
<1>9. n - 1 \in 1 .. n - 1 /\ n - 1 \in 1 .. n /\ n \in 1 .. n /\ 1 \in 1 .. n /\ (n - 1) + 1 = n
  BY <1>8
<1>10. /\ q \in NodesIn(heap) /\ e \in NodesIn(heap) /\ ~heap[q].isLeaf /\ heap[e].isLeaf
       /\ heap[e].parent = q /\ e # root /\ q # e
  BY <1>6, <1>7, <1>8, <1>9 DEF n
<1>11. Len(heap[q].children) \in Nat /\ Len(heap[q].children) - 1 >= BRankMin
  <2>1. Len(heap[q].children) \in Nat
    BY <1>5, <1>10, TreeNode
  <2>2. ~ (Len(heap[q].children) - 1 < BRankMin)
    BY <1>1 DEF PoorParent, q
  <2> QED BY <2>1, <2>2, RankAssumption
<1>12. /\ FileOK(h, root, ht, J) /\ J \in [Locs -> SUBSET Keys] /\ h \in Heaps /\ DataOK(h)
       /\ NodesIn(h) = NodesIn(heap) /\ \A l \in NodesIn(heap) \ {e} : h[l] = heap[l]
       /\ h[e].isLeaf /\ h[e].parent = heap[e].parent /\ h[e].keys = <<>>
       /\ Entries(h) = {x \in Entries(heap) : x[1] # k} /\ \A c \in DataIn(h) : h[c] = heap[c]
  BY <1>1, <1>4 DEF Deleted, e, p
<1>13. h[q] = heap[q]
  BY <1>10, <1>12
<1>14. PICK at \in DOMAIN h[q].children : h[q].children[at] = e
  <2>1. \E i \in DOMAIN heap[q].children : heap[q].children[i] = e
    BY <1>5, <1>10, TreeParent
  <2> QED BY <1>13, <2>1
<1>15. q \in Locs /\ e \in Locs
  BY <1>10 DEF NodesIn
<1>16. /\ heap' = [c \in Locs |-> heap'[c]] /\ heap'[q] = WithoutChild(h[q], e) /\ heap'[e] = Free
       /\ \A c \in Locs \ {e, q} : heap'[c] = h[c]
  BY <1>1, <1>10, <1>12, <1>15 DEF Heaps
<1>17. Tree(h, root, ht, J) /\ (\A l \in NodesIn(h) : KeysFit(h, l)) /\ KidsFit(h)
  BY <1>12 DEF FileOK
<1>18. BRankMin >= 1 /\ BRankMin \in Nat /\ LeastKids \in Nat /\ LeastKids <= BRankMin
  BY RankAssumption, RankFacts
<1>19. Len(h[q].children) >= 2 /\ Len(h[q].children) - 1 >= LeastKids
  BY <1>11, <1>13, <1>18
<1>20. DropCase(h, heap', root, ht, J, e, q, at)
  BY <1>10, <1>12, <1>13, <1>14, <1>16, <1>17, <1>19 DEF DropCase
<1>21. \A l \in NodesIn(h) \ {e} : h[l].isLeaf => h[l].keys # <<>>
  BY <1>2, <1>12 DEF Filled
<1>22. /\ FileOK(heap', root, ht, J) /\ Filled(heap')
       /\ Entries(heap') = Entries(h) /\ DataIn(heap') = DataIn(h) /\ \A c \in DataIn(h) : heap'[c] = h[c]
  BY <1>17, <1>19, <1>20, <1>21, DropRest
<1>23. DataOK(heap')
  BY <1>12, <1>22 DEF DataOK
<1>24. FileOK(heap', root', ht, J) /\ status' = "alive"
  BY <1>1, <1>22
<1>25. IInv'
  BY <1>12, <1>22, <1>23, <1>24, StepKeeps
<1>26. Entries(heap') = {x \in Entries(heap) : x[1] # k}
  BY <1>12, <1>22
<1>27. ASSUME NEW x \in Entries(heap), x[1] # k PROVE heap'[x[2]] = heap[x[2]]
  <2>1. x \in Entries(heap')
    BY <1>26, <1>27
  <2>2. x[2] \in DataIn(heap')
    BY <1>23, <2>1 DEF DataOK
  <2> QED BY <1>12, <1>22, <2>2
<1>28. Taken(heap, heap', k)
  BY <1>26, <1>27 DEF Taken
<1> QED BY <1>25, <1>28

(* Free places for the data of k.                                           *)
LEMMA DataPlaceFree ==
  ASSUME NEW h, NEW n \in Nat, Cardinality(FreeLocs(h)) >= n, n >= 1, NEW k \in Keys
  PROVE  /\ DataPlace(FreeLocs(h), k) \in FreeLocs(h) /\ DataPlace(FreeLocs(h), k) \in Locs
         /\ \A a \in FreeLocs(h) : Cardinality(FreeLocs(h) \ {a}) >= n - 1
<1>1. NodePlace(FreeLocs(h)) \in FreeLocs(h)
  BY FreeLeft
<1>2. \A a \in FreeLocs(h) : Cardinality(FreeLocs(h) \ {a}) >= n - 1
  BY FreeLeft
<1>3. FreeLocs(h) \in SUBSET Locs /\ FreeLocs(h) # {}
  BY <1>1, FreeFinite
<1>4. DataPlace(FreeLocs(h), k) \in FreeLocs(h)
  BY <1>3, PlaceAssumption
<1> QED BY <1>2, <1>3, <1>4

(* A file with one leaf.                                                    *)
OneLeaf(h, r, k, a) ==
  /\ h = [c \in Locs |-> h[c]] /\ r \in Locs /\ a \in Locs /\ r # a /\ k \in Keys
  /\ h[r] = Node(TRUE, <<k>>, <<a>>, NoLoc) /\ h[a] \in DataRecs
  /\ \A c \in Locs \ {r, a} : h[c] = Free

(* A file of one leaf with one entry is in order.                           *)
LEMMA OneLeafFile ==
  ASSUME NEW h, NEW r, NEW k, NEW a, OneLeaf(h, r, k, a)
  PROVE  /\ h \in Heaps /\ NodesIn(h) = {r} /\ DataIn(h) = {a} /\ Entries(h) = {<<k, a>>}
         /\ Filled(h) /\ DataOK(h)
         /\ \E ht \in [Locs -> Nat], K \in [Locs -> SUBSET Keys] : FileOK(h, r, ht, K)
<1>1. /\ h = [c \in Locs |-> h[c]] /\ r \in Locs /\ a \in Locs /\ r # a /\ k \in Keys
      /\ h[r] = Node(TRUE, <<k>>, <<a>>, NoLoc) /\ h[a] \in DataRecs
      /\ \A c \in Locs \ {r, a} : h[c] = Free
  BY DEF OneLeaf
<1> DEFINE ks == <<k>>
           cs == <<a>>
           leaf == TRUE
<1>2. /\ ks \in Seq(Keys) /\ Len(ks) = 1 /\ DOMAIN ks = {1} /\ ks[1] = k /\ ks # <<>>
      /\ cs \in Seq(Locs) /\ Len(cs) = 1 /\ cs[1] = a
  BY <1>1
<1>3. h[r] = Node(leaf, ks, cs, NoLoc) /\ leaf \in BOOLEAN /\ leaf
  BY <1>1
<1> HIDE DEF ks, cs, leaf
<1>4. /\ h[r] \in NodeRecs /\ h[r].keys = ks /\ h[r].children = cs /\ h[r].isLeaf
      /\ h[r].parent = NoLoc /\ h[r].kind = "node"
  BY <1>2, <1>3 DEF Node, NodeRecs
<1>5. h[a].kind = "data" /\ \A c \in Locs \ {r, a} : h[c].kind = "free"
  BY <1>1 DEF DataRecs, DataRec, Free
<1>6. NodesIn(h) = {r} /\ DataIn(h) = {a}
  BY <1>1, <1>4, <1>5 DEF NodesIn, DataIn
<1>7. h \in Heaps
  <2>1. \A c \in Locs : h[c] \in {Free} \cup DataRecs \cup NodeRecs
    BY <1>1, <1>4
  <2> QED BY <1>1, <2>1 DEF Heaps
<1>8. Entries(h) = {<<k, a>>}
  <2>1. ASSUME NEW x, NEW y, <<x, y>> \in Entries(h) PROVE x = k /\ y = a
    <3>1. PICK l \in NodesIn(h) : \E i \in DOMAIN h[l].keys : x = h[l].keys[i] /\ y = h[l].children[i]
      BY <1>7, <2>1, EntryFacts
    <3>2. l = r
      BY <1>6
    <3>3. \E i \in {1} : x = ks[i] /\ y = cs[i]
      BY <1>2, <1>4, <3>1, <3>2
    <3> QED BY <1>2, <3>3
  <2>3. <<k, a>> \in Entries(h)
    <3>1. 1 \in DOMAIN h[r].keys /\ k = h[r].keys[1] /\ a = h[r].children[1] /\ r \in NodesIn(h)
      BY <1>2, <1>4, <1>6
    <3>2. <<k, a>> = <<h[r].keys[1], h[r].children[1]>> /\ <<k, a>> \in Keys \X Locs
      BY <1>1, <3>1
    <3> QED BY <1>4, <3>1, <3>2 DEF Entries
  <2>2. \A x \in Entries(h) : x = <<x[1], x[2]>>
    BY DEF Entries
  <2>4. \A x \in Entries(h) : x[1] = k /\ x[2] = a
    BY <2>1, <2>2
  <2> QED BY <2>2, <2>3, <2>4
<1>9. Filled(h)
  BY <1>2, <1>4, <1>6 DEF Filled
<1>10. DataOK(h)
  BY <1>6, <1>8 DEF DataOK
<1> DEFINE ht == [c \in Locs |-> 0]
           K == [c \in Locs |-> {k}]
<1>11. ht \in [Locs -> Nat] /\ K \in [Locs -> SUBSET Keys]
  BY <1>1
<1>12. NodeOK(h, r, ht, K)
  <2>1. Ascending(ks)
    BY <1>2 DEF Ascending
  <2>2. ShapeOK(h[r])
    <3>1. Len(h[r].children) = Len(h[r].keys) + (IF h[r].isLeaf THEN 0 ELSE 1)
      <4>1. Len(h[r].children) = 1 /\ Len(h[r].keys) = 1
        BY <1>2, <1>4
      <4>2. (IF h[r].isLeaf THEN 0 ELSE 1) = 0
        BY <1>4
      <4> QED BY <4>1, <4>2
    <3> QED BY <1>4, <2>1, <3>1 DEF ShapeOK
  <2>3. ToSet(ks) = {k}
    BY <1>2 DEF ToSet
  <2>4. LeafOK(h, r, ht, K)
    BY <1>1, <1>4, <2>3 DEF LeafOK
  <2> QED BY <1>4, <2>2, <2>4 DEF NodeOK
<1>13. Tree(h, r, ht, K)
  <2>1. \A l \in NodesIn(h) : ht[l] <= ht[r]
    BY <1>1, <1>6
  <2> HIDE DEF ht, K
  <2>2. NodesIn(h) \ {r} = {} /\ r \in NodesIn(h)
    BY <1>6
  <2>3. \A l \in NodesIn(h) : NodeOK(h, l, ht, K)
    BY <1>6, <1>12
  <2> QED BY <1>4, <1>7, <1>11, <2>1, <2>2, <2>3 DEF Tree
<1>14. KeysFit(h, r)
  BY <1>2, <1>4, RankAssumption DEF KeysFit
<1>15. KidsFit(h)
  BY <1>4, <1>6 DEF KidsFit
<1>16. FileOK(h, r, ht, K)
  BY <1>6, <1>13, <1>14, <1>15 DEF FileOK
<1> HIDE DEF ht, K
<1> QED BY <1>6, <1>7, <1>8, <1>9, <1>10, <1>11, <1>16

(* insertAsRoot makes a file of one leaf.                                   *)
LEMMA InsertAsRootMakes ==
  ASSUME IInv, NEW k \in Keys, NEW d \in Data, InsertAsRoot(k, d)
  PROVE  \E a : OneLeaf(heap', root', k, a) /\ heap'[a] = DataRec(d)
<1> DEFINE F == FreeLocs(heap)
           loc == DataPlace(F, k)
           h == [heap EXCEPT ![loc] = DataRec(d)]
<1>1. /\ root = NoLoc /\ Cardinality(F) >= 2
      /\ root' = NodePlace(FreeLocs(h)) /\ heap' = [h EXCEPT ![root'] = Node(TRUE, <<k>>, <<loc>>, NoLoc)]
  BY DEF InsertAsRoot, Room
<1>2. heap \in Heaps /\ \A l \in Locs : heap[l] = Free
  BY <1>1 DEF IInv
<1>3. loc \in F /\ loc \in Locs /\ Cardinality(F \ {loc}) >= 1
  <2>1. /\ DataPlace(FreeLocs(heap), k) \in FreeLocs(heap) /\ DataPlace(FreeLocs(heap), k) \in Locs
        /\ \A a \in FreeLocs(heap) : Cardinality(FreeLocs(heap) \ {a}) >= 2 - 1
    BY <1>1, DataPlaceFree
  <2> QED BY <2>1
<1>4. Written(h, heap, loc, DataRec(d))
  BY DEF Written
<1>5. loc \notin NodesIn(heap)
  BY <1>2, <1>3, PlaceKinds
<1> HIDE DEF F, loc, h
<1>6. FreeLocs(h) = F \ {loc} /\ h \in Heaps
  BY <1>2, <1>3, <1>4, <1>5, DataRecKinds, DataSet DEF F
<1>7. Cardinality(FreeLocs(h)) >= 1
  BY <1>3, <1>6
<1>8. root' \in FreeLocs(h)
  BY <1>1, <1>7, FreeLeft
<1>9. root' \in Locs /\ root' # loc
  BY <1>6, <1>8 DEF F, FreeLocs
<1>10. h[loc] = DataRec(d) /\ \A c \in Locs \ {loc} : h[c] = Free
  BY <1>2, <1>3, <1>4 DEF Written, Heaps
<1>11. /\ heap' = [c \in Locs |-> heap'[c]] /\ heap'[root'] = Node(TRUE, <<k>>, <<loc>>, NoLoc)
       /\ \A c \in Locs \ {root'} : heap'[c] = h[c]
  BY <1>1, <1>6, <1>9 DEF Heaps
<1>12. heap'[loc] = DataRec(d)
  BY <1>3, <1>9, <1>10, <1>11
<1>13. OneLeaf(heap', root', k, loc)
  BY <1>3, <1>9, <1>10, <1>11, <1>12, DataRecKinds DEF OneLeaf
<1> QED BY <1>12, <1>13

(* insertAsRoot keeps the invariant and puts the data for the key.          *)
LEMMA InsertAsRootKeeps ==
  ASSUME IInv, NEW k \in Keys, NEW d \in Data, InsertAsRoot(k, d)
  PROVE  IInv' /\ Put(heap, heap', k, d)
<1>1. PICK a : OneLeaf(heap', root', k, a) /\ heap'[a] = DataRec(d)
  BY InsertAsRootMakes
<1>2. Filled(heap') /\ DataOK(heap')
  BY <1>1, OneLeafFile
<1>3. PICK ht \in [Locs -> Nat], K \in [Locs -> SUBSET Keys] : FileOK(heap', root', ht, K)
  BY <1>1, OneLeafFile
<1>4. status' = "alive"
  BY DEF InsertAsRoot
<1>5. Entries(heap) = {}
  <2>1. \A l \in Locs : heap[l] = Free
    BY DEF IInv, InsertAsRoot
  <2>2. heap \in Heaps
    BY DEF IInv
  <2>3. NodesIn(heap) = {}
    BY <2>1 DEF NodesIn, Free
  <2> QED BY <2>3 DEF Entries
<1>6. a \in Locs /\ Entries(heap') = {<<k, a>>}
  <2>1. a \in Locs
    BY <1>1 DEF OneLeaf
  <2>2. Entries(heap') = {<<k, a>>}
    BY <1>1, OneLeafFile
  <2> QED BY <2>1, <2>2
<1>7. Put(heap, heap', k, d)
  BY <1>1, <1>5, <1>6 DEF Put
<1> QED BY <1>2, <1>3, <1>4, <1>7, StepKeeps

(* insertDataFrom up to the split: the leaf has the entry, and perhaps one  *)
(* key too many.                                                            *)
Grown(k, d, a, g) ==
  /\ Climbed(g, g, root, PathTo(k), Len(PathTo(k))) /\ DataOK(g)
  /\ Entries(g) = {x \in Entries(heap) : x[1] # k} \cup {<<k, a>>}
  /\ a \in DataIn(g) /\ g[a] = DataRec(d) /\ a \notin DataIn(heap) /\ a \in Locs
  /\ \A c \in DataIn(heap) : c \in DataIn(g) /\ g[c] = heap[c]

(* insertDataFrom before the splits: the leaf where searchNode ends has the *)
(* entry, perhaps one too many.                                             *)
LEMMA LeafGrows ==
  ASSUME IInv, status = "alive", root # NoLoc, NEW k \in Keys, ~Found(k), NEW d \in Data,
         Room(Len(PathTo(k)) + 2),
         NEW loc, loc = DataPlace(FreeLocs(heap), k),
         NEW n, n = WithEntry(heap[Last(PathTo(k))], k, loc),
         NEW g, g = [heap EXCEPT ![loc] = DataRec(d), ![Last(PathTo(k))] = n]
  PROVE  Grown(k, d, loc, g)
<1> DEFINE p == PathTo(k)
           e == Last(p)
           f == [heap EXCEPT ![loc] = DataRec(d)]
           T == {<<k, loc>>}
           m == Len(p)
<1>1. Filled(heap) /\ DataOK(heap)
  BY TreeLives
<1>2. PICK ht \in [Locs -> Nat], K \in [Locs -> SUBSET Keys] : FileOK(heap, root, ht, K)
  BY TreeLives
<1>3. /\ Tree(heap, root, ht, K) /\ Way(heap, root, k, p) /\ heap \in Heaps
      /\ e \in NodesIn(heap) /\ e \in Locs /\ heap[e] \in NodeRecs /\ heap[e].isLeaf /\ ShapeOK(heap[e])
      /\ Len(heap[e].keys) \in Nat /\ Len(heap[e].keys) < BRankMax
  BY <1>2, EndLeaf
<1>4. /\ Len(p) \in Nat /\ Len(p) >= 1 /\ p[1] = root
      /\ \A i \in 1 .. Len(p) : p[i] \in NodesIn(heap)
      /\ \A i \in 1 .. Len(p) - 1 : heap[p[i + 1]].parent = p[i]
      /\ \A i, j \in 1 .. Len(p) : p[i] = p[j] => i = j
  BY <1>3, WayFacts, SMTT(40)
<1>5. e = p[m]
  BY DEF Last
<1>6. Cardinality(FreeLocs(heap)) >= m + 2
  BY DEF Room
<1> HIDE DEF p, e, f, T, m
<1>7. m \in Nat /\ m >= 1 /\ m = Len(p)
  BY <1>4 DEF m
<1>8. /\ loc \in FreeLocs(heap) /\ loc \in Locs
      /\ Cardinality(FreeLocs(heap) \ {loc}) >= m + 1
  <2>1. m + 2 \in Nat /\ m + 2 >= 1 /\ (m + 2) - 1 = m + 1
    BY <1>7
  <2>2. loc \in FreeLocs(heap) /\ loc \in Locs
    BY <1>6, <2>1, DataPlaceFree
  <2>3. Cardinality(FreeLocs(heap) \ {loc}) >= (m + 2) - 1
    BY <1>6, <2>1, <2>2, DataPlaceFree
  <2> QED BY <2>1, <2>2, <2>3
<1>9. loc \notin NodesIn(heap) /\ loc \notin DataIn(heap) /\ loc # e
  BY <1>3, <1>8, PlaceKinds
<1>10. Written(f, heap, loc, DataRec(d))
  BY DEF Written, f
<1>11. /\ NodesSame(heap, f) /\ DataIn(f) = DataIn(heap) \cup {loc}
       /\ FreeLocs(f) = FreeLocs(heap) \ {loc}
  BY <1>3, <1>8, <1>9, <1>10, DataRecKinds, DataSet
<1>12. f[loc] = DataRec(d) /\ \A c \in Locs \ {loc} : f[c] = heap[c]
  BY <1>3, <1>8, <1>10 DEF Written, Heaps
<1>13. Written(g, f, e, n)
  BY <1>3, <1>8, <1>9 DEF Written, Heaps, f, e, p
<1>14. k \notin ToSet(heap[e].keys) /\ \A a : <<k, a>> \notin Entries(heap)
  BY <1>3, SearchFacts DEF e, p
<1>15. LeafEdit(n, heap[e], k, T) /\ Len(n.keys) = Len(heap[e].keys) + 1
  <2>1. n = WithEntry(heap[e], k, loc)
    BY DEF e, p
  <2>2. /\ n \in NodeRecs /\ n.isLeaf /\ n.parent = heap[e].parent /\ ShapeOK(n)
        /\ Len(n.keys) = Len(heap[e].keys) + 1
        /\ Pairs(n) = {x \in Pairs(heap[e]) : x[1] # k} \cup {<<k, loc>>}
    BY <1>3, <1>8, <1>14, <2>1, LeafWith
  <2>3. T \subseteq {k} \X Locs
    BY <1>8 DEF T
  <2> QED BY <2>2, <2>3 DEF LeafEdit, T
<1> DEFINE J == KeysAfter(K, p, k, T)
<1>16. LeafDone(heap, root, ht, K, k, p, f, n, T, g)
  <2>1. LeafEdit(n, heap[Last(p)], k, T) /\ Written(g, f, Last(p), n)
    BY <1>13, <1>15 DEF e
  <2> QED BY <1>2, <1>3, <1>11, <2>1, LeafOp
<1>17. /\ Tree(g, root, ht, J) /\ KidsFit(g) /\ (n.keys # <<>> => Filled(g))
       /\ Entries(g) = {x \in Entries(heap) : x[1] # k} \cup T
       /\ \A c \in NodesIn(g) \ {e} : KeysFit(g, c)
       /\ e \in NodesIn(g) /\ g[e] = n
       /\ NodesIn(g) = NodesIn(heap) /\ \A l \in NodesIn(heap) \ {e} : g[l] = heap[l]
       /\ FreeLocs(g) = FreeLocs(f) /\ DataIn(g) = DataIn(f) /\ \A l \in DataIn(f) : g[l] = f[l]
  BY <1>1, <1>16 DEF LeafDone, e
<1> HIDE DEF J
<1>18. Filled(g) /\ Len(g[e].keys) <= BRankMax
  <2>1. Len(n.keys) # 0 /\ Len(n.keys) <= BRankMax
    BY <1>3, <1>15, RankFacts
  <2>2. n.keys # <<>>
    BY <2>1
  <2> QED BY <1>17, <2>1, <2>2
<1>19. n.parent = heap[e].parent
  BY <1>15 DEF LeafEdit
<1>20. \A l \in NodesIn(heap) : g[l].parent = heap[l].parent
  BY <1>17, <1>19
<1>21. ASSUME NEW j \in 2 .. m PROVE p[j] \in NodesIn(g) /\ g[p[j]].parent = p[j - 1]
  <2>1. j - 1 \in 1 .. Len(p) - 1 /\ (j - 1) + 1 = j /\ j \in 1 .. Len(p)
    BY <1>7
  <2>2. heap[p[(j - 1) + 1]].parent = p[j - 1] /\ p[j] \in NodesIn(heap)
    BY <1>4, <2>1
  <2>3. heap[p[j]].parent = p[j - 1]
    BY <2>1, <2>2
  <2> QED BY <1>17, <1>20, <2>2, <2>3
<1>22. Cardinality(FreeLocs(g)) >= m + 1
  BY <1>8, <1>11, <1>17
<1>23. SameData(g, g)
  BY DEF SameData
<1>24. Climb(g, g, root, p, m, ht, J)
  BY <1>5, <1>17, <1>18, <1>21, <1>22, <1>23 DEF Climb
<1>25. Climbed(g, g, root, p, m)
  BY <1>24 DEF Climbed
<1>26. DataOK(g)
  <2>1. \A a : <<k, a>> \in T <=> a = loc
    BY DEF T
  <2>2. \A a : a \in DataIn(g) <=> \/ a \in DataIn(heap) /\ <<k, a>> \notin Entries(heap)
                                   \/ <<k, a>> \in T
    BY <1>11, <1>14, <1>17, <2>1
  <2>3. T \subseteq {k} \X Locs
    BY <1>15 DEF LeafEdit
  <2>4. DataChange(heap, g, k, T)
    BY <1>3, <1>9, <1>17, <2>1, <2>2, <2>3 DEF DataChange
  <2> QED BY <1>1, <2>4, DataAfter
<1>27. /\ loc \in DataIn(g) /\ g[loc] = DataRec(d)
       /\ \A c \in DataIn(heap) : c \in DataIn(g) /\ g[c] = heap[c]
  <2>1. \A c \in DataIn(heap) : c \in Locs
    BY DEF DataIn
  <2> QED BY <1>9, <1>11, <1>12, <1>17, <2>1
<1> QED BY <1>8, <1>9, <1>17, <1>25, <1>26, <1>27 DEF Grown, T, m, p

(* insertDataFrom with its splits: the file that LeafGrows describes, in    *)
(* order again.                                                             *)
LEMMA InsertDataFromMakes ==
  ASSUME IInv, NEW k \in Keys, NEW d \in Data, InsertDataFrom(k, d)
  PROVE  \E a, g : Grown(k, d, a, g) /\ Done(heap', root', g)
<1> DEFINE p == PathTo(k)
           loc == DataPlace(FreeLocs(heap), k)
           n == WithEntry(heap[Last(p)], k, loc)
           g == [heap EXCEPT ![loc] = DataRec(d), ![Last(p)] = n]
<1>1. /\ status = "alive" /\ root # NoLoc /\ ~Found(k) /\ Room(Len(p) + 2)
      /\ heap' = SplitNode(g, p).heap /\ root' = SplitNode(g, p).root
  BY DEF InsertDataFrom, WithEntry
<1>2. Grown(k, d, loc, g)
  BY <1>1, LeafGrows
<1>3. PICK ht \in [Locs -> Nat], K \in [Locs -> SUBSET Keys] : FileOK(heap, root, ht, K)
  BY <1>1, TreeLives
<1>4. Tree(heap, root, ht, K) /\ Way(heap, root, k, p)
  BY <1>3, EndLeaf
<1>5. /\ Len(p) \in Nat /\ Len(p) >= 1 /\ p[1] = root
      /\ \A i, j \in 1 .. Len(p) : p[i] = p[j] => i = j
  BY <1>4, WayFacts
<1> HIDE DEF g, p
<1>6. IsRoute(p, root, Len(p))
  BY <1>5 DEF IsRoute
<1>7. Climbed(g, g, root, p, Len(p))
  BY <1>2 DEF Grown, p
<1>8. Done(heap', root', g)
  BY <1>1, <1>5, <1>6, <1>7, SplitNodeDone
<1> QED BY <1>2, <1>8

(* insertDataFrom keeps the invariant and puts the data for the key.        *)
LEMMA InsertDataFromKeeps ==
  ASSUME IInv, NEW k \in Keys, NEW d \in Data, InsertDataFrom(k, d)
  PROVE  IInv' /\ Put(heap, heap', k, d)
<1>1. PICK a, g : Grown(k, d, a, g) /\ Done(heap', root', g)
  BY InsertDataFromMakes
<1>2. Filled(heap') /\ SameData(heap', g)
  BY <1>1 DEF Done
<1>3. PICK ht \in [Locs -> Nat], K \in [Locs -> SUBSET Keys] : FileOK(heap', root', ht, K)
  BY <1>1 DEF Done
<1>4. DataOK(heap')
  BY <1>1, <1>2 DEF Grown, SameData, DataOK
<1>5. status' = "alive"
  BY DEF InsertDataFrom
<1>6. /\ Entries(heap') = {x \in Entries(heap) : x[1] # k} \cup {<<k, a>>}
      /\ a \in Locs /\ heap'[a] = DataRec(d) /\ \A c \in DataIn(heap) : heap'[c] = heap[c]
  BY <1>1, <1>2 DEF Grown, SameData
<1>7. \A x \in Entries(heap) : heap'[x[2]] = heap[x[2]]
  <2>1. DataOK(heap)
    BY TreeLives DEF InsertDataFrom
  <2> QED BY <1>6, <2>1 DEF DataOK
<1>8. Put(heap, heap', k, d)
  BY <1>6, <1>7 DEF Put
<1> QED BY <1>2, <1>3, <1>4, <1>5, <1>8, StepKeeps

-----------------------------------------------------------------------------
(* The theorems *)

LEMMA NextKeeps ==
  ASSUME IInv, [Next]_vars
  PROVE  IInv'
<1>1. CASE UNCHANGED vars
  BY <1>1 DEF vars, IInv
<1>2. CASE RemoveFromEmpty
  BY <1>2, RemoveFromEmptyKeeps
<1>3. ASSUME NEW k \in Keys, RemoveEntry(k) PROVE IInv'
  BY <1>3, RemoveEntryKeeps
<1>4. ASSUME NEW k \in Keys, RemoveRoot(k) PROVE IInv'
  BY <1>4, RemoveRootKeeps
<1>5. ASSUME NEW k \in Keys, RemoveLeaf(k) PROVE IInv'
  BY <1>5, RemoveLeafKeeps
<1>6. ASSUME NEW k \in Keys, RemoveDies(k) PROVE IInv'
  BY <1>6, RemoveDiesKeeps
<1>7. ASSUME NEW k \in Keys, NEW d \in Data, InsertAsRoot(k, d) PROVE IInv'
  BY <1>7, InsertAsRootKeeps
<1>8. ASSUME NEW k \in Keys, NEW d \in Data, InsertDataFrom(k, d) PROVE IInv'
  BY <1>8, InsertDataFromKeeps
<1>9. ASSUME NEW k \in Keys, NEW d \in Data, UpdateNoResize(k, d) PROVE IInv'
  BY <1>9, UpdateNoResizeKeeps
<1>10. ASSUME NEW k \in Keys, NEW d \in Data, NEW m \in Places(k), Update(k, d, m) PROVE IInv'
  BY <1>10, UpdateKeeps
<1>11. ASSUME NEW k \in Keys, NEW d \in Data, NEW m \in Places(k), TraverseMoves(k, d, m) PROVE IInv'
  BY <1>11, TraverseMovesKeeps
<1> QED BY <1>1, <1>2, <1>3, <1>4, <1>5, <1>6, <1>7, <1>8, <1>9, <1>10, <1>11 DEF Next

(* The file always holds a search tree all of whose leaves are equally far  *)
(* from the root, with the data its leaves refer to and nothing else.       *)
THEOREM Invariance == Spec => []IInv
<1>1. Init => IInv
  BY InitKeeps
<1>2. IInv /\ [Next]_vars => IInv'
  BY NextKeeps
<1> QED BY <1>1, <1>2, PTL DEF Spec

-----------------------------------------------------------------------------
(* The properties of the runs *)

(* The shapes that writeBack's assertion and _NodeFormat allow: every       *)
(* record is free, data or a node with at most BRankMax - 1 keys and with   *)
(* as many children, one more in an inner node.                             *)
LEMMA InvTypes == IInv => TypeOK
<1> SUFFICES ASSUME IInv PROVE TypeOK
  OBVIOUS
<1>1. heap \in Heaps /\ root \in Locs \cup {NoLoc} /\ status \in Ends \cup {"alive"}
  BY DEF IInv
<1>2. DOMAIN heap = Locs
  BY <1>1 DEF Heaps
<1>3. ASSUME NEW l \in Locs PROVE heap[l] = Free \/ heap[l] \in DataRecs \/ WellFormed(heap[l])
  <2>1. CASE l \in NodesIn(heap)
    <3>1. root # NoLoc
      <4>1. heap[l].kind = "node"
        BY <2>1 DEF NodesIn
      <4>2. heap[l] # Free
        BY <4>1 DEF Free
      <4> QED BY <4>2 DEF IInv
    <3>2. PICK ht \in [Locs -> Nat], K \in [Locs -> SUBSET Keys] : FileOK(heap, root, ht, K)
      BY <3>1 DEF IInv
    <3>3. Tree(heap, root, ht, K) /\ KeysFit(heap, l)
      BY <2>1, <3>2 DEF FileOK
    <3>4. /\ heap[l].isLeaf \in BOOLEAN /\ heap[l].parent \in Locs \cup {NoLoc}
          /\ heap[l].keys \in Seq(Keys) /\ heap[l].children \in Seq(Locs)
          /\ Len(heap[l].children) = Len(heap[l].keys) + (IF heap[l].isLeaf THEN 0 ELSE 1)
      BY <2>1, <3>3, TreeNode
    <3> QED BY <3>3, <3>4 DEF WellFormed, KeysFit
  <2>2. CASE l \notin NodesIn(heap)
    <3>1. heap[l] = Free \/ heap[l] \in DataRecs
      BY <1>1, <2>2, PlaceKinds
    <3> QED BY <3>1
  <2> QED BY <2>1, <2>2
<1> QED BY <1>1, <1>2, <1>3 DEF TypeOK

(* TypeOK: every record of the file is free, data or a node of a legal      *)
(* shape with less than BRankMax keys, also after splits that reach the     *)
(* root.                                                                    *)
THEOREM Types == Spec => []TypeOK
BY Invariance, InvTypes, PTL

-----------------------------------------------------------------------------
(* The nodes of the tree are those of the file *)

(* The places a set of places refers to.                                    *)
Kids(h, l) == IF l \in NodesIn(h) /\ ~h[l].isLeaf THEN ToSet(h[l].children) ELSE {}

(* A child is a node, knows its parent and is one lower.                    *)
LEMMA KidFacts ==
  ASSUME NEW h, NEW r, NEW ht, NEW K, Tree(h, r, ht, K), NEW l \in NodesIn(h), NEW c \in Kids(h, l)
  PROVE  /\ c \in NodesIn(h) /\ c \in Locs /\ h[c].parent = l /\ ht[l] = ht[c] + 1 /\ ~h[l].isLeaf
         /\ \E i \in DOMAIN h[l].children : h[l].children[i] = c
<1>1. ~h[l].isLeaf /\ c \in ToSet(h[l].children)
  BY DEF Kids
<1>2. PICK i \in DOMAIN h[l].children : h[l].children[i] = c
  BY <1>1 DEF ToSet
<1> QED BY <1>1, <1>2, TreeChild

(* A set of nodes with the root and the children of its members has all.    *)
LEMMA AllReached ==
  ASSUME NEW h, NEW r, NEW ht, NEW K, Tree(h, r, ht, K), NEW S, r \in S,
         \A l \in NodesIn(h) : l \in S => Kids(h, l) \subseteq S
  PROVE  NodesIn(h) \subseteq S
<1> DEFINE L == NodesIn(h)
           depth == [l \in L |-> ht[r] - ht[l]]
           G == {l \in L : l \in S}
<1>1. \A l \in L : ht[l] \in Nat /\ ht[l] <= ht[r] /\ ht[r] \in Nat
  BY TreeNode
<1>2. depth \in [L -> Nat]
  BY <1>1
<1>3. ASSUME NEW l \in L, \A m \in L : depth[m] < depth[l] => m \in G PROVE l \in G
  <2>1. CASE l = r
    BY <2>1
  <2>2. CASE l # r
    <3> DEFINE p == h[l].parent
    <3>1. /\ p \in L /\ ~h[p].isLeaf /\ ht[p] = ht[l] + 1
          /\ \E i \in DOMAIN h[p].children : h[p].children[i] = l
      BY <2>2, TreeParent
    <3>2. l \in Kids(h, p)
      BY <3>1 DEF Kids, ToSet
    <3> HIDE DEF p
    <3>3. depth[p] < depth[l]
      BY <1>1, <3>1
    <3>4. p \in S
      BY <1>3, <3>1, <3>3
    <3> QED BY <3>1, <3>2, <3>4
  <2> QED BY <2>1, <2>2
<1>4. L \subseteq G
  <2>1. G \in SUBSET L
    OBVIOUS
  <2> HIDE DEF L, G, depth
  <2> QED BY <1>2, <1>3, <2>1, HeightInduction
<1> QED BY <1>4

(* What is below l, without a recursive definition in the way.              *)
LEMMA NodesAreAll ==
  ASSUME NEW ht, NEW K, Tree(heap, root, ht, K)
  PROVE  Nodes = NodesIn(heap)
<1> DEFINE After(f) == [l \in Locs |-> IF IsInner(l) THEN {l} \cup UNION {f[c] : c \in ToSet(heap[l].children)}
                                                     ELSE {l}]
           step == [f \in [Locs -> SUBSET Locs] |-> After(f)]
           below == CHOOSE below : below = After(below)
           L == NodesIn(heap)
           level == [l \in Locs |-> IF l \in L THEN ht[l] ELSE 0]
           top == ht[root] + 1
<1>1. /\ \A l \in Locs : IsInner(l) <=> l \in L /\ ~heap[l].isLeaf
      /\ L \subseteq Locs /\ root \in L
  BY TreeHeap DEF IsInner, IsNode, NodesIn
<1>2. /\ \A l \in L : ht[l] \in Nat /\ ht[l] <= ht[root]
      /\ \A l \in Locs : level[l] \in Nat /\ level[l] < top
      /\ level \in [Locs -> Nat] /\ top \in Nat
  <2>1. ht[root] \in Nat /\ \A l \in L : ht[l] \in Nat /\ ht[l] <= ht[root]
    BY <1>1, TreeNode
  <2>2. \A l \in Locs : level[l] \in Nat /\ level[l] < top
    BY <2>1
  <2> QED BY <2>1, <2>2
<1>3. ASSUME NEW l \in Locs, IsInner(l), NEW c \in ToSet(heap[l].children)
      PROVE  c \in L /\ c \in Locs /\ ht[l] = ht[c] + 1
  <2>1. l \in L /\ c \in Kids(heap, l)
    BY <1>1, <1>3 DEF Kids
  <2> QED BY <2>1, KidFacts
<1>4. PICK f \in [Locs -> SUBSET Locs] : f = After(f)
  <2>1. step \in [[Locs -> SUBSET Locs] -> [Locs -> SUBSET Locs]]
    <3>1. ASSUME NEW f \in [Locs -> SUBSET Locs], NEW l \in Locs
          PROVE  After(f)[l] \in SUBSET Locs
      BY <1>3
    <3> QED BY <3>1
  <2>2. ASSUME NEW f \in [Locs -> SUBSET Locs], NEW g \in [Locs -> SUBSET Locs], NEW l \in Locs,
               \A m \in Locs : level[m] < level[l] => f[m] = g[m]
        PROVE  step[f][l] = step[g][l]
    <3>1. ASSUME IsInner(l), NEW c \in ToSet(heap[l].children) PROVE f[c] = g[c]
      <4>1. l \in L /\ c \in L /\ c \in Locs /\ ht[l] = ht[c] + 1
        BY <1>1, <1>3, <3>1
      <4>2. level[c] < level[l]
        BY <1>1, <1>2, <4>1
      <4> QED BY <2>2, <4>1, <4>2
    <3>2. IsInner(l) => {f[c] : c \in ToSet(heap[l].children)} = {g[c] : c \in ToSet(heap[l].children)}
      BY <3>1
    <3> QED BY <3>2
  <2>3. Descends(step, Locs, SUBSET Locs, level, top)
    <3>1. level \in [Locs -> Nat] /\ top \in Nat /\ \A l \in Locs : level[l] < top
      BY <1>2
    <3> HIDE DEF step, level, top
    <3> QED BY <2>1, <2>2, <3>1 DEF Descends
  <2>4. PICK f \in [Locs -> SUBSET Locs] : f = step[f]
    <3> HIDE DEF step, level, top
    <3> QED BY <2>3, RecursionExists
  <2>5. step[f] = After(f)
    BY <2>4
  <2> HIDE DEF After, step
  <2> QED BY <2>4, <2>5
<1>5. below = After(below)
  <2> HIDE DEF After
  <2> QED BY <1>4
<1>6. Nodes = below[root]
  <2>1. root # NoLoc
    BY <1>1 DEF Locs, NoLoc
  <2> QED BY <2>1 DEF Nodes
<1> HIDE DEF below
<1>7. \A l \in L : below[l] = {l} \cup UNION {below[c] : c \in Kids(heap, l)}
  <2>1. ASSUME NEW l \in L PROVE below[l] = {l} \cup UNION {below[c] : c \in Kids(heap, l)}
    <3>1. l \in Locs /\ below[l] = IF IsInner(l) THEN {l} \cup UNION {below[c] : c \in ToSet(heap[l].children)}
                                                 ELSE {l}
      BY <1>1, <1>5
    <3>2. CASE IsInner(l)
      <4>1. Kids(heap, l) = ToSet(heap[l].children)
        BY <1>1, <3>2 DEF Kids
      <4> QED BY <3>1, <3>2, <4>1
    <3>3. CASE ~IsInner(l)
      <4>1. Kids(heap, l) = {}
        BY <1>1, <3>1, <3>3 DEF Kids
      <4> QED BY <3>1, <3>3, <4>1
    <3> QED BY <3>2, <3>3
  <2> QED BY <2>1
<1> DEFINE Closed(l) == /\ l \in below[l] /\ below[l] \subseteq L
                        /\ \A m \in below[l] : Kids(heap, m) \subseteq below[l]
           G == {l \in L : Closed(l)}
           hts == [l \in L |-> ht[l]]
<1>8. ASSUME NEW l \in L, \A m \in L : hts[m] < hts[l] => m \in G PROVE l \in G
  <2>1. ASSUME NEW c \in Kids(heap, l) PROVE c \in L /\ Closed(c)
    <3>1. c \in L /\ ht[l] = ht[c] + 1
      BY <2>1, KidFacts
    <3>2. hts[c] < hts[l]
      BY <1>2, <3>1
    <3>3. c \in G
      BY <1>8, <3>1, <3>2
    <3> QED BY <3>1, <3>3
  <2>2. below[l] = {l} \cup UNION {below[c] : c \in Kids(heap, l)}
    BY <1>7
  <2>3. l \in below[l] /\ below[l] \subseteq L
    BY <2>1, <2>2
  <2>4. ASSUME NEW m \in below[l] PROVE Kids(heap, m) \subseteq below[l]
    <3>1. CASE m = l
      BY <2>1, <2>2, <3>1
    <3>2. CASE m # l
      <4>1. PICK c \in Kids(heap, l) : m \in below[c]
        BY <2>2, <2>4, <3>2
      <4>2. Kids(heap, m) \subseteq below[c]
        BY <2>1, <4>1
      <4> QED BY <2>2, <4>1, <4>2
    <3> QED BY <3>1, <3>2
  <2> QED BY <2>3, <2>4
<1>9. L \subseteq G
  <2>1. G \in SUBSET L /\ hts \in [L -> Nat]
    BY <1>2
  <2> HIDE DEF L, G, hts
  <2> QED BY <1>8, <2>1, HeightInduction
<1>10. Closed(root)
  BY <1>1, <1>9
<1>11. L \subseteq below[root]
  BY <1>10, AllReached
<1> QED BY <1>6, <1>10, <1>11

(* What the invariant says of a file with a tree.                           *)
LEMMA InvTree ==
  ASSUME IInv, root # NoLoc
  PROVE  \E ht, K : Tree(heap, root, ht, K) /\ FileOK(heap, root, ht, K)
BY DEF IInv, FileOK

(* The parent a node has stored is the node that refers to it: the          *)
(* assertion of initFromBuf holds in every search.                          *)
LEMMA InvParents == IInv => ParentLinks
<1> SUFFICES ASSUME IInv PROVE ParentLinks
  OBVIOUS
<1>1. CASE root = NoLoc
  <2>1. Nodes = {}
    BY <1>1 DEF Nodes
  <2> QED BY <1>1, <2>1 DEF ParentLinks
<1>2. CASE root # NoLoc
  <2>1. PICK ht, K : Tree(heap, root, ht, K)
    BY <1>2, InvTree
  <2>2. heap[root].parent = NoLoc
    BY <2>1, TreeHeap
  <2>3. ASSUME NEW l \in Nodes, IsInner(l), NEW c \in ToSet(heap[l].children)
        PROVE  heap[c].parent = l
    <3>1. l \in NodesIn(heap)
      BY <2>1, <2>3, NodesAreAll
    <3>2. c \in Kids(heap, l)
      BY <2>3, <3>1 DEF Kids, IsInner
    <3> QED BY <2>1, <3>1, <3>2, KidFacts
  <2> QED BY <2>2, <2>3 DEF ParentLinks
<1> QED BY <1>1, <1>2

(* ParentLinks: the parent a node has stored is the one that refers to      *)
(* it, whatever was split and whichever child was told (updateParentLoc).   *)
THEOREM Parents == Spec => []ParentLinks
BY Invariance, InvParents, PTL

(* The height that is counted along the first children is ht.               *)
LEMMA HeightsAre ==
  ASSUME NEW ht, NEW K, Tree(heap, root, ht, K)
  PROVE  \A l \in NodesIn(heap) : Heights[l] = ht[l]
<1> DEFINE L == NodesIn(heap)
           After(f) == [l \in Nodes |-> IF IsInner(l) THEN 1 + f[Head(heap[l].children)] ELSE 0]
           height == CHOOSE height : height = After(height)
           hts == [l \in L |-> ht[l]]
<1>1. Nodes = L
  BY NodesAreAll
<1>2. hts \in [L -> Nat]
  BY TreeNode
<1>3. ASSUME NEW l \in L
      PROVE  /\ IsInner(l) => Head(heap[l].children) \in L /\ ht[l] = 1 + ht[Head(heap[l].children)]
             /\ ~IsInner(l) => ht[l] = 0
  <2>1. IsInner(l) <=> ~heap[l].isLeaf
    BY DEF IsInner, IsNode, NodesIn
  <2>2. CASE IsInner(l)
    <3>1. heap[l].children \in Seq(Locs) /\ Len(heap[l].children) >= 1
      BY <2>1, <2>2, TreeNode, TreeInner
    <3>2. Head(heap[l].children) = heap[l].children[1] /\ 1 \in DOMAIN heap[l].children
      BY <3>1
    <3>3. heap[l].children[1] \in L /\ ht[l] = ht[heap[l].children[1]] + 1
      BY <2>1, <2>2, <3>2, TreeChild
    <3>4. ht[heap[l].children[1]] \in Nat
      BY <3>3, TreeNode
    <3> QED BY <2>2, <3>2, <3>3, <3>4
  <2>3. CASE ~IsInner(l)
    BY <2>1, <2>3, TreeLeaf
  <2> QED BY <2>2, <2>3
<1>4. hts = After(hts)
  BY <1>1, <1>3
<1>5. height = After(height)
  <2> HIDE DEF After, hts
  <2> QED BY <1>4
<1>6. Heights = height
  BY DEF Heights
<1> HIDE DEF height
<1>7. \A l \in L : height[l] = IF IsInner(l) THEN 1 + height[Head(heap[l].children)] ELSE 0
  BY <1>1, <1>5
<1> DEFINE G == {l \in L : height[l] = ht[l]}
<1>8. ASSUME NEW l \in L, \A m \in L : hts[m] < hts[l] => m \in G PROVE l \in G
  <2>1. CASE IsInner(l)
    <3> DEFINE c == Head(heap[l].children)
    <3>1. c \in L /\ ht[l] = 1 + ht[c] /\ height[l] = 1 + height[c]
      BY <1>3, <1>7, <2>1
    <3>2. ht[c] \in Nat
      BY <3>1, TreeNode
    <3> HIDE DEF c
    <3>3. hts[c] < hts[l]
      BY <3>1, <3>2
    <3>4. height[c] = ht[c]
      BY <1>8, <3>1, <3>3
    <3> QED BY <3>1, <3>4
  <2>2. CASE ~IsInner(l)
    BY <1>3, <1>7, <2>2
  <2> QED BY <2>1, <2>2
<1>9. L \subseteq G
  <2>1. G \in SUBSET L
    OBVIOUS
  <2> HIDE DEF L, G, hts
  <2> QED BY <1>2, <1>8, <2>1, HeightInduction
<1> QED BY <1>6, <1>9

(* All leaves are at the same depth although removal neither borrows nor    *)
(* merges, and an inner node keeps the children that a split or the check   *)
(* of deleteNode leaves it.                                                 *)
LEMMA InvBalanced == IInv => Balanced
<1> SUFFICES ASSUME IInv PROVE Balanced
  OBVIOUS
<1>1. CASE root = NoLoc
  <2>1. Nodes = {}
    BY <1>1 DEF Nodes
  <2> QED BY <2>1 DEF Balanced
<1>2. CASE root # NoLoc
  <2>1. PICK ht, K : Tree(heap, root, ht, K) /\ FileOK(heap, root, ht, K)
    BY <1>2, InvTree
  <2>2. ASSUME NEW l \in Nodes, IsInner(l)
        PROVE  /\ \A c \in ToSet(heap[l].children) : Heights[c] = Heights[l] - 1
               /\ Len(heap[l].children) >= Min({2, BRankMin, BRankMax - Half})
    <3>1. l \in NodesIn(heap) /\ ~heap[l].isLeaf
      BY <2>1, <2>2, NodesAreAll DEF IsInner
    <3>2. Len(heap[l].children) >= LeastKids
      BY <2>1, <3>1 DEF FileOK, KidsFit
    <3>3. ASSUME NEW c \in ToSet(heap[l].children) PROVE Heights[c] = Heights[l] - 1
      <4>1. c \in Kids(heap, l)
        BY <3>1, <3>3 DEF Kids
      <4>2. c \in NodesIn(heap) /\ ht[l] = ht[c] + 1
        BY <2>1, <3>1, <4>1, KidFacts
      <4>3. Heights[c] = ht[c] /\ Heights[l] = ht[l] /\ ht[c] \in Nat
        BY <2>1, <3>1, <4>2, HeightsAre, TreeNode
      <4> QED BY <4>2, <4>3
    <3> QED BY <3>2, <3>3 DEF LeastKids
  <2> QED BY <2>2 DEF Balanced
<1> QED BY <1>1, <1>2

(* Balanced: all leaves have one depth and no inner node has too few        *)
(* children, although deleteNode neither borrows nor merges.                *)
THEOREM EqualDepth == Spec => []Balanced
BY Invariance, InvBalanced, PTL

(* The reference at place i of node p is to l.                              *)
RefersTo(h, p, i, l) == p \in NodesIn(h) /\ i \in DOMAIN h[p].children /\ h[p].children[i] = l

AllFit(h) == \A l \in NodesIn(h) : KeysFit(h, l)

(* What it refers to.                                                       *)
RefOK(h, r, p, i, l) ==
  /\ p \in NodesIn(h) /\ h[p].isLeaf \in BOOLEAN /\ i \in 1 .. BRankMax /\ l \in Locs
  /\ ~h[p].isLeaf => l \in NodesIn(h) /\ h[l].parent = p /\ l # r
  /\ h[p].isLeaf => i \in DOMAIN h[p].keys /\ <<h[p].keys[i], l>> \in Entries(h) /\ h[p].keys[i] \in Keys

(* A leaf refers to data, an inner node to nodes that know it.              *)
LEMMA RefKinds ==
  ASSUME NEW h, NEW r, NEW ht, NEW K, Tree(h, r, ht, K), AllFit(h),
         NEW p, NEW i, NEW l, RefersTo(h, p, i, l)
  PROVE  RefOK(h, r, p, i, l)
<1>1. p \in NodesIn(h) /\ i \in DOMAIN h[p].children /\ h[p].children[i] = l
  BY DEF RefersTo
<1>2. /\ p \in Locs /\ h[p].isLeaf \in BOOLEAN /\ h[p].children \in Seq(Locs)
      /\ Len(h[p].keys) \in Nat /\ DOMAIN h[p].keys = 1 .. Len(h[p].keys)
      /\ Len(h[p].children) \in Nat /\ DOMAIN h[p].children = 1 .. Len(h[p].children)
      /\ Len(h[p].children) = Len(h[p].keys) + (IF h[p].isLeaf THEN 0 ELSE 1)
  BY <1>1, TreeNode
<1>3. Len(h[p].keys) < BRankMax /\ BRankMax \in Nat
  BY <1>1, RankFacts DEF AllFit, KeysFit
<1>4. i \in 1 .. BRankMax
  <2> DEFINE n == Len(h[p].children)
             m == Len(h[p].keys)
  <2>1. n = m + (IF h[p].isLeaf THEN 0 ELSE 1) /\ m \in Nat /\ n \in Nat /\ m < BRankMax /\ BRankMax \in Nat
    BY <1>2, <1>3
  <2>2. i \in 1 .. n
    BY <1>1, <1>2
  <2> HIDE DEF n, m
  <2> QED BY <2>1, <2>2
<1>5. ASSUME ~h[p].isLeaf PROVE l \in NodesIn(h) /\ h[l].parent = p /\ l # r
  <2>1. l \in NodesIn(h) /\ h[l].parent = p
    BY <1>1, <1>5, TreeChild
  <2>2. p # NoLoc
    BY <1>2, LocAssumption DEF Locs, NoLoc
  <2> QED BY <2>1, <2>2, TreeHeap
<1>6. ASSUME h[p].isLeaf
      PROVE  i \in DOMAIN h[p].keys /\ <<h[p].keys[i], l>> \in Entries(h) /\ h[p].keys[i] \in Keys
  <2>1. i \in DOMAIN h[p].keys
    BY <1>1, <1>2, <1>6
  <2> QED BY <1>1, <1>6, <2>1, LeafEntry
<1>7. l \in Locs
  <2>1. i \in 1 .. Len(h[p].children) /\ h[p].children[i] = l
    BY <1>1, <1>2
  <2>2. \A j \in 1 .. Len(h[p].children) : h[p].children[j] \in Locs
    BY <1>2, ListFacts
  <2> QED BY <2>1, <2>2
<1> QED BY <1>1, <1>2, <1>4, <1>5, <1>6, <1>7 DEF RefOK

(* How many references a place of the file has.                             *)
LEMMA RefCount ==
  ASSUME NEW ht, NEW K, Tree(heap, root, ht, K), AllFit(heap), DataOK(heap),
         NEW l \in Locs
  PROVE  /\ l = root \/ heap[l] = Free => \A p, i : ~RefersTo(heap, p, i, l)
         /\ l # root /\ heap[l] # Free => \E p, i : /\ RefersTo(heap, p, i, l)
                                                    /\ \A q, j : RefersTo(heap, q, j, l) => q = p /\ j = i
         /\ \A p, i : RefersTo(heap, p, i, l) => (IsNode(l) <=> IsInner(p))
<1> DEFINE L == NodesIn(heap)
<1>1. /\ heap \in Heaps /\ L \subseteq Locs /\ root \in L
      /\ l \in FreeLocs(heap) \/ l \in DataIn(heap) \/ l \in L
      /\ l \in FreeLocs(heap) <=> heap[l] = Free
      /\ l \in FreeLocs(heap) => l \notin DataIn(heap) /\ l \notin L
      /\ l \in DataIn(heap) => l \notin L
  BY TreeHeap, PlaceKinds
<1>2. ASSUME NEW p, NEW i, RefersTo(heap, p, i, l), heap[p].isLeaf
      PROVE  l \in DataIn(heap) /\ i \in DOMAIN heap[p].keys /\ heap[p].keys[i] \in Keys
             /\ <<heap[p].keys[i], l>> \in Entries(heap)
  <2>1. /\ i \in DOMAIN heap[p].keys /\ heap[p].keys[i] \in Keys /\ <<heap[p].keys[i], l>> \in Entries(heap)
    BY <1>2, RefKinds DEF RefOK
  <2>2. l \in DataIn(heap)
    <3> DEFINE e == <<heap[p].keys[i], l>>
    <3>1. e \in Entries(heap) /\ e[2] = l
      BY <2>1
    <3> HIDE DEF e
    <3> QED BY <3>1 DEF DataOK
  <2> QED BY <2>1, <2>2
<1>3. ASSUME NEW p, NEW i, RefersTo(heap, p, i, l), ~heap[p].isLeaf
      PROVE  l \in L /\ heap[l].parent = p /\ l # root
  <2>1. RefOK(heap, root, p, i, l)
    BY <1>3, RefKinds
  <2> QED BY <1>3, <2>1 DEF RefOK
<1>4. ASSUME l = root \/ heap[l] = Free, NEW p, NEW i PROVE ~RefersTo(heap, p, i, l)
  BY <1>1, <1>2, <1>3, <1>4
<1>5. ASSUME NEW p, NEW i, RefersTo(heap, p, i, l) PROVE IsNode(l) <=> IsInner(p)
  <2>1. p \in L /\ heap[p].isLeaf \in BOOLEAN
    BY <1>5, RefKinds DEF RefOK
  <2>2. IsNode(l) <=> l \in L
    BY DEF IsNode, NodesIn
  <2>3. IsInner(p) <=> ~heap[p].isLeaf
    BY <2>1 DEF IsInner, IsNode, NodesIn
  <2> QED BY <1>1, <1>2, <1>3, <1>5, <2>1, <2>2, <2>3
<1>6. ASSUME l # root, heap[l] # Free
      PROVE  \E p, i : /\ RefersTo(heap, p, i, l)
                       /\ \A q, j : RefersTo(heap, q, j, l) => q = p /\ j = i
  <2>1. CASE l \in L
    <3> DEFINE p == heap[l].parent
    <3>1. p \in L /\ ~heap[p].isLeaf /\ \E i \in DOMAIN heap[p].children : heap[p].children[i] = l
      BY <1>6, <2>1, TreeParent
    <3> HIDE DEF p
    <3>2. PICK i \in DOMAIN heap[p].children : heap[p].children[i] = l
      BY <3>1
    <3>3. IsInjective(heap[p].children)
      BY <3>1, TreeInner
    <3>4. ASSUME NEW q, NEW j, RefersTo(heap, q, j, l) PROVE q = p /\ j = i
      <4>1. ~heap[q].isLeaf
        BY <1>1, <1>2, <2>1, <3>4
      <4>2. q = p
        BY <1>3, <3>4, <4>1 DEF p
      <4>3. j \in DOMAIN heap[p].children /\ heap[p].children[j] = l
        BY <3>4, <4>2 DEF RefersTo
      <4> QED BY <3>2, <3>3, <4>2, <4>3 DEF IsInjective
    <3>5. RefersTo(heap, p, i, l)
      BY <3>1, <3>2 DEF RefersTo
    <3> QED BY <3>4, <3>5
  <2>2. CASE l \in DataIn(heap)
    <3>1. PICK e \in Entries(heap) : e[2] = l
      BY <2>2 DEF DataOK
    <3> DEFINE k == e[1]
    <3>2. k \in Keys /\ e = <<k, l>>
      BY <1>1, <3>1, EntryFacts
    <3> HIDE DEF k
    <3>3. PICK p \in L : heap[p].isLeaf /\ \E i \in DOMAIN heap[p].keys : k = heap[p].keys[i] /\ l = heap[p].children[i]
      BY <1>1, <3>1, <3>2, EntryFacts
    <3>4. PICK i \in DOMAIN heap[p].keys : k = heap[p].keys[i] /\ l = heap[p].children[i]
      BY <3>3
    <3>5. RefersTo(heap, p, i, l)
      BY <3>3, <3>4, LeafEntry DEF RefersTo
    <3>6. Way(heap, root, k, PathTo(k))
      BY <3>2, PathIsWay
    <3>7. p = Last(PathTo(k)) /\ i = Below(heap[p].keys, k)
      BY <3>2, <3>3, <3>4, <3>6, OnlyThere
    <3>8. ASSUME NEW q, NEW j, RefersTo(heap, q, j, l) PROVE q = p /\ j = i
      <4>1. heap[q].isLeaf /\ q \in L
        <5>1. q \in L /\ heap[q].isLeaf \in BOOLEAN
          BY <3>8, RefKinds DEF RefOK
        <5> QED BY <1>1, <1>3, <2>2, <3>8, <5>1
      <4>2. j \in DOMAIN heap[q].keys /\ <<heap[q].keys[j], l>> \in Entries(heap)
        BY <1>2, <3>8, <4>1
      <4>3. heap[q].keys[j] = k
        <5> DEFINE f == <<heap[q].keys[j], l>>
        <5>1. f \in Entries(heap) /\ f[1] = heap[q].keys[j] /\ f[2] = l
          BY <4>2
        <5>2. e[1] = k /\ e[2] = l
          BY <3>2
        <5> HIDE DEF f
        <5> QED BY <3>1, <5>1, <5>2 DEF DataOK
      <4>4. q = Last(PathTo(k)) /\ j = Below(heap[q].keys, k)
        BY <3>2, <3>6, <4>1, <4>2, <4>3, OnlyThere
      <4> QED BY <3>7, <4>4
    <3> QED BY <3>5, <3>8
  <2> QED BY <1>1, <1>6, <2>1, <2>2
<1> QED BY <1>4, <1>5, <1>6

(* Every record of the file is the root or is referred to once, as a child  *)
(* by an inner node or as data by a leaf: no operation leaks a record,      *)
(* frees one in use or leaves a second reference to it.                     *)
LEMMA InvExact == IInv => HeapExact
<1> SUFFICES ASSUME IInv, status # "dangling", NEW l \in Locs
             PROVE LET refs == {ref \in Nodes \X (1 .. BRankMax) :
                                 /\ ref[2] \in DOMAIN heap[ref[1]].children
                                 /\ heap[ref[1]].children[ref[2]] = l}
                   IN  /\ Cardinality(refs) = IF l = root \/ heap[l] = Free THEN 0 ELSE 1
                       /\ \A ref \in refs : IsNode(l) <=> IsInner(ref[1])
  BY DEF HeapExact
<1> DEFINE refs == {ref \in Nodes \X (1 .. BRankMax) :
                     /\ ref[2] \in DOMAIN heap[ref[1]].children
                     /\ heap[ref[1]].children[ref[2]] = l}
<1>1. CASE root = NoLoc
  <2>1. Nodes = {} /\ heap[l] = Free
    BY <1>1 DEF Nodes, IInv
  <2>2. refs = {}
    BY <2>1
  <2> HIDE DEF refs
  <2>3. Cardinality(refs) = 0
    BY <2>2, FS_EmptySet
  <2> QED BY <2>1, <2>2, <2>3 DEF refs
<1>2. CASE root # NoLoc
  <2>1. PICK ht, K : Tree(heap, root, ht, K) /\ FileOK(heap, root, ht, K)
    BY <1>2, InvTree
  <2>2. Nodes = NodesIn(heap)
    BY <2>1, NodesAreAll
  <2>3. AllFit(heap) /\ DataOK(heap)
    BY <2>1 DEF AllFit, FileOK, IInv
  <2>4. \A ref : ref \in refs <=> \E p, i : ref = <<p, i>> /\ RefersTo(heap, p, i, l)
    <3>1. ASSUME NEW ref \in refs PROVE \E p, i : ref = <<p, i>> /\ RefersTo(heap, p, i, l)
      <4>1. ref = <<ref[1], ref[2]>> /\ RefersTo(heap, ref[1], ref[2], l)
        BY <2>2, <3>1 DEF RefersTo
      <4> QED BY <4>1
    <3>2. ASSUME NEW p, NEW i, RefersTo(heap, p, i, l) PROVE <<p, i>> \in refs
      <4>1. p \in NodesIn(heap) /\ i \in 1 .. BRankMax
        BY <2>1, <2>3, <3>2, RefKinds DEF RefOK
      <4> QED BY <2>2, <3>2, <4>1 DEF RefersTo
    <3> QED BY <3>1, <3>2
  <2> HIDE DEF refs
  <2>5. \A ref \in refs : IsNode(l) <=> IsInner(ref[1])
    <3>1. ASSUME NEW ref \in refs PROVE IsNode(l) <=> IsInner(ref[1])
      <4>1. PICK p, i : ref = <<p, i>> /\ RefersTo(heap, p, i, l)
        BY <2>4
      <4>2. ref[1] = p
        BY <4>1
      <4>3. IsNode(l) <=> IsInner(p)
        BY <2>1, <2>3, <4>1, RefCount
      <4> QED BY <4>2, <4>3
    <3> QED BY <3>1
  <2>6. CASE l = root \/ heap[l] = Free
    <3>1. \A p, i : ~RefersTo(heap, p, i, l)
      BY <2>1, <2>3, <2>6, RefCount
    <3>2. refs = {}
      BY <2>4, <3>1
    <3>3. Cardinality(refs) = 0
      BY <3>2, FS_EmptySet
    <3> QED BY <2>5, <2>6, <3>3 DEF refs
  <2>7. CASE ~(l = root \/ heap[l] = Free)
    <3>1. PICK p, i : /\ RefersTo(heap, p, i, l)
                      /\ \A q, j : RefersTo(heap, q, j, l) => q = p /\ j = i
      BY <2>1, <2>3, <2>7, RefCount
    <3> DEFINE ref == <<p, i>>
    <3>2. refs = {ref}
      BY <2>4, <3>1
    <3> HIDE DEF ref
    <3>3. Cardinality(refs) = 1
      BY <3>2, FS_Singleton
    <3> QED BY <2>5, <2>7, <3>3 DEF refs
  <2> QED BY <2>6, <2>7
<1> QED BY <1>1, <1>2

(* HeapExact: insert, update and remove leak no record of the file, free    *)
(* none in use and leave no second reference to one.                        *)
THEOREM Exact == Spec => []HeapExact
BY Invariance, InvExact, PTL

-----------------------------------------------------------------------------
(* The traversal *)

(* A list in ascending order after another with lower elements.             *)
LEMMA ConcatAscends ==
  ASSUME NEW a \in Seq(Int), NEW b \in Seq(Int), Ascending(a), Ascending(b),
         \A x \in ToSet(a), y \in ToSet(b) : x < y
  PROVE  Ascending(a \o b) /\ ToSet(a \o b) = ToSet(a) \cup ToSet(b)
<1> DEFINE c == a \o b
           m == Len(a)
           n == Len(b)
<1>1. /\ c \in Seq(Int) /\ Len(c) = m + n /\ m \in Nat /\ n \in Nat
      /\ \A j \in 1 .. m + n : c[j] = IF j <= m THEN a[j] ELSE b[j - m]
  BY ConcatAt
<1>2. /\ DOMAIN a = 1 .. m /\ DOMAIN b = 1 .. n
      /\ \A j \in 1 .. m : a[j] \in Int /\ a[j] \in ToSet(a)
      /\ \A j \in 1 .. n : b[j] \in Int /\ b[j] \in ToSet(b)
  BY ListFacts
<1>3. DOMAIN c = 1 .. m + n
  BY <1>1
<1>4. (\A i, j \in 1 .. m : i < j => a[i] < a[j]) /\ (\A i, j \in 1 .. n : i < j => b[i] < b[j])
  BY <1>2 DEF Ascending
<1> HIDE DEF c, m, n
<1>5. \A j \in 1 .. m + n : \/ j \in 1 .. m /\ c[j] = a[j]
                            \/ j > m /\ j - m \in 1 .. n /\ c[j] = b[j - m]
  <2>1. ASSUME NEW j \in 1 .. m + n
        PROVE  \/ j \in 1 .. m /\ c[j] = a[j]
               \/ j > m /\ j - m \in 1 .. n /\ c[j] = b[j - m]
    <3>1. CASE j <= m
      <4>1. j \in 1 .. m
        BY <1>1, <3>1
      <4> QED BY <1>1, <3>1, <4>1
    <3>2. CASE j > m
      <4>1. j - m \in 1 .. n /\ ~(j <= m)
        BY <1>1, <3>2
      <4> QED BY <1>1, <3>2, <4>1
    <3> QED BY <1>1, <3>1, <3>2
  <2> QED BY <2>1
<1>6. ASSUME NEW i \in 1 .. m + n, NEW j \in 1 .. m + n, i < j PROVE c[i] < c[j]
  <2>1. CASE i \in 1 .. m /\ c[i] = a[i]
    <3>1. CASE j \in 1 .. m /\ c[j] = a[j]
      BY <1>4, <1>6, <2>1, <3>1
    <3>2. CASE j > m /\ j - m \in 1 .. n /\ c[j] = b[j - m]
      BY <1>2, <2>1, <3>2
    <3> QED BY <1>5, <3>1, <3>2
  <2>2. CASE i > m /\ i - m \in 1 .. n /\ c[i] = b[i - m]
    <3>1. j > m
      BY <1>1, <1>6, <2>2
    <3>2. j - m \in 1 .. n /\ c[j] = b[j - m]
      <4>1. ~(j \in 1 .. m)
        BY <1>1, <3>1
      <4> QED BY <1>5, <4>1
    <3>3. i - m < j - m
      BY <1>1, <1>6
    <3> QED BY <1>4, <2>2, <3>2, <3>3
  <2> QED BY <1>5, <2>1, <2>2
<1>7. ToSet(c) = {c[j] : j \in 1 .. m + n} /\ ToSet(a) = {a[j] : j \in 1 .. m} /\ ToSet(b) = {b[j] : j \in 1 .. n}
  BY <1>2, <1>3 DEF ToSet
<1>8. ASSUME NEW x \in ToSet(a) PROVE x \in ToSet(c)
  <2>1. PICK j \in 1 .. m : x = a[j]
    BY <1>7
  <2>2. j \in 1 .. m + n /\ c[j] = a[j]
    BY <1>1
  <2> QED BY <1>7, <2>1, <2>2
<1>9. ASSUME NEW x \in ToSet(b) PROVE x \in ToSet(c)
  <2>1. PICK j \in 1 .. n : x = b[j]
    BY <1>7
  <2> DEFINE i == m + j
  <2>2. i \in 1 .. m + n /\ ~(i <= m) /\ i - m = j
    BY <1>1
  <2> HIDE DEF i
  <2>3. c[i] = b[j]
    BY <1>1, <2>2
  <2> QED BY <1>7, <2>1, <2>2, <2>3
<1>10. ToSet(c) \subseteq ToSet(a) \cup ToSet(b)
  <2>1. ASSUME NEW x \in ToSet(c) PROVE x \in ToSet(a) \cup ToSet(b)
    <3>1. PICK j \in 1 .. m + n : x = c[j]
      BY <1>7
    <3> QED BY <1>2, <1>5, <3>1
  <2> QED BY <2>1
<1>11. Ascending(c)
  BY <1>3, <1>6 DEF Ascending
<1> QED BY <1>8, <1>9, <1>10, <1>11 DEF c

(* Lists in ascending order, each below the next.                           *)
Ladder(ss, n) ==
  /\ \A i \in 1 .. n : Ascending(ss[i])
  /\ \A i, j \in 1 .. n : i < j => \A x \in ToSet(ss[i]), y \in ToSet(ss[j]) : x < y

Joined(ss, n, S) ==
  /\ FlattenSeq(ss) \in Seq(S)
  /\ Ladder(ss, n) => /\ Ascending(FlattenSeq(ss))
                      /\ \A x : x \in ToSet(FlattenSeq(ss)) <=> \E i \in 1 .. n : x \in ToSet(ss[i])

(* Flattening them gives one list in ascending order.                       *)
LEMMA FlattenAscends ==
  ASSUME NEW S, \A s \in Seq(S) : s \in Seq(Int)
  PROVE  \A n \in Nat : \A ss \in [1 .. n -> Seq(S)] : Joined(ss, n, S)
<1> DEFINE N == {n \in Nat : \A ss \in [1 .. n -> Seq(S)] : Joined(ss, n, S)}
<1>1. <<>> \in Seq(S) /\ ToSet(<<>>) = {} /\ Ascending(<<>>)
  BY DEF ToSet, Ascending
<1>2. 0 \in N
  <2>1. ASSUME NEW ss \in [1 .. 0 -> Seq(S)] PROVE Joined(ss, 0, S)
    <3> DEFINE more == [i \in 1 .. 0 + 1 |-> <<>>]
    <3>1. more \in [1 .. 0 + 1 -> Seq(S)] /\ \A i \in 1 .. 0 : more[i] = ss[i]
      BY <1>1
    <3> HIDE DEF more
    <3>2. FlattenSeq(ss) = <<>>
      <4>1. 0 \in Nat
        OBVIOUS
      <4> QED BY <3>1, <4>1, FlattenFacts
    <3>3. 1 .. 0 = {}
      OBVIOUS
    <3> QED BY <1>1, <3>2, <3>3 DEF Joined
  <2> QED BY <2>1
<1>3. ASSUME NEW n \in Nat, n \in N PROVE n + 1 \in N
  <2>1. ASSUME NEW ss \in [1 .. n + 1 -> Seq(S)] PROVE Joined(ss, n + 1, S)
    <3> DEFINE tt == [i \in 1 .. n |-> ss[i]]
               a == FlattenSeq(tt)
               b == ss[n + 1]
    <3>0. /\ 1 .. n + 1 = (1 .. n) \cup {n + 1} /\ \A i \in 1 .. n : i < n + 1
          /\ \A i \in 1 .. n + 1 : ss[i] \in Seq(S)
      OBVIOUS
    <3>1. tt \in [1 .. n -> Seq(S)] /\ \A i \in 1 .. n : ss[i] = tt[i]
      BY <3>0
    <3>2. b \in Seq(S) /\ b \in Seq(Int)
      BY <3>0
    <3> HIDE DEF tt
    <3>3. a \in Seq(S) /\ FlattenSeq(ss) = a \o b /\ a \in Seq(Int)
      <4>1. /\ FlattenSeq(tt) \in Seq(S)
            /\ FlattenSeq(ss) = FlattenSeq(tt) \o ss[n + 1]
            /\ n = 0 => FlattenSeq(tt) = <<>>
        <5>1. tt \in [1 .. n -> Seq(S)]
          BY <3>1
        <5>2. \A i \in 1 .. n : ss[i] = tt[i]
          BY <3>1
        <5> QED BY <5>1, <5>2, FlattenFacts, ZenonT(40)
      <4> QED BY <4>1
    <3>4. Joined(tt, n, S)
      BY <1>3, <3>1
    <3>5. a \o b \in Seq(S)
      BY <3>2, <3>3, ConcatAt
    <3>6. ASSUME Ladder(ss, n + 1)
          PROVE  /\ Ascending(a \o b)
                 /\ \A x : x \in ToSet(a \o b) <=> \E i \in 1 .. n + 1 : x \in ToSet(ss[i])
      <4>1. Ladder(tt, n)
        BY <3>0, <3>1, <3>6 DEF Ladder
      <4>2. Ascending(a) /\ \A x : x \in ToSet(a) <=> \E i \in 1 .. n : x \in ToSet(tt[i])
        BY <3>4, <4>1 DEF Joined
      <4>3. Ascending(b)
        BY <3>0, <3>6 DEF Ladder
      <4>4. \A x : x \in ToSet(a) <=> \E i \in 1 .. n : x \in ToSet(ss[i])
        BY <3>1, <4>2
      <4>5. ASSUME NEW x \in ToSet(a), NEW y \in ToSet(b) PROVE x < y
        <5>1. PICK i \in 1 .. n : x \in ToSet(ss[i])
          BY <4>4
        <5> QED BY <3>0, <3>6, <5>1 DEF Ladder
      <4> HIDE DEF a, b
      <4>6. Ascending(a \o b) /\ ToSet(a \o b) = ToSet(a) \cup ToSet(b)
        BY <3>2, <3>3, <4>2, <4>3, <4>5, ConcatAscends
      <4>7. \A x : x \in ToSet(a \o b) <=> (\E i \in 1 .. n : x \in ToSet(ss[i])) \/ x \in ToSet(ss[n + 1])
        BY <4>4, <4>6 DEF b
      <4> QED BY <3>0, <4>6, <4>7
    <3> QED BY <3>3, <3>5, <3>6 DEF Joined
  <2> QED BY <2>1
<1>4. Nat \subseteq N
  <2> HIDE DEF N
  <2> QED BY <1>2, <1>3, NatInductionSet
<1> QED BY <1>4

(* The keys below the children of a node are separated by its keys.         *)
LEMMA ChildrenAscend ==
  ASSUME NEW h, NEW r, NEW ht, NEW K, Tree(h, r, ht, K), NEW l \in NodesIn(h), ~h[l].isLeaf,
         NEW i \in DOMAIN h[l].children, NEW j \in DOMAIN h[l].children, i < j,
         NEW x \in K[h[l].children[i]], NEW y \in K[h[l].children[j]]
  PROVE  x < y
<1> DEFINE keys == h[l].keys
           n == Len(keys)
<1>1. keys \in Seq(Keys) /\ n \in Nat /\ Ascending(keys) /\ DOMAIN keys = 1 .. n
  BY TreeNode
<1>2. DOMAIN h[l].children = 1 .. n + 1
  <2>1. /\ DOMAIN h[l].children = 1 .. Len(h[l].children)
        /\ Len(h[l].children) = Len(h[l].keys) + (IF h[l].isLeaf THEN 0 ELSE 1)
    BY TreeNode
  <2> QED BY <2>1
<1>3. x \in Int /\ y \in Int /\ \A m \in 1 .. n : keys[m] \in Int
  <2>1. h[l].children[i] \in NodesIn(h) /\ h[l].children[j] \in NodesIn(h)
    BY TreeChild
  <2>2. x \in Keys /\ y \in Keys
    BY <2>1, TreeNode
  <2>3. \A m \in 1 .. n : keys[m] \in Keys
    BY <1>1, ListFacts
  <2> QED BY <2>2, <2>3, KeyLists
<1>4. Between(keys, i, x) /\ Between(keys, j, y)
  BY TreeChild
<1>5. i \in 1 .. n + 1 /\ j \in 1 .. n + 1
  BY <1>2
<1> HIDE DEF keys, n
<1>6. i \in 1 .. n /\ j - 1 \in 1 .. n /\ i <= j - 1 /\ j > 1
  BY <1>1, <1>5
<1>7. i <= Len(keys)
  BY <1>6 DEF n
<1>8. x < keys[i] /\ keys[j - 1] <= y
  BY <1>4, <1>6, <1>7 DEF Between
<1>9. keys[i] <= keys[j - 1]
  <2>1. CASE i = j - 1
    BY <1>3, <1>6, <2>1
  <2>2. CASE i # j - 1
    <3>1. i < j - 1
      BY <1>6, <2>2
    <3>2. keys[i] < keys[j - 1]
      BY <1>1, <1>6, <3>1 DEF Ascending
    <3> QED BY <1>3, <1>6, <3>2
  <2> QED BY <2>1, <2>2
<1>10. keys[i] \in Int /\ keys[j - 1] \in Int
  BY <1>3, <1>6
<1> QED BY <1>3, <1>8, <1>9, <1>10

(* The list for one node, from those for its children.                      *)
ListOf(l, f) ==
  IF IsInner(l) THEN FlattenSeq([i \in DOMAIN heap[l].children |-> f[heap[l].children[i]]])
                ELSE heap[l].keys

(* It is in Seq(Keys), and in ascending order what is below the node.       *)
Listing(l, s, K) == s \in Seq(Keys) /\ Ascending(s) /\ \A x : x \in ToSet(s) <=> x \in K[l]

(* If the lists of the children ascend and hold their key sets, so does the *)
(* list of the node.                                                        *)
LEMMA ListOfFacts ==
  ASSUME NEW ht, NEW K, Tree(heap, root, ht, K), NEW l \in NodesIn(heap),
         NEW f \in [NodesIn(heap) -> Seq(Keys)]
  PROVE  /\ ListOf(l, f) \in Seq(Keys)
         /\ (\A c \in Kids(heap, l) : Listing(c, f[c], K)) => Listing(l, ListOf(l, f), K)
<1>1. IsInner(l) <=> ~heap[l].isLeaf
  BY DEF IsInner, IsNode, NodesIn
<1>2. /\ heap[l].keys \in Seq(Keys) /\ Ascending(heap[l].keys)
      /\ heap[l].isLeaf => K[l] = ToSet(heap[l].keys)
      /\ Len(heap[l].children) \in Nat /\ DOMAIN heap[l].children = 1 .. Len(heap[l].children)
  BY TreeNode
<1>3. CASE heap[l].isLeaf
  <2>1. ListOf(l, f) = heap[l].keys
    BY <1>1, <1>3 DEF ListOf
  <2> QED BY <1>2, <1>3, <2>1 DEF Listing
<1>4. CASE ~heap[l].isLeaf
  <2> DEFINE n == Len(heap[l].children)
             ss == [i \in 1 .. n |-> f[heap[l].children[i]]]
  <2>1. ListOf(l, f) = FlattenSeq(ss)
    BY <1>1, <1>2, <1>4 DEF ListOf
  <2>2. \A i \in 1 .. n : heap[l].children[i] \in NodesIn(heap) /\ heap[l].children[i] \in Kids(heap, l)
    <3>1. ASSUME NEW i \in 1 .. n PROVE heap[l].children[i] \in NodesIn(heap) /\ heap[l].children[i] \in Kids(heap, l)
      <4>1. i \in DOMAIN heap[l].children
        BY <1>2
      <4> QED BY <1>4, <4>1, TreeChild DEF Kids, ToSet
    <3> QED BY <3>1
  <2>3. ss \in [1 .. n -> Seq(Keys)] /\ \A i \in 1 .. n : ss[i] = f[heap[l].children[i]]
    BY <2>2
  <2>4. n \in Nat /\ \A i \in 1 .. n : i \in DOMAIN heap[l].children
    BY <1>2
  <2> HIDE DEF ss, n
  <2>5. Joined(ss, n, Keys)
    BY <2>3, <2>4, KeyLists, FlattenAscends
  <2>6. ASSUME \A c \in Kids(heap, l) : Listing(c, f[c], K)
        PROVE  Listing(l, FlattenSeq(ss), K)
    <3>1. \A i \in 1 .. n : Ascending(ss[i]) /\ \A x : x \in ToSet(ss[i]) <=> x \in K[heap[l].children[i]]
      BY <2>2, <2>3, <2>6 DEF Listing
    <3>2. ASSUME NEW i \in 1 .. n, NEW j \in 1 .. n, i < j, NEW x \in ToSet(ss[i]), NEW y \in ToSet(ss[j])
          PROVE  x < y
      <4>1. x \in K[heap[l].children[i]] /\ y \in K[heap[l].children[j]]
        BY <3>1
      <4>2. i \in DOMAIN heap[l].children /\ j \in DOMAIN heap[l].children
        BY <2>4
      <4> QED BY <1>4, <3>2, <4>1, <4>2, ChildrenAscend
    <3>3. Ladder(ss, n)
      BY <3>1, <3>2 DEF Ladder
    <3>4. /\ FlattenSeq(ss) \in Seq(Keys) /\ Ascending(FlattenSeq(ss))
          /\ \A x : x \in ToSet(FlattenSeq(ss)) <=> \E i \in 1 .. n : x \in ToSet(ss[i])
      BY <2>5, <3>3 DEF Joined
    <3>5. ASSUME NEW x, x \in ToSet(FlattenSeq(ss)) PROVE x \in K[l]
      <4>1. PICK i \in 1 .. n : x \in ToSet(ss[i])
        BY <3>4, <3>5
      <4>2. x \in K[heap[l].children[i]] /\ i \in DOMAIN heap[l].children
        BY <2>4, <3>1, <4>1
      <4>3. K[heap[l].children[i]] \subseteq K[l]
        BY <1>4, <4>2, TreeChild
      <4> QED BY <4>2, <4>3
    <3>6. ASSUME NEW x, x \in K[l] PROVE x \in ToSet(FlattenSeq(ss))
      <4>1. PICK i \in DOMAIN heap[l].children : x \in K[heap[l].children[i]]
        BY <1>4, <3>6, TreeInner
      <4>2. i \in 1 .. n
        BY <1>2 DEF n
      <4> QED BY <3>1, <3>4, <4>1, <4>2
    <3> QED BY <3>4, <3>5, <3>6 DEF Listing
  <2>7. FlattenSeq(ss) \in Seq(Keys)
    BY <2>5 DEF Joined
  <2> QED BY <2>1, <2>6, <2>7
<1> QED BY <1>2, <1>3, <1>4

(* What traverse meets is the list for the root.                            *)
LEMMA TraversalLists ==
  ASSUME NEW ht, NEW K, Tree(heap, root, ht, K)
  PROVE  Listing(root, Traversal, K)
<1> DEFINE L == NodesIn(heap)
           After(f) == [l \in Nodes |->
                          IF IsInner(l) THEN FlattenSeq([i \in DOMAIN heap[l].children |-> f[heap[l].children[i]]])
                                        ELSE heap[l].keys]
           step == [f \in [L -> Seq(Keys)] |-> After(f)]
           keys == CHOOSE keys : keys = After(keys)
           hts == [l \in L |-> ht[l]]
           top == ht[root] + 1
<1>1. Nodes = L /\ root \in L /\ L \subseteq Locs
  BY NodesAreAll, TreeHeap
<1>2. /\ hts \in [L -> Nat] /\ top \in Nat /\ \A l \in L : hts[l] < top
      /\ \A l \in L : ht[l] \in Nat
  <2>1. \A l \in L : ht[l] \in Nat /\ ht[l] <= ht[root] /\ ht[root] \in Nat
    BY TreeNode
  <2> QED BY <1>1, <2>1
<1>3. \A f : \A l \in L : After(f)[l] = ListOf(l, f)
  BY <1>1 DEF ListOf
<1>4. ASSUME NEW l \in L, NEW c \in Kids(heap, l) PROVE c \in L /\ hts[c] < hts[l]
  <2>1. c \in L /\ ht[l] = ht[c] + 1
    BY <1>4, KidFacts
  <2> QED BY <1>2, <2>1
<1>5. \A f \in [L -> Seq(Keys)] : After(f) \in [L -> Seq(Keys)]
  <2>1. ASSUME NEW f \in [L -> Seq(Keys)], NEW l \in L PROVE After(f)[l] \in Seq(Keys)
    BY <1>3, ListOfFacts
  <2> QED BY <1>1, <2>1
<1>6. \E f : f = After(f)
  <2>1. step \in [[L -> Seq(Keys)] -> [L -> Seq(Keys)]]
    <3> HIDE DEF After
    <3> QED BY <1>5
  <2>2. ASSUME NEW f \in [L -> Seq(Keys)], NEW g \in [L -> Seq(Keys)], NEW l \in L,
               \A m \in L : hts[m] < hts[l] => f[m] = g[m]
        PROVE  step[f][l] = step[g][l]
    <3>1. ASSUME IsInner(l), NEW i \in DOMAIN heap[l].children
          PROVE  f[heap[l].children[i]] = g[heap[l].children[i]]
      <4>1. heap[l].children[i] \in Kids(heap, l)
        BY <3>1 DEF Kids, ToSet, IsInner
      <4> QED BY <1>4, <2>2, <4>1
    <3>2. IsInner(l) => [i \in DOMAIN heap[l].children |-> f[heap[l].children[i]]]
                          = [i \in DOMAIN heap[l].children |-> g[heap[l].children[i]]]
      BY <3>1
    <3>3. ListOf(l, f) = ListOf(l, g)
      BY <3>2 DEF ListOf
    <3>4. step[f] = After(f) /\ step[g] = After(g)
      OBVIOUS
    <3> HIDE DEF After, step
    <3> QED BY <1>3, <3>3, <3>4
  <2>3. Seq(Keys) # {}
    <3>1. <<>> \in Seq(Keys)
      OBVIOUS
    <3> QED BY <3>1
  <2>4. Descends(step, L, Seq(Keys), hts, top)
    <3> HIDE DEF step, hts, top, L
    <3> QED BY <1>2, <2>1, <2>2, <2>3 DEF Descends
  <2>5. PICK f \in [L -> Seq(Keys)] : f = step[f]
    <3> HIDE DEF step, hts, top, L
    <3> QED BY <2>4, RecursionExists
  <2>6. step[f] = After(f)
    BY <2>5
  <2> HIDE DEF After, step
  <2> QED BY <2>5, <2>6
<1>7. keys = After(keys)
  <2> HIDE DEF After
  <2> QED BY <1>6
<1>8. Traversal = keys[root]
  <2>1. root # NoLoc
    BY <1>1 DEF Locs, NoLoc
  <2> QED BY <2>1 DEF Traversal
<1> HIDE DEF keys
<1>9. \A l \in L : keys[l] = ListOf(l, keys)
  <2> HIDE DEF After
  <2> QED BY <1>3, <1>7
<1>10. DOMAIN keys = L
  BY <1>1, <1>7
<1> DEFINE G == {l \in L : Listing(l, keys[l], K)}
<1>11. ASSUME NEW l \in L, \A m \in L : hts[m] < hts[l] => m \in G PROVE l \in G
  (* keys is not known to have lists elsewhere: g has them everywhere.      *)
  <2> DEFINE g == [m \in L |-> IF m \in Kids(heap, l) THEN keys[m] ELSE <<>>]
  <2>1. ASSUME NEW c \in Kids(heap, l) PROVE c \in L /\ Listing(c, keys[c], K)
    BY <1>4, <1>11
  <2>2. g \in [L -> Seq(Keys)]
    <3>1. <<>> \in Seq(Keys)
      OBVIOUS
    <3> QED BY <2>1, <3>1 DEF Listing
  <2>3. \A c \in Kids(heap, l) : g[c] = keys[c]
    BY <2>1
  <2> HIDE DEF g
  <2>4. ListOf(l, g) = ListOf(l, keys)
    <3>1. ASSUME IsInner(l), NEW i \in DOMAIN heap[l].children
          PROVE  g[heap[l].children[i]] = keys[heap[l].children[i]]
      <4>1. heap[l].children[i] \in Kids(heap, l)
        BY <3>1 DEF Kids, ToSet, IsInner
      <4> QED BY <2>3, <4>1
    <3>2. IsInner(l) => [i \in DOMAIN heap[l].children |-> g[heap[l].children[i]]]
                          = [i \in DOMAIN heap[l].children |-> keys[heap[l].children[i]]]
      BY <3>1
    <3> QED BY <3>2 DEF ListOf
  <2>5. \A c \in Kids(heap, l) : Listing(c, g[c], K)
    BY <2>1, <2>3
  <2>6. Listing(l, ListOf(l, g), K)
    BY <2>2, <2>5, ListOfFacts
  <2> QED BY <1>9, <2>4, <2>6
<1>12. L \subseteq G
  <2>1. G \in SUBSET L /\ hts \in [L -> Nat]
    BY <1>2
  <2>2. \A l \in L : (\A m \in L : hts[m] < hts[l] => m \in G) => l \in G
    <3> HIDE DEF L, G, hts
    <3> QED BY <1>11
  <2> HIDE DEF L, G, hts
  <2> QED BY <2>1, <2>2, HeightInduction
<1> QED BY <1>1, <1>8, <1>12

(* traverse meets the keys in ascending order, once each, and exactly those *)
(* that searchNode finds by way of the separators, after any splits and     *)
(* removals.                                                                *)
LEMMA InvTraversal == IInv => TraversalIsSearch
<1> SUFFICES ASSUME IInv PROVE TraversalIsSearch
  OBVIOUS
<1>1. CASE root = NoLoc
  <2>1. Traversal = <<>> /\ \A k \in Keys : ~Found(k)
    BY <1>1 DEF Traversal, Found
  <2>2. ToSet(<<>>) = {} /\ 1 .. Len(<<>>) - 1 = {}
    BY DEF ToSet
  <2> QED BY <2>1, <2>2 DEF TraversalIsSearch
<1>2. CASE root # NoLoc
  <2>1. PICK ht, K : Tree(heap, root, ht, K)
    BY <1>2, InvTree
  <2>2. /\ Traversal \in Seq(Keys) /\ Ascending(Traversal)
        /\ \A x : x \in ToSet(Traversal) <=> x \in K[root]
    BY <2>1, TraversalLists DEF Listing
  <2>3. \A i \in 1 .. Len(Traversal) - 1 : Traversal[i] < Traversal[i + 1]
    <3>1. Len(Traversal) \in Nat /\ DOMAIN Traversal = 1 .. Len(Traversal)
      BY <2>2, ListFacts
    <3>2. ASSUME NEW i \in 1 .. Len(Traversal) - 1 PROVE Traversal[i] < Traversal[i + 1]
      <4>1. i \in DOMAIN Traversal /\ i + 1 \in DOMAIN Traversal /\ i < i + 1
        BY <3>1
      <4> QED BY <2>2, <4>1 DEF Ascending
    <3> QED BY <3>2
  <2>4. K[root] = {k \in Keys : \E a : <<k, a>> \in Entries(heap)}
    BY <2>1, RootKeys
  <2>5. \A k \in Keys : (\E a : <<k, a>> \in Entries(heap)) <=> Found(k)
    <3>1. ASSUME NEW k \in Keys PROVE (\E a : <<k, a>> \in Entries(heap)) <=> Found(k)
      <4>1. \A a : <<k, a>> \in Entries(heap) <=> Found(k) /\ a = DataLoc(k)
        BY <2>1, SearchFacts
      <4> QED BY <4>1
    <3> QED BY <3>1
  <2>6. ToSet(Traversal) = {k \in Keys : Found(k)}
    BY <2>2, <2>4, <2>5
  <2> QED BY <2>3, <2>6 DEF TraversalIsSearch
<1> QED BY <1>1, <1>2

(* TraversalIsSearch: traverse meets the keys in ascending order, once      *)
(* each, and exactly those that searchNode finds.                           *)
THEOREM TraversalSearches == Spec => []TraversalIsSearch
BY Invariance, InvTraversal, PTL

-----------------------------------------------------------------------------
(* The map that the tree implements *)

(* k has its data at a.                                                     *)
Kept(h, s, k, a) == <<k, a>> \in Entries(h) /\ ~(s = "dangling" /\ h[a] = Free)

(* M is what a file h maps the keys to, in status s.                        *)
MapIs(M, h, s) ==
  /\ M = [k \in DOMAIN M |-> M[k]]
  /\ \A k : k \in DOMAIN M <=> \E a : Kept(h, s, k, a)
  /\ \A k, a : Kept(h, s, k, a) => M[k] = h[a]

(* The map that get shows, said by the entries of the file.                 *)
LEMMA StoredIs == IInv => MapIs(StoredMap, heap, status)
<1> SUFFICES ASSUME IInv PROVE MapIs(StoredMap, heap, status)
  OBVIOUS
<1> DEFINE M == StoredMap
<1>1. /\ M = [k \in DOMAIN M |-> M[k]]
      /\ DOMAIN M = {x \in Keys : Found(x) /\ ~Lost(x)}
      /\ \A k \in DOMAIN M : M[k] = heap[DataLoc(k)]
  BY DEF StoredMap
<1>2. heap \in Heaps
  BY DEF IInv
<1>3. \A k, a : <<k, a>> \in Entries(heap) => k \in Keys
  BY <1>2, EntryFacts
<1>4. ASSUME NEW k \in Keys, NEW a
      PROVE  <<k, a>> \in Entries(heap) <=> Found(k) /\ a = DataLoc(k)
  <2>1. CASE root = NoLoc
    <3>1. NodesIn(heap) = {}
      BY <2>1 DEF IInv, NodesIn, Free
    <3>2. Entries(heap) = {}
      BY <3>1 DEF Entries
    <3>3. ~Found(k)
      BY <2>1 DEF Found
    <3> QED BY <3>2, <3>3
  <2>2. CASE root # NoLoc
    <3>1. PICK ht, K : Tree(heap, root, ht, K)
      BY <2>2, InvTree
    <3>2. \A b : <<k, b>> \in Entries(heap) <=> Found(k) /\ b = DataLoc(k)
      BY <3>1, SearchFacts
    <3> QED BY <3>2
  <2> QED BY <2>1, <2>2
<1>5. \A k \in Keys : Lost(k) <=> status = "dangling" /\ heap[DataLoc(k)] = Free
  BY DEF Lost
<1> HIDE DEF M
<1>6. ASSUME NEW k, NEW a, Kept(heap, status, k, a) PROVE k \in DOMAIN M /\ M[k] = heap[a]
  <2>1. k \in Keys /\ <<k, a>> \in Entries(heap) /\ ~(status = "dangling" /\ heap[a] = Free)
    BY <1>3, <1>6 DEF Kept
  <2>2. Found(k) /\ a = DataLoc(k)
    BY <1>4, <2>1
  <2> QED BY <1>1, <1>5, <2>1, <2>2
<1>7. ASSUME NEW k \in DOMAIN M PROVE Kept(heap, status, k, DataLoc(k))
  BY <1>1, <1>4, <1>5 DEF Kept
<1>8. MapIs(M, heap, status)
  BY <1>1, <1>6, <1>7 DEF MapIs
<1> QED BY <1>8 DEF M

(* The keys k has, but no data of them is lost, while the tree lives.       *)
LEMMA KeptAlive ==
  ASSUME NEW h, NEW s, s # "dangling"
  PROVE  \A k, a : Kept(h, s, k, a) <=> <<k, a>> \in Entries(h)
BY DEF Kept

(* k gets the data d while M becomes N.                                     *)
PutCase(M, h, s, N, g, t, k, d) ==
  /\ MapIs(M, h, s) /\ s # "dangling" /\ MapIs(N, g, t) /\ t # "dangling"
  /\ Put(h, g, k, d)

WithKey(M, k, d) == [x \in DOMAIN M \cup {k} |-> IF x = k THEN DataRec(d) ELSE M[x]]

(* When the file is put data for a key, its map is.                         *)
LEMMA PutMaps ==
  ASSUME NEW M, NEW h, NEW s, NEW N, NEW g, NEW t, NEW k, NEW d, PutCase(M, h, s, N, g, t, k, d)
  PROVE  N = WithKey(M, k, d)
<1>0. /\ MapIs(M, h, s) /\ s # "dangling" /\ MapIs(N, g, t) /\ t # "dangling"
      /\ Put(h, g, k, d)
  BY DEF PutCase
<1>1. PICK a \in Locs : Entries(g) = {x \in Entries(h) : x[1] # k} \cup {<<k, a>>} /\ g[a] = DataRec(d)
  BY <1>0 DEF Put
<1>2. \A e \in Entries(h) : e[1] # k => g[e[2]] = h[e[2]]
  BY <1>0 DEF Put
<1>3. \A x, b : <<x, b>> \in Entries(g) <=> (x # k /\ <<x, b>> \in Entries(h)) \/ (x = k /\ b = a)
  BY <1>1
<1>4. \A x, b : x # k /\ <<x, b>> \in Entries(h) => g[b] = h[b]
  <2>1. ASSUME NEW x, NEW b, x # k, <<x, b>> \in Entries(h) PROVE g[b] = h[b]
    <3>1. <<x, b>>[1] = x /\ <<x, b>>[2] = b
      OBVIOUS
    <3> QED BY <1>2, <2>1, <3>1
  <2> QED BY <2>1
<1>5. /\ M = [x \in DOMAIN M |-> M[x]]
      /\ \A x : x \in DOMAIN M <=> \E b : <<x, b>> \in Entries(h)
      /\ \A x, b : <<x, b>> \in Entries(h) => M[x] = h[b]
  BY <1>0, KeptAlive DEF MapIs
<1>6. /\ N = [x \in DOMAIN N |-> N[x]]
      /\ \A x : x \in DOMAIN N <=> \E b : <<x, b>> \in Entries(g)
      /\ \A x, b : <<x, b>> \in Entries(g) => N[x] = g[b]
  BY <1>0, KeptAlive DEF MapIs
<1>7. DOMAIN N = DOMAIN M \cup {k}
  <2>1. \A x : x \in DOMAIN N <=> x \in DOMAIN M \cup {k}
    BY <1>3, <1>5, <1>6
  <2> QED BY <2>1
<1>8. ASSUME NEW x \in DOMAIN N PROVE N[x] = IF x = k THEN DataRec(d) ELSE M[x]
  <2>1. PICK b : <<x, b>> \in Entries(g)
    BY <1>6
  <2>2. N[x] = g[b]
    BY <1>6, <2>1
  <2>3. CASE x = k
    BY <1>1, <1>3, <2>1, <2>2, <2>3
  <2>4. CASE x # k
    <3>1. <<x, b>> \in Entries(h)
      BY <1>3, <2>1, <2>4
    <3> QED BY <1>4, <1>5, <2>2, <2>4, <3>1
  <2> QED BY <2>3, <2>4
<1>9. N = [x \in DOMAIN N |-> IF x = k THEN DataRec(d) ELSE M[x]]
  BY <1>6, <1>8
<1> QED BY <1>7, <1>9 DEF WithKey

(* The entry of k goes, or its data.                                        *)
TakeCase(M, h, s, N, g, t, k) ==
  /\ MapIs(M, h, s) /\ s # "dangling" /\ MapIs(N, g, t)
  /\ (t # "dangling" /\ Taken(h, g, k)) \/ (t = "dangling" /\ Loses(h, g, k))

(* When a key is taken from the file, it is taken from its map.             *)
LEMMA TakenMaps ==
  ASSUME NEW M, NEW h, NEW s, NEW N, NEW g, NEW t, NEW k, TakeCase(M, h, s, N, g, t, k)
  PROVE  N = [x \in DOMAIN M \ {k} |-> M[x]]
<1>0. /\ MapIs(M, h, s) /\ s # "dangling" /\ MapIs(N, g, t)
      /\ (t # "dangling" /\ Taken(h, g, k)) \/ (t = "dangling" /\ Loses(h, g, k))
  BY DEF TakeCase
<1>1. ASSUME NEW x, NEW b PROVE Kept(g, t, x, b) <=> x # k /\ <<x, b>> \in Entries(h)
  <2>1. <<x, b>>[1] = x /\ <<x, b>>[2] = b
    OBVIOUS
  <2>2. CASE t # "dangling" /\ Taken(h, g, k)
    <3>1. Kept(g, t, x, b) <=> <<x, b>> \in Entries(g)
      BY <2>2 DEF Kept
    <3>2. Entries(g) = {e \in Entries(h) : e[1] # k}
      BY <2>2 DEF Taken
    <3>3. <<x, b>> \in Entries(g) <=> x # k /\ <<x, b>> \in Entries(h)
      BY <2>1, <3>2
    <3> QED BY <3>1, <3>3
  <2>3. CASE t = "dangling" /\ Loses(h, g, k)
    <3>1. /\ Entries(g) = Entries(h)
          /\ \A e \in Entries(h) : (e[1] = k => g[e[2]] = Free) /\ (e[1] # k => g[e[2]] # Free)
      BY <2>3 DEF Loses
    <3> QED BY <2>1, <2>3, <3>1 DEF Kept
  <2> QED BY <1>0, <2>2, <2>3
<1>2. \A x, b : x # k /\ <<x, b>> \in Entries(h) => g[b] = h[b]
  <2>1. ASSUME NEW x, NEW b, x # k, <<x, b>> \in Entries(h) PROVE g[b] = h[b]
    <3>1. <<x, b>>[1] = x /\ <<x, b>>[2] = b
      OBVIOUS
    <3>2. \A e \in Entries(h) : e[1] # k => g[e[2]] = h[e[2]]
      BY <1>0 DEF Taken, Loses
    <3> QED BY <2>1, <3>1, <3>2
  <2> QED BY <2>1
<1>3. /\ M = [x \in DOMAIN M |-> M[x]]
      /\ \A x : x \in DOMAIN M <=> \E b : <<x, b>> \in Entries(h)
      /\ \A x, b : <<x, b>> \in Entries(h) => M[x] = h[b]
  BY <1>0, KeptAlive DEF MapIs
<1>4. /\ N = [x \in DOMAIN N |-> N[x]]
      /\ \A x : x \in DOMAIN N <=> \E b : Kept(g, t, x, b)
      /\ \A x, b : Kept(g, t, x, b) => N[x] = g[b]
  BY <1>0 DEF MapIs
<1>5. DOMAIN N = DOMAIN M \ {k}
  <2>1. \A x : x \in DOMAIN N <=> x \in DOMAIN M \ {k}
    BY <1>1, <1>3, <1>4
  <2> QED BY <2>1
<1>6. ASSUME NEW x \in DOMAIN N PROVE N[x] = M[x]
  <2>1. PICK b : Kept(g, t, x, b)
    BY <1>4
  <2>2. x # k /\ <<x, b>> \in Entries(h) /\ N[x] = g[b]
    BY <1>1, <1>4, <2>1
  <2> QED BY <1>2, <1>3, <2>2
<1>7. N = [x \in DOMAIN N |-> M[x]]
  BY <1>4, <1>6
<1> QED BY <1>5, <1>7

(* Nothing changed but perhaps that the tree ended.                         *)
LEMMA SameMaps ==
  ASSUME NEW M, NEW h, NEW s, MapIs(M, h, s), s # "dangling",
         NEW N, NEW t, MapIs(N, h, t), t # "dangling"
  PROVE  N = M
<1>1. /\ M = [x \in DOMAIN M |-> M[x]]
      /\ \A x : x \in DOMAIN M <=> \E b : <<x, b>> \in Entries(h)
      /\ \A x, b : <<x, b>> \in Entries(h) => M[x] = h[b]
  BY KeptAlive DEF MapIs
<1>2. /\ N = [x \in DOMAIN N |-> N[x]]
      /\ \A x : x \in DOMAIN N <=> \E b : <<x, b>> \in Entries(h)
      /\ \A x, b : <<x, b>> \in Entries(h) => N[x] = h[b]
  BY KeptAlive DEF MapIs
<1>3. \A x : x \in DOMAIN N <=> x \in DOMAIN M
  BY <1>1, <1>2
<1>4. DOMAIN N = DOMAIN M
  BY <1>3
<1>5. ASSUME NEW x \in DOMAIN M PROVE N[x] = M[x]
  <2>1. PICK b : <<x, b>> \in Entries(h)
    BY <1>1
  <2>2. M[x] = h[b] /\ N[x] = h[b]
    BY <1>1, <1>2, <2>1
  <2> QED BY <2>2
<1>6. N = [x \in DOMAIN N |-> M[x]]
  BY <1>2, <1>4, <1>5
<1> QED BY <1>1, <1>4, <1>6

(* The map of this state.                                                   *)
StoredOK == MapIs(StoredMap, heap, status)

(* An insertion or update is a step of the abstract map.                    *)
LEMMA StepPuts ==
  ASSUME StoredOK, StoredOK', status = "alive", status' = "alive",
         NEW k \in Keys, NEW d \in Data, Put(heap, heap', k, d)
  PROVE  Map!Next
<1> DEFINE M == StoredMap
           N == StoredMap'
           v == DataRec(d)
<1>1. MapIs(M, heap, status) /\ MapIs(N, heap', status')
  BY DEF StoredOK
<1>2. status # "dangling" /\ status' # "dangling"
  OBVIOUS
<1>3. v \in DataRecs
  BY DataRecKinds
<1> HIDE DEF M, N
<1>4. N = WithKey(M, k, d)
  <2> DEFINE g == heap'
             t == status'
  <2>1. PutCase(M, heap, status, N, g, t, k, d)
    BY <1>1, <1>2 DEF PutCase
  <2> HIDE DEF g, t, v
  <2> QED BY <2>1, PutMaps
<1> HIDE DEF v
<1>5. N = [x \in DOMAIN M \cup {k} |-> IF x = k THEN v ELSE M[x]]
  BY <1>4 DEF v, WithKey
<1>6. CASE k \in DOMAIN M
  <2>1. M = [x \in DOMAIN M |-> M[x]] /\ DOMAIN M \cup {k} = DOMAIN M
    BY <1>1, <1>6 DEF MapIs
  <2>2. N = [x \in DOMAIN M |-> IF x = k THEN v ELSE M[x]]
    BY <1>5, <2>1
  <2>3. N = [M EXCEPT ![k] = v]
    BY <2>1, <2>2
  <2>4. Map!Update(k, v)
    BY <1>6, <2>3 DEF Map!Update, M, N
  <2> QED BY <1>3, <2>4 DEF Map!Next
<1>7. CASE k \notin DOMAIN M
  <2>1. Map!Insert(k, v)
    BY <1>5, <1>7 DEF Map!Insert, M, N
  <2> QED BY <1>3, <2>1 DEF Map!Next
<1> QED BY <1>6, <1>7

(* A removal, or a traversal that loses data, is a step of the abstract     *)
(* map.                                                                     *)
LEMMA StepTakes ==
  ASSUME StoredOK, StoredOK', status = "alive", NEW k \in Keys, Found(k),
         (status' # "dangling" /\ Taken(heap, heap', k)) \/ (status' = "dangling" /\ Loses(heap, heap', k))
  PROVE  Map!Next
<1> DEFINE M == StoredMap
           N == StoredMap'
<1>1. MapIs(M, heap, status) /\ MapIs(N, heap', status')
  BY DEF StoredOK
<1>2. status # "dangling"
  OBVIOUS
<1>3. k \in DOMAIN M
  BY <1>2 DEF StoredMap, Lost
<1> HIDE DEF M, N
<1>4. N = [x \in DOMAIN M \ {k} |-> M[x]]
  <2> DEFINE g == heap'
             t == status'
  <2>1. TakeCase(M, heap, status, N, g, t, k)
    BY <1>1, <1>2 DEF TakeCase
  <2> HIDE DEF g, t
  <2> QED BY <2>1, TakenMaps
<1>5. (status = "alive")' \in BOOLEAN
  OBVIOUS
<1>6. Map!Remove(k)
  BY <1>3, <1>4, <1>5 DEF Map!Remove, M, N
<1> QED BY <1>6 DEF Map!Next

(* A new index file is an empty map.                                        *)
LEMMA InitMaps == Init => Map!Init
<1> SUFFICES ASSUME Init PROVE Map!Init
  OBVIOUS
<1>1. root = NoLoc /\ status = "alive"
  BY DEF Init
<1>2. {x \in Keys : Found(x) /\ ~Lost(x)} = {}
  BY <1>1 DEF Found
<1>3. StoredMap = [k \in {} |-> k]
  <2>1. StoredMap = [k \in {} |-> heap[DataLoc(k)]]
    BY <1>2 DEF StoredMap
  <2> QED BY <2>1
<1> QED BY <1>1, <1>3 DEF Map!Init

(* Every step of the tree is a step of the abstract map, or leaves it       *)
(* alone.                                                                   *)
LEMMA NextMaps ==
  ASSUME IInv, StoredOK, StoredOK', [Next]_vars
  PROVE  [Map!Next]_(Map!vars)
<1>1. CASE UNCHANGED vars
  <2>1. heap' = heap /\ root' = root /\ status' = status
    BY <1>1 DEF vars
  <2>2. StoredMap' = StoredMap
    BY <2>1 DEF StoredMap, Found, Lost, LeafOf, DataLoc, PathTo, IsInner, IsNode, ChildFor
  <2> QED BY <2>1, <2>2 DEF Map!vars
<1>2. CASE RemoveFromEmpty
  <2>1. status = "alive" /\ status' = "emptyTree" /\ heap' = heap
    BY <1>2 DEF RemoveFromEmpty
  <2>2. MapIs(StoredMap, heap, status) /\ MapIs(StoredMap', heap, status')
    BY <2>1 DEF StoredOK
  <2>3. status # "dangling" /\ status' # "dangling"
    BY <2>1
  <2>4. StoredMap' = StoredMap
    <3> DEFINE M == StoredMap
               N == StoredMap'
    <3>1. MapIs(M, heap, status) /\ MapIs(N, heap, status')
      BY <2>2
    <3> HIDE DEF M, N
    <3>2. N = M
      BY <2>3, <3>1, SameMaps
    <3> QED BY <3>2 DEF M, N
  <2>5. Map!Die
    BY <2>1, <2>4 DEF Map!Die
  <2> QED BY <2>5 DEF Map!Next
<1>3. ASSUME NEW k \in Keys, RemoveEntry(k) PROVE Map!Next
  <2>1. status = "alive" /\ status' = status /\ Found(k) /\ Taken(heap, heap', k)
    BY <1>3, RemoveEntryKeeps DEF RemoveEntry
  <2>2. status' # "dangling"
    BY <2>1
  <2> QED BY <2>1, <2>2, StepTakes
<1>4. ASSUME NEW k \in Keys, RemoveRoot(k) PROVE Map!Next
  <2>1. status = "alive" /\ status' = status /\ Found(k) /\ Taken(heap, heap', k)
    BY <1>4, RemoveRootKeeps DEF RemoveRoot
  <2>2. status' # "dangling"
    BY <2>1
  <2> QED BY <2>1, <2>2, StepTakes
<1>5. ASSUME NEW k \in Keys, RemoveLeaf(k) PROVE Map!Next
  <2>1. status = "alive" /\ status' = status /\ Found(k) /\ Taken(heap, heap', k)
    BY <1>5, RemoveLeafKeeps DEF RemoveLeaf
  <2>2. status' # "dangling"
    BY <2>1
  <2> QED BY <2>1, <2>2, StepTakes
<1>6. ASSUME NEW k \in Keys, RemoveDies(k) PROVE Map!Next
  <2>1. status = "alive" /\ status' = "poorParent" /\ Found(k) /\ Taken(heap, heap', k)
    BY <1>6, RemoveDiesKeeps DEF RemoveDies
  <2>2. status' # "dangling"
    BY <2>1
  <2> QED BY <2>1, <2>2, StepTakes
<1>7. ASSUME NEW k \in Keys, NEW d \in Data, InsertAsRoot(k, d) PROVE Map!Next
  <2>1. status = "alive" /\ status' = status /\ Put(heap, heap', k, d)
    BY <1>7, InsertAsRootKeeps DEF InsertAsRoot
  <2> QED BY <2>1, StepPuts
<1>8. ASSUME NEW k \in Keys, NEW d \in Data, InsertDataFrom(k, d) PROVE Map!Next
  <2>1. status = "alive" /\ status' = status /\ Put(heap, heap', k, d)
    <3>1. Put(heap, heap', k, d)
      BY <1>8, InsertDataFromKeeps
    <3> QED BY <1>8, <3>1 DEF InsertDataFrom
  <2> QED BY <2>1, StepPuts
<1>9. ASSUME NEW k \in Keys, NEW d \in Data, UpdateNoResize(k, d) PROVE Map!Next
  <2>1. status = "alive" /\ status' = status /\ Put(heap, heap', k, d)
    BY <1>9, UpdateNoResizeKeeps DEF UpdateNoResize
  <2> QED BY <2>1, StepPuts
<1>10. ASSUME NEW k \in Keys, NEW d \in Data, NEW m \in Places(k), Update(k, d, m) PROVE Map!Next
  <2>1. status = "alive" /\ status' = status /\ Put(heap, heap', k, d)
    BY <1>10, UpdateKeeps DEF Update
  <2> QED BY <2>1, StepPuts
<1>11. ASSUME NEW k \in Keys, NEW d \in Data, NEW m \in Places(k), TraverseMoves(k, d, m) PROVE Map!Next
  <2>1. status = "alive" /\ status' = "dangling" /\ Found(k) /\ Loses(heap, heap', k)
    BY <1>11, TraverseMovesKeeps DEF TraverseMoves
  <2> QED BY <2>1, StepTakes
<1> QED BY <1>1, <1>2, <1>3, <1>4, <1>5, <1>6, <1>7, <1>8, <1>9, <1>10, <1>11 DEF Next

(* get finds for each key what was last inserted or updated for it, through *)
(* all splits, removals and moves of data.                                  *)
THEOREM Refinement == Spec => ImplementsKeyMap
<1>1. IInv => StoredOK
  BY StoredIs DEF StoredOK
<1>2. Spec => [][Map!Next]_(Map!vars)
  <2>1. IInv /\ StoredOK /\ StoredOK' /\ [Next]_vars => [Map!Next]_(Map!vars)
    BY NextMaps
  <2> QED BY <1>1, <2>1, Invariance, PTL DEF Spec
<1> QED BY <1>2, InitMaps, PTL DEF Spec, ImplementsKeyMap, Map!Spec
=============================================================================
