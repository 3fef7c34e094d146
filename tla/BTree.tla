-------------------------------- MODULE BTree --------------------------------
(***************************************************************************)
(* src/src/BTree/BTree.h on the records of one index file.  A leaf holds   *)
(* keys and the locations of their data records, an inner node holds keys  *)
(* and the locations of its children; both store the location of their     *)
(* parent.  Nodes and data are records of the file, put by RecordManager   *)
(* to a location nothing else lives at, as module RecordStore promises.    *)
(* Which one is a parameter: the tree only compares locations.             *)
(*                                                                         *)
(* Calls that end in KeyNotFound or KeyDuplicated change nothing and are   *)
(* not steps.                                                              *)
(***************************************************************************)
EXTENDS Integers, SequencesExt

CONSTANTS Keys,      \* a finite set of integers
          Data,      \* what a data record may hold
          BRankMin, BRankMax,
          MaxLoc,    \* bound: locations in the file
          DataPlace(_, _), \* which of the free locations F insert takes for
          NodePlace(_)     \* the data of key k: DataPlace(F, k); for a node

ASSUME RankAssumption ==
  /\ BRankMin \in Nat /\ BRankMax \in Nat
  /\ BRankMin * 2 >= BRankMax /\ BRankMax >= 2
ASSUME KeysAssumption == Keys \subseteq Int
ASSUME LocAssumption == MaxLoc \in Nat

Locs == 1 .. MaxLoc
NoLoc == 0

ASSUME PlaceAssumption ==
  \A F \in SUBSET Locs : F # {} => NodePlace(F) \in F /\ \A k \in Keys : DataPlace(F, k) \in F

VARIABLES heap,    \* [Locs -> records of the index file]
          root,    \* rootNodePgNo and rootNodeOff of page 0
          status   \* "alive", or how the tree ended

vars == <<heap, root, status>>

Free == [kind |-> "free"]
DataRec(d) == [kind |-> "data", data |-> d]
Node(leaf, keys, children, parent) ==
  [kind |-> "node", isLeaf |-> leaf, keys |-> keys, children |-> children, parent |-> parent]

(* emptyTree: remove used the null root; poorParent: BOOST_ASSERT(false);   *)
(* dangling: a traversal left a leaf that refers to a freed record.  The    *)
(* process lives on in the last case, but its tree is broken.               *)
Ends == {"emptyTree", "poorParent", "dangling"}

FreeLocs(h) == {l \in Locs : h[l] = Free}

IsNode(l) == heap[l].kind = "node"
IsInner(l) == IsNode(l) /\ ~heap[l].isLeaf

-----------------------------------------------------------------------------
(* searchNode *)

(* The number of keys not above k: the child to descend to is the next one. *)
Below(keys, k) == Cardinality({i \in 1 .. Len(keys) : keys[i] <= k})

(* Mutant: a key equal to a separator is looked for on its left.            *)
ChildForStrict(n, k) == n.children[1 + Cardinality({i \in 1 .. Len(n.keys) : n.keys[i] < k})]

ChildFor(n, k) == n.children[1 + Below(n.keys, k)]

(* The nodes from l down to the leaf where k is or belongs.                 *)
PathTo(k) ==
  LET path[l \in Locs] ==
        IF IsInner(l) THEN <<l>> \o path[ChildFor(heap[l], k)] ELSE <<l>>
  IN  IF root = NoLoc THEN <<>> ELSE path[root]

LeafOf(k) == heap[Last(PathTo(k))]
Found(k) == root # NoLoc /\ k \in ToSet(LeafOf(k).keys)

(* The location of the data of a key that is found.                         *)
DataLoc(k) == LET n == LeafOf(k) IN n.children[Below(n.keys, k)]

-----------------------------------------------------------------------------
(* Node::splitNode *)

Half == BRankMax \div 2

(* Mutant: the children of a moved inner node are not told.                 *)
AdoptedNot(h, children, l) == h

(* updateParentLoc for each of the children.                                *)
Adopted(h, children, l) ==
  [c \in Locs |-> IF c \in ToSet(children) THEN [h[c] EXCEPT !.parent = l] ELSE h[c]]

(* Mutant: the left leaf keeps one child too many.                          *)
LeftPartInner(n, p) ==
  Node(n.isLeaf, SubSeq(n.keys, 1, Half), SubSeq(n.children, 1, Half + 1), p)

LeftPart(n, p) ==
  Node(n.isLeaf, SubSeq(n.keys, 1, Half),
       SubSeq(n.children, 1, IF n.isLeaf THEN Half ELSE Half + 1), p)

(* The middle key moves up; a leaf keeps it in its right part as well.      *)
UpKey(n) == n.keys[Half + 1]
RightPart(n, p) ==
  Node(n.isLeaf, SubSeq(n.keys, IF n.isLeaf THEN Half + 1 ELSE Half + 2, Len(n.keys)),
       SubSeq(n.children, IF n.isLeaf THEN Half + 1 ELSE Half + 2, Len(n.children)), p)

(* insertNodeAt: r becomes the child after l, with key k between them.      *)
WithChild(n, l, k, r) ==
  LET at == CHOOSE i \in 1 .. Len(n.children) : n.children[i] = l
  IN  [n EXCEPT !.keys = InsertAt(@, at, k), !.children = InsertAt(@, at + 1, r)]

(* A node in memory may have one key too many.  Below h is the file as it   *)
(* would be with that node written.                                         *)
Full(n) == Len(n.keys) = BRankMax

(* The node at l, child of the one at p, keeps its left part.               *)
Halved(h, l, p) ==
  LET right == NodePlace(FreeLocs(h))
      parts == [h EXCEPT ![l] = LeftPart(h[l], p), ![right] = RightPart(h[l], p)]
  IN  IF h[l].isLeaf THEN parts ELSE Adopted(parts, RightPart(h[l], p).children, right)

SplitBelow(h, l, p) ==
  [Halved(h, l, p) EXCEPT ![p] = WithChild(h[p], l, UpKey(h[l]), NodePlace(FreeLocs(h)))]

(* The node at l was the root.                                              *)
SplitRoot(h, l) ==
  LET right == NodePlace(FreeLocs(h))
      parts == Halved(h, l, NoLoc)
      top == NodePlace(FreeLocs(parts))
      topped == [parts EXCEPT ![top] = Node(FALSE, <<UpKey(h[l])>>, <<l, right>>, NoLoc)]
  IN  [heap |-> Adopted(topped, <<l, right>>, top), root |-> top]

(* The file and the root after the node at the end of path is split if it   *)
(* is full, its parent too if that fills it, and so on to the root.         *)
SplitNode(h, path) ==
  LET file[i \in 1 .. Len(path)] ==
        IF i = Len(path) THEN h
        ELSE LET f == file[i + 1]
             IN  IF Full(f[path[i + 1]]) THEN SplitBelow(f, path[i + 1], path[i]) ELSE f
  IN  IF Full(file[1][path[1]]) THEN SplitRoot(file[1], path[1])
                                ELSE [heap |-> file[1], root |-> path[1]]

-----------------------------------------------------------------------------
(* The operations *)

Init == /\ heap = [l \in Locs |-> Free]
        /\ root = NoLoc
        /\ status = "alive"

(* Bound: an insertion finds free locations in the file.                    *)
Room(n) == Cardinality(FreeLocs(heap)) >= n

(* insertAsRoot *)
InsertAsRoot(k, d) ==
  /\ status = "alive"
  /\ root = NoLoc
  /\ Room(2)
  /\ LET loc == DataPlace(FreeLocs(heap), k)
         h == [heap EXCEPT ![loc] = DataRec(d)]
     IN  /\ root' = NodePlace(FreeLocs(h))
         /\ heap' = [h EXCEPT ![root'] = Node(TRUE, <<k>>, <<loc>>, NoLoc)]
  /\ UNCHANGED status

(* insertDataFrom *)
InsertDataFrom(k, d) ==
  /\ status = "alive"
  /\ root # NoLoc /\ ~Found(k)
  /\ LET path == PathTo(k)
         leaf == heap[Last(path)]
         at == Below(leaf.keys, k) + 1
         loc == DataPlace(FreeLocs(heap), k)
         n == [leaf EXCEPT !.keys = InsertAt(@, at, k), !.children = InsertAt(@, at, loc)]
         after == SplitNode([heap EXCEPT ![loc] = DataRec(d), ![Last(path)] = n], path)
     IN  /\ Room(Len(path) + 2)
         /\ heap' = after.heap /\ root' = after.root
  /\ UNCHANGED status

(* Where updateOneRecord may put new content for k: the old block is freed  *)
(* first, and taken again unless it is too short or another comes before.   *)
Places(k) == {DataLoc(k)} \cup {DataPlace(F, k) : F \in {FreeLocs(heap)} \ {{}}}

Replaced(l, m, d) == [heap EXCEPT ![l] = Free, ![m] = DataRec(d)]

WithData(n, k, l) == [n EXCEPT !.children[Below(n.keys, k)] = l]

(* Mutant: the new location is not written to the leaf.                     *)
UpdateForgetsLoc(k, d, m) ==
  /\ status = "alive"
  /\ Found(k) /\ m \in Places(k)
  /\ heap' = Replaced(DataLoc(k), m, d)
  /\ UNCHANGED <<root, status>>

Update(k, d, m) ==
  /\ status = "alive"
  /\ Found(k) /\ m \in Places(k)
  /\ heap' = [Replaced(DataLoc(k), m, d) EXCEPT ![Last(PathTo(k))] = WithData(@, k, m)]
  /\ UNCHANGED <<root, status>>

UpdateNoResize(k, d) ==
  /\ status = "alive"
  /\ Found(k)
  /\ heap' = [heap EXCEPT ![DataLoc(k)] = DataRec(d)]
  /\ UNCHANGED <<root, status>>

(* traverse with a callback that changes the data of k: the location that   *)
(* updateOneRecord returns is dropped.  When the data stay in their block,  *)
(* that is UpdateNoResize.                                                  *)
TraverseMoves(k, d, m) ==
  /\ status = "alive"
  /\ Found(k) /\ m \in Places(k) \ {DataLoc(k)}
  /\ heap' = Replaced(DataLoc(k), m, d)
  /\ status' = "dangling"
  /\ UNCHANGED root

(* deleteData: the leaf at l without k.                                     *)
Without(n, k) ==
  LET at == Below(n.keys, k)
  IN  [n EXCEPT !.keys = RemoveAt(@, at), !.children = RemoveAt(@, at)]

(* deleteChild: the child at l goes with the key before it, the first child *)
(* with the first key.                                                      *)
WithoutChild(n, l) ==
  LET at == CHOOSE i \in 1 .. Len(n.children) : n.children[i] = l
  IN  [n EXCEPT !.keys = RemoveAt(@, IF at = 1 THEN 1 ELSE at - 1),
                !.children = RemoveAt(@, at)]

(* What deleteNode always does: the data and its entry in the leaf go.      *)
EntryDeleted(k) ==
  [heap EXCEPT ![DataLoc(k)] = Free, ![Last(PathTo(k))] = Without(@, k)]
LastEntry(k) == Len(LeafOf(k).keys) = 1
ParentOf(k) == PathTo(k)[Len(PathTo(k)) - 1]

(* Mutant: a parent with one child left is good enough.                     *)
PoorParentNever(k) == Len(heap[ParentOf(k)].children) - 1 < BRankMin - 1

PoorParent(k) == Len(heap[ParentOf(k)].children) - 1 < BRankMin

(* Another entry remains in the leaf.                                       *)
RemoveEntry(k) ==
  /\ status = "alive"
  /\ Found(k) /\ ~LastEntry(k)
  /\ heap' = EntryDeleted(k)
  /\ UNCHANGED <<root, status>>

(* The last entry of a tree that is one leaf.                               *)
RemoveRoot(k) ==
  /\ status = "alive"
  /\ Found(k) /\ LastEntry(k) /\ Len(PathTo(k)) = 1
  /\ heap' = [EntryDeleted(k) EXCEPT ![root] = Free]
  /\ root' = NoLoc
  /\ UNCHANGED status

(* Mutant: the empty leaf is not deleted from the file.                     *)
RemoveLeafKept(k) ==
  /\ status = "alive"
  /\ Found(k) /\ LastEntry(k) /\ Len(PathTo(k)) > 1 /\ ~PoorParent(k)
  /\ LET leaf == Last(PathTo(k)) IN
       heap' = [EntryDeleted(k) EXCEPT ![ParentOf(k)] = WithoutChild(@, leaf)]
  /\ UNCHANGED <<root, status>>

(* The last entry of a leaf whose parent can do without it.                 *)
RemoveLeaf(k) ==
  /\ status = "alive"
  /\ Found(k) /\ LastEntry(k) /\ Len(PathTo(k)) > 1 /\ ~PoorParent(k)
  /\ LET leaf == Last(PathTo(k)) IN
       heap' = [EntryDeleted(k) EXCEPT ![ParentOf(k)] = WithoutChild(@, leaf), ![leaf] = Free]
  /\ UNCHANGED <<root, status>>

(* Otherwise nothing is borrowed or merged: the process dies.               *)
RemoveDies(k) ==
  /\ status = "alive"
  /\ Found(k) /\ LastEntry(k) /\ Len(PathTo(k)) > 1 /\ PoorParent(k)
  /\ heap' = EntryDeleted(k)
  /\ status' = "poorParent"
  /\ UNCHANGED root

(* remove on an empty tree passes the null root to searchNode.              *)
RemoveFromEmpty ==
  /\ status = "alive"
  /\ root = NoLoc
  /\ status' = "emptyTree"
  /\ UNCHANGED <<heap, root>>

Next ==
  \/ RemoveFromEmpty
  \/ \E k \in Keys :
       \/ RemoveEntry(k)
       \/ RemoveRoot(k)
       \/ RemoveLeaf(k)
       \/ RemoveDies(k)
       \/ \E d \in Data :
            \/ InsertAsRoot(k, d)
            \/ InsertDataFrom(k, d)
            \/ UpdateNoResize(k, d)
            \/ Found(k) /\ \E m \in Places(k) : Update(k, d, m) \/ TraverseMoves(k, d, m)

Spec == Init /\ [][Next]_vars

-----------------------------------------------------------------------------
(* Properties *)

DataRecs == {DataRec(d) : d \in Data}

WellFormed(n) ==
  /\ n.isLeaf \in BOOLEAN
  /\ n.keys \in Seq(Keys) /\ n.children \in Seq(Locs)
  /\ Len(n.children) = Len(n.keys) + (IF n.isLeaf THEN 0 ELSE 1)
  /\ Len(n.keys) < BRankMax
  /\ n.parent \in Locs \cup {NoLoc}

(* The shapes that writeBack's assertion and _NodeFormat allow.             *)
TypeOK ==
  /\ DOMAIN heap = Locs
  /\ \A l \in Locs : heap[l] = Free \/ heap[l] \in DataRecs \/ WellFormed(heap[l])
  /\ root \in Locs \cup {NoLoc}
  /\ status \in Ends \cup {"alive"}

(* The nodes of the tree, and the keys in the order of traverseLeafNode.    *)
Nodes ==
  LET below[l \in Locs] ==
        IF IsInner(l) THEN {l} \cup UNION {below[c] : c \in ToSet(heap[l].children)} ELSE {l}
  IN  IF root = NoLoc THEN {} ELSE below[root]

Traversal ==
  LET keys[l \in Nodes] ==
        IF IsInner(l) THEN FlattenSeq([i \in DOMAIN heap[l].children |-> keys[heap[l].children[i]]])
                      ELSE heap[l].keys
  IN  IF root = NoLoc THEN <<>> ELSE keys[root]

(* traverse meets the keys in ascending order, once each, and exactly those *)
(* that searchNode finds by way of the separators, after any splits and     *)
(* removals.                                                                *)
TraversalIsSearch ==
  /\ \A i \in 1 .. Len(Traversal) - 1 : Traversal[i] < Traversal[i + 1]
  /\ ToSet(Traversal) = {k \in Keys : Found(k)}

(* The parent a node has stored is the node that refers to it: otherwise    *)
(* the assertion of initFromBuf ends the next search through it.            *)
ParentLinks ==
  /\ root # NoLoc => heap[root].parent = NoLoc
  /\ \A l \in Nodes : IsInner(l) =>
       \A c \in ToSet(heap[l].children) : heap[c].parent = l

(* Every record of the file is the root or is referred to once, as a child  *)
(* by an inner node or as data by a leaf: no operation leaks a record,      *)
(* frees one in use or leaves a second reference to it.                     *)
HeapExact ==
  status # "dangling" => \A l \in Locs :
    LET refs == {ref \in Nodes \X (1 .. BRankMax) :
                   /\ ref[2] \in DOMAIN heap[ref[1]].children
                   /\ heap[ref[1]].children[ref[2]] = l}
    IN  /\ Cardinality(refs) = IF l = root \/ heap[l] = Free THEN 0 ELSE 1
        /\ \A ref \in refs : IsNode(l) <=> IsInner(ref[1])

Heights ==
  LET height[l \in Nodes] ==
        IF IsInner(l) THEN 1 + height[Head(heap[l].children)] ELSE 0
  IN  height

(* All leaves are at the same depth although removal neither borrows nor    *)
(* merges, and no inner node has fewer children than a split or the check   *)
(* of deleteNode leaves it.                                                 *)
Balanced ==
  \A l \in Nodes : IsInner(l) =>
    /\ \A c \in ToSet(heap[l].children) : Heights[c] = Heights[l] - 1
    /\ Len(heap[l].children) >= Min({2, BRankMin, BRankMax - Half})

(* For each key in the tree the record that its leaf refers to; a traversal *)
(* may lose the one it changes.                                             *)
Lost(k) == status = "dangling" /\ heap[DataLoc(k)] = Free
StoredMap == [k \in {x \in Keys : Found(x) /\ ~Lost(x)} |-> heap[DataLoc(k)]]

Map == INSTANCE KeyMap WITH Data <- DataRecs, map <- StoredMap, alive <- (status = "alive")

(* get finds for each key what was last inserted or updated for it.         *)
ImplementsKeyMap == Map!Spec
=============================================================================
