--------------------------- MODULE TableIndexProofs ---------------------------
(***************************************************************************)
(* Proofs about TableIndex for every number of columns, blocks and values, *)
(* every schema, clause and statement, and every choice of the block a row *)
(* is put into: what the indexes know of the rows, and that the table      *)
(* implements TableStore.                                                  *)
(***************************************************************************)
EXTENDS TableIndex, DataLemmas

(* The inductive invariant.  What a statement has begun has room; an index  *)
(* that was never dropped is in use, and a column without a file has no     *)
(* entries.                                                                 *)
RoomLeft == status = "alive" => Len(stmt.rows) <= Cardinality(Locs \ Live(heap))

FilesUsed ==
  /\ schema.unique \subseteq files /\ files \ dropped \subseteq flag
  /\ \A c \in Cols \ files : DOMAIN index[c] = {}

(* Every row in the table, and every row an UPDATE took out of it, was      *)
(* checked by insertInTable.                                                *)
Passed(row) ==
  \A c \in Cols : (c \in schema.gender => row[c] \in MaleFemale) /\ (c \in schema.notNull => row[c] # Null)

RowsChecked ==
  status = "alive" =>
    /\ \A l \in Live(heap) : Passed(heap[l].row)
    /\ stmt.kind = "update" => \A i \in DOMAIN stmt.rows : Passed(stmt.rows[i])

(* The rows an UPDATE has still to put back differ from one another and     *)
(* from those in the table, in each unique column it does not set.          *)
PendingDistinct ==
  status = "alive" /\ stmt.kind = "update" =>
    /\ stmt.set \in Settings
    /\ \A c \in schema.unique \ (dropped \cup {stmt.set[1]}) :
         /\ \A i, j \in DOMAIN stmt.rows : i # j => stmt.rows[i][c] # stmt.rows[j][c]
         /\ \A i \in DOMAIN stmt.rows, l \in Live(heap) : stmt.rows[i][c] # heap[l].row[c]

IInv ==
  /\ TypeOK
  /\ RoomLeft /\ FilesUsed
  /\ RowsChecked /\ PendingDistinct
  /\ IndexComplete /\ OneIndexExact /\ UniqueUnlessDropped /\ DoubleFreeOnlyIfStale

USE ValsAssumption, PlaceAssumption, SchemasAssumption, StatementsAssumption, BoundAssumption

-----------------------------------------------------------------------------
(* Lists and indexes *)

(* What is left of a list.                                                  *)
LEMMA LessFacts ==
  ASSUME NEW S, NEW list \in Seq(S), NEW X, NEW r, r = Less(list, X)
  PROVE  /\ r \in Seq(S) /\ ToSet(r) = ToSet(list) \ X
         /\ IsInjective(list) => IsInjective(r)
<1> DEFINE K == {i \in DOMAIN list : list[i] \notin X}
<1>1. K \in SUBSET DOMAIN list /\ r = ElementsAt(list, K) /\ \A i \in DOMAIN list : i \in K <=> list[i] \notin X
  BY DEF Less
<1> HIDE DEF K
<1>2. r \in Seq(S) /\ ToSet(r) = {list[k] : k \in K} /\ \E place : Selects(r, list, K, place)
  BY <1>1, ElementsAtFacts
<1>3. ToSet(r) = ToSet(list) \ X
  <2>1. \A x \in {list[k] : k \in K} : x \in {list[i] : i \in DOMAIN list} \ X
    BY <1>1
  <2>2. \A x \in {list[i] : i \in DOMAIN list} \ X : x \in {list[k] : k \in K}
    BY <1>1
  <2> QED BY <1>2, <2>1, <2>2 DEF ToSet
<1>4. PICK place : Selects(r, list, K, place)
  BY <1>2
<1>5. /\ IsInjective(place) /\ DOMAIN r = 1 .. Len(r) /\ DOMAIN place = 1 .. Len(r)
      /\ \A i \in 1 .. Len(r) : place[i] \in DOMAIN list /\ r[i] = list[place[i]]
  BY <1>1, <1>2, <1>4 DEF Selects
<1>6. IsInjective(list) => IsInjective(r)
  BY <1>5 DEF IsInjective
<1> QED BY <1>2, <1>3, <1>6

(* An index of one column as the code keeps it.                             *)
IxOK(ix) == DOMAIN ix \subseteq Vals \cup {Null} /\ \A v \in DOMAIN ix : ix[v] \in Seq(Locs)

(* What get answers.                                                        *)
LEMMA GetFacts ==
  ASSUME NEW ix, IxOK(ix), NEW v
  PROVE  /\ Get(ix, v) \in Seq(Locs) /\ ToSet(Get(ix, v)) \subseteq Locs
         /\ v \notin DOMAIN ix => Get(ix, v) = <<>> /\ ToSet(Get(ix, v)) = {} /\ IsInjective(Get(ix, v))
<1>1. CASE v \in DOMAIN ix
  BY <1>1 DEF IxOK, Get, ToSet
<1>2. CASE v \notin DOMAIN ix
  <2>1. Get(ix, v) = <<>>
    BY <1>2 DEF Get
  <2>2. <<>> \in Seq(Locs) /\ ToSet(<<>>) = {} /\ IsInjective(<<>>)
    BY DEF ToSet, IsInjective
  <2> QED BY <1>2, <2>1, <2>2
<1> QED BY <1>1, <1>2

(* insert of BTreePlus.                                                     *)
LEMMA ListedFacts ==
  ASSUME NEW ix, IxOK(ix), NEW v \in Vals \cup {Null}, NEW l \in Locs, NEW r, r = Listed(ix, v, l)
  PROVE  /\ IxOK(r) /\ Get(r, v) = Append(Get(ix, v), l)
         /\ ToSet(Get(r, v)) = ToSet(Get(ix, v)) \cup {l}
         /\ l \notin ToSet(Get(ix, v)) /\ IsInjective(Get(ix, v)) => IsInjective(Get(r, v))
         /\ \A x : x # v => Get(r, x) = Get(ix, x)
<1> DEFINE old == Get(ix, v)
           new == Append(old, l)
<1>1. old \in Seq(Locs)
  BY GetFacts
<1>2. /\ DOMAIN r = DOMAIN ix \cup {v} /\ r[v] = new /\ \A x \in DOMAIN ix \ {v} : r[x] = ix[x]
  BY DEF Listed
<1> HIDE DEF old
<1>3. /\ new \in Seq(Locs) /\ Len(old) \in Nat /\ DOMAIN old = 1 .. Len(old)
      /\ DOMAIN new = 1 .. Len(old) + 1 /\ new[Len(old) + 1] = l
      /\ \A i \in 1 .. Len(old) : new[i] = old[i]
  BY <1>1
<1> DEFINE n == Len(old)
<1> HIDE DEF new, n
<1>4. \A i \in 1 .. n + 1 : i \in 1 .. n \/ i = n + 1
  BY <1>3 DEF n
<1>5. 1 .. n \subseteq 1 .. n + 1 /\ n + 1 \in 1 .. n + 1
  BY <1>3 DEF n
<1>6. ToSet(new) = ToSet(old) \cup {l}
  <2>1. ASSUME NEW i \in 1 .. n + 1 PROVE new[i] \in ToSet(old) \cup {l}
    BY <1>3, <1>4 DEF ToSet, n
  <2>2. ASSUME NEW i \in 1 .. n PROVE old[i] \in ToSet(new)
    BY <1>3, <1>5 DEF ToSet, n
  <2>3. l \in ToSet(new)
    BY <1>3, <1>5 DEF ToSet, n
  <2> QED BY <1>3, <2>1, <2>2, <2>3 DEF ToSet, n
<1>7. l \notin ToSet(old) /\ IsInjective(old) => IsInjective(new)
  <2>1. ASSUME l \notin ToSet(old), IsInjective(old), NEW i \in 1 .. n + 1, NEW j \in 1 .. n + 1,
               new[i] = new[j]
        PROVE  i = j
    <3>1. CASE i \in 1 .. n /\ j \in 1 .. n
      BY <1>3, <2>1, <3>1 DEF IsInjective, n
    <3>2. CASE i \in 1 .. n /\ j = n + 1
      BY <1>3, <2>1, <3>2 DEF ToSet, n
    <3>3. CASE i = n + 1 /\ j \in 1 .. n
      BY <1>3, <2>1, <3>3 DEF ToSet, n
    <3> QED BY <1>4, <3>1, <3>2, <3>3
  <2> QED BY <1>3, <2>1 DEF IsInjective, n
<1>8. Get(r, v) = new /\ \A x : x # v => Get(r, x) = Get(ix, x)
  BY <1>2 DEF Get
<1>9. IxOK(r)
  BY <1>2, <1>3 DEF IxOK
<1> QED BY <1>6, <1>7, <1>8, <1>9 DEF old, new

(* An index some of whose lists were shortened.                             *)
Shorter(new, ix) ==
  /\ IxOK(new)
  /\ \A v : /\ ToSet(Get(new, v)) \subseteq ToSet(Get(ix, v))
            /\ IsInjective(Get(ix, v)) => IsInjective(Get(new, v))

(* remove of BTreePlus for one value.                                       *)
LEMMA UnlistedFacts ==
  ASSUME NEW ix, IxOK(ix), NEW v \in DOMAIN ix, NEW X, NEW r, r = Unlisted(ix, v, X)
  PROVE  /\ Shorter(r, ix) /\ ToSet(Get(r, v)) = ToSet(Get(ix, v)) \ X
         /\ \A x : x # v => Get(r, x) = Get(ix, x)
<1> DEFINE list == ix[v]
           new == Less(list, X)
<1>1. /\ DOMAIN r = DOMAIN ix /\ r[v] = new /\ \A x \in DOMAIN ix \ {v} : r[x] = ix[x]
      /\ list \in Seq(Locs)
  BY DEF Unlisted, IxOK
<1>2. Get(ix, v) = list /\ Get(r, v) = new /\ \A x : x # v => Get(r, x) = Get(ix, x)
  BY <1>1 DEF Get
<1> HIDE DEF list
<1>3. new \in Seq(Locs) /\ ToSet(new) = ToSet(list) \ X /\ (IsInjective(list) => IsInjective(new))
  BY <1>1, LessFacts
<1> HIDE DEF new
<1>4. IxOK(r)
  BY <1>1, <1>3 DEF IxOK
<1>5. \A x : /\ ToSet(Get(r, x)) \subseteq ToSet(Get(ix, x))
             /\ IsInjective(Get(ix, x)) => IsInjective(Get(r, x))
  BY <1>2, <1>3
<1> QED BY <1>2, <1>3, <1>4, <1>5 DEF Shorter

(* remove of BTreePlus for every value, whatever is taken from each list.   *)
LEMMA AllUnlistedFacts ==
  ASSUME NEW ix, IxOK(ix), NEW X, NEW r, r = [v \in DOMAIN ix |-> Less(ix[v], X[v])]
  PROVE  /\ Shorter(r, ix)
         /\ \A v \in DOMAIN ix : ToSet(Get(r, v)) = ToSet(Get(ix, v)) \ X[v]
<1>1. ASSUME NEW v \in DOMAIN ix
      PROVE  /\ r[v] \in Seq(Locs) /\ ToSet(r[v]) = ToSet(ix[v]) \ X[v]
             /\ IsInjective(ix[v]) => IsInjective(r[v])
  <2> DEFINE list == ix[v]
             Y == X[v]
  <2>1. list \in Seq(Locs) /\ r[v] = Less(list, Y)
    BY DEF IxOK
  <2> HIDE DEF list, Y
  <2>2. r[v] \in Seq(Locs) /\ ToSet(r[v]) = ToSet(list) \ Y /\ (IsInjective(list) => IsInjective(r[v]))
    BY <2>1, LessFacts
  <2> QED BY <2>2 DEF list, Y
<1>2. DOMAIN r = DOMAIN ix
  OBVIOUS
<1>3. ASSUME NEW v
      PROVE  /\ v \in DOMAIN ix => ToSet(Get(r, v)) = ToSet(Get(ix, v)) \ X[v]
             /\ ToSet(Get(r, v)) \subseteq ToSet(Get(ix, v))
             /\ IsInjective(Get(ix, v)) => IsInjective(Get(r, v))
  <2>1. CASE v \in DOMAIN ix
    <3>1. Get(r, v) = r[v] /\ Get(ix, v) = ix[v]
      BY <1>2, <2>1 DEF Get
    <3> QED BY <1>1, <2>1, <3>1
  <2>2. CASE v \notin DOMAIN ix
    <3>1. Get(r, v) = <<>> /\ Get(ix, v) = <<>>
      BY <1>2, <2>2 DEF Get
    <3> QED BY <2>2, <3>1
  <2> QED BY <2>1, <2>2
<1>4. IxOK(r)
  BY <1>1, <1>2 DEF IxOK
<1> QED BY <1>3, <1>4 DEF Shorter

-----------------------------------------------------------------------------
(* Rows taken out *)

(* rows are those at the locations of L, each of them once.                 *)
TakenRows(rows, L) ==
  /\ rows \in Seq(Rows)
  /\ \E at \in [1 .. Len(rows) -> L] :
       /\ IsInjective(at) /\ \A l \in L : \E i \in 1 .. Len(rows) : at[i] = l
       /\ \A i \in 1 .. Len(rows) : rows[i] = heap[at[i]].row

HeapOK(h) == h \in [Locs -> Blocks] /\ \A l \in Live(h) : h[l].row \in Rows

(* The blocks of a list that meet the clause are freed; unless one is freed *)
(* twice, they were in use and their rows are collected.                    *)
LEMMA FreeingFacts ==
  ASSUME HeapOK(heap), NEW w, NEW list \in Seq(Locs), NEW t, t = Freeing(w, list)
  PROVE  /\ t.locs = Met(w, list) /\ t.locs \subseteq Locs
         /\ HeapOK(t.heap) /\ Live(t.heap) = Live(heap) \ t.locs
         /\ \A l \in Locs \ t.locs : t.heap[l] = heap[l]
         /\ ~t.twice => t.locs \subseteq Live(heap) /\ TakenRows(t.rows, t.locs)
         /\ IsInjective(list) /\ t.locs \subseteq Live(heap) => ~t.twice
<1> DEFINE L == Met(w, list)
           read == Read(w, list)
           taken == {i \in DOMAIN list : Meets(read[i], w)}
           freed == [l \in L |-> [used |-> FALSE, row |-> FreedRow(heap[l].row)]]
           h == [l \in Locs |-> IF l \in DOMAIN freed THEN freed[l] ELSE heap[l]]
           rows == ElementsAt(read, taken)
           twice == \E i \in taken : Again(w, list, i) \/ ~heap[list[i]].used
<1>1. t.locs = L /\ t.heap = h /\ t.rows = rows /\ t.twice = twice
  BY DEF Freeing
<1>2. /\ Len(list) \in Nat /\ DOMAIN list = 1 .. Len(list) /\ \A i \in DOMAIN list : list[i] \in Locs
      /\ L \subseteq Locs
  BY DEF Met, ToSet
<1>3. \A l \in Locs : heap[l] \in Blocks /\ heap[l].row \in [Cols -> Vals \cup {Null, Junk}]
  BY DEF HeapOK, Blocks
<1>4. \A l \in Locs : FreedRow(heap[l].row) \in [Cols -> Vals \cup {Null, Junk}]
  BY <1>3 DEF FreedRow
<1>5. \A l \in L : freed[l].used = FALSE /\ freed[l] \in Blocks
  BY <1>2, <1>4 DEF Blocks
<1>6. /\ DOMAIN freed = L
      /\ \A l \in L : h[l] = freed[l]
      /\ \A l \in Locs \ L : h[l] = heap[l]
  BY <1>2
<1>7. h \in [Locs -> Blocks]
  BY <1>3, <1>5
<1> HIDE DEF freed, h
<1>8. Live(h) = Live(heap) \ L
  BY <1>5, <1>6 DEF Live
<1>9. HeapOK(h)
  BY <1>6, <1>7, <1>8 DEF HeapOK, Live
<1>10. /\ DOMAIN read = DOMAIN list
       /\ \A i \in DOMAIN list :
            read[i] = IF Again(w, list, i) THEN FreedRow(heap[list[i]].row) ELSE heap[list[i]].row
  BY DEF Read
<1>11. read \in Seq([Cols -> Vals \cup {Null, Junk}])
  <2>1. \A i \in DOMAIN list : read[i] \in [Cols -> Vals \cup {Null, Junk}]
    BY <1>2, <1>3, <1>4, <1>10
  <2>2. read = [i \in DOMAIN list |-> read[i]]
    BY DEF Read
  <2> HIDE DEF read
  <2>3. read \in [1 .. Len(list) -> [Cols -> Vals \cup {Null, Junk}]]
    BY <1>2, <2>1, <2>2
  <2> QED BY <1>2, <2>3
<1> HIDE DEF read
<1>12. taken \in SUBSET DOMAIN read
  BY <1>10
<1>13. \A l \in L : l \in Locs /\ Meets(heap[l].row, w) /\ \E i \in DOMAIN list : list[i] = l
  BY <1>2 DEF Met, ToSet
<1>14. \A i \in DOMAIN list : Meets(heap[list[i]].row, w) => list[i] \in L
  BY DEF Met, ToSet
<1> HIDE DEF L
<1>15. ASSUME NEW l \in L PROVE \E i \in taken : list[i] = l /\ ~Again(w, list, i)
  <2> DEFINE P == {i \in DOMAIN list : list[i] = l}
  <2>1. P \in SUBSET Nat /\ P # {}
    BY <1>2, <1>13
  <2>2. PICK m \in P : \A i \in P : m <= i
    <3> HIDE DEF P
    <3> QED BY <2>1, LeastNat
  <2>3. m \in DOMAIN list /\ list[m] = l /\ m \in Nat
    BY <1>2, <2>2
  <2>4. ASSUME NEW j \in 1 .. m - 1, list[j] = list[m] PROVE FALSE
    <3>1. j \in DOMAIN list
      BY <1>2, <2>3
    <3>2. j \in P
      BY <2>3, <2>4, <3>1
    <3>3. m <= j
      BY <2>2, <3>2
    <3> QED BY <2>3, <3>3
  <2>5. ~Again(w, list, m)
    BY <2>4 DEF Again
  <2>6. m \in taken
    BY <1>10, <1>13, <2>3, <2>5
  <2> QED BY <2>3, <2>5, <2>6
<1>16. ASSUME ~twice PROVE L \subseteq Live(heap) /\ TakenRows(rows, L)
  <2>1. \A i \in taken : ~Again(w, list, i) /\ heap[list[i]].used
    BY <1>16
  <2>2. \A i \in taken : list[i] \in L /\ read[i] = heap[list[i]].row
    BY <1>10, <1>14, <2>1
  <2>3. L \subseteq Live(heap)
    BY <1>13, <1>15, <2>1 DEF Live
  <2>4. ASSUME NEW i \in taken, NEW j \in taken, list[i] = list[j] PROVE i = j
    <3>1. i \in Nat /\ j \in Nat /\ i >= 1 /\ j >= 1
      BY <1>2
    <3>2. ASSUME NEW a \in taken, NEW b \in taken, list[a] = list[b], a \in Nat, b \in Nat, a >= 1, a < b
          PROVE  FALSE
      <4>1. a \in 1 .. b - 1
        BY <3>2
      <4>2. Again(w, list, b)
        BY <2>2, <3>2, <4>1 DEF Again, L
      <4> QED BY <2>1, <4>2
    <3> HIDE DEF taken
    <3>3. ~ (i < j) /\ ~ (j < i)
      BY <2>4, <3>1, <3>2
    <3> QED BY <3>1, <3>3
  <2> DEFINE n == Len(rows)
             R == [Cols -> Vals \cup {Null, Junk}]
  <2>5. rows \in Seq(R) /\ n \in Nat /\ \E place : Selects(rows, read, taken, place)
    <3>1. read \in Seq(R) /\ rows = ElementsAt(read, taken)
      BY <1>11
    <3> HIDE DEF R, rows, taken
    <3> QED BY <1>12, <3>1, ElementsAtFacts
  <2> HIDE DEF n, rows, taken, R
  <2>6. PICK place : Selects(rows, read, taken, place)
    BY <2>5
  <2>61. /\ place \in [1 .. n -> taken] /\ IsInjective(place)
         /\ \A k \in taken : \E i \in 1 .. n : place[i] = k
         /\ \A i \in 1 .. n : rows[i] = read[place[i]]
    BY <2>6 DEF Selects, n
  <2> DEFINE at == [i \in 1 .. n |-> list[place[i]]]
  <2>7. \A i \in 1 .. n : place[i] \in taken /\ at[i] = list[place[i]] /\ rows[i] = heap[at[i]].row
    BY <2>2, <2>61
  <2>8. at \in [1 .. n -> L]
    BY <2>2, <2>7
  <2> HIDE DEF at
  <2>9. IsInjective(at)
    BY <2>4, <2>61, <2>7, <2>8 DEF IsInjective
  <2>10. \A l \in L : \E i \in 1 .. n : at[i] = l
    BY <1>15, <2>61, <2>7
  <2>11. \A i \in 1 .. n : rows[i] \in Rows
    BY <2>3, <2>7, <2>8 DEF HeapOK
  <2>12. rows \in Seq(Rows)
    <3>1. n \in Nat /\ rows = [i \in 1 .. n |-> rows[i]]
      BY <2>5 DEF n
    <3>2. rows \in [1 .. n -> Rows]
      BY <2>11, <3>1
    <3> QED BY <3>1, <3>2
  <2> QED BY <2>3, <2>5, <2>7, <2>8, <2>9, <2>10, <2>12 DEF TakenRows, n
<1>17. ASSUME IsInjective(list), L \subseteq Live(heap), twice PROVE FALSE
  <2>1. PICK i \in taken : Again(w, list, i) \/ ~heap[list[i]].used
    BY <1>17
  <2>2. i \in DOMAIN list /\ i \in 1 .. Len(list)
    BY <1>2
  <2>3. ~Again(w, list, i)
    <3>1. ASSUME NEW j \in 1 .. i - 1, list[j] = list[i] PROVE FALSE
      <4>1. j \in 1 .. Len(list) /\ j # i
        BY <1>2, <2>2
      <4> QED BY <1>2, <1>17, <2>2, <3>1, <4>1 DEF IsInjective
    <3> QED BY <3>1 DEF Again
  <2>4. list[i] \in L
    BY <1>10, <1>14, <2>2, <2>3
  <2> QED BY <1>17, <2>1, <2>3, <2>4 DEF Live
<1> QED BY <1>1, <1>2, <1>6, <1>8, <1>9, <1>16, <1>17 DEF L

(* The index ix of column c has each row of h once and nothing else.        *)
Exact(ix, h, c) ==
  \A v \in Vals \cup {Null} : /\ IsInjective(Get(ix, v))
                              /\ ToSet(Get(ix, v)) = {l \in Live(h) : h[l].row[c] = v}

(* The rows at L, all of which meet w, were taken out, and what the indexes *)
(* list of other rows stayed; no row that meets w is missed unless an index *)
(* was dropped once.                                                        *)
TakenOut(t, w, L) ==
  /\ TakenRows(t.rows, L)
  /\ Live(t.heap) = Live(heap) \ L /\ \A l \in Locs \ L : t.heap[l] = heap[l]
  /\ \A l \in L : Meets(heap[l].row, w)
  /\ dropped = {} => \A l \in Live(heap) : Meets(heap[l].row, w) => l \in L
  /\ \A c \in Cols, v \in Vals \cup {Null} : ToSet(Get(index[c], v)) \ L \subseteq ToSet(Get(t.index[c], v))
  /\ Cardinality(files) = 1 /\ dropped = {} => \A c \in files : Exact(t.index[c], t.heap, c)

(* What DELETE and UPDATE leave, and how the process may end.               *)
TakeOK(t, w) ==
  /\ HeapOK(t.heap)
  /\ DOMAIN t.index = Cols /\ \A c \in Cols : Shorter(t.index[c], index[c])
  /\ \A c \in Cols \ flag : t.index[c] = index[c]
  /\ t.end \in {"alive", "keyNotFound", "doubleFree"}
  /\ t.end = "doubleFree" => Cardinality(files) > 1 \/ dropped # {}
  /\ t.end = "alive" => \E L \in SUBSET Live(heap) : TakenOut(t, w, L)

(* What the invariant says of the heap and the indexes, in the words above. *)
LEMMA StateFacts ==
  ASSUME IInv
  PROVE  /\ HeapOK(heap) /\ DOMAIN index = Cols /\ \A c \in Cols : IxOK(index[c])
         /\ Live(heap) \in SUBSET Locs /\ IsFiniteSet(Locs) /\ IsFiniteSet(Live(heap))
         /\ Cardinality(Locs \ Live(heap)) \in Nat
         /\ flag \subseteq files /\ files \subseteq Cols /\ IsFiniteSet(files) /\ files \ dropped \subseteq flag
         /\ \A l \in Live(heap), c \in Cols : heap[l].row[c] \in Vals \cup {Null}
         /\ status = "alive" /\ Cardinality(files) = 1 /\ dropped = {} =>
              \A c \in files : Exact(index[c], heap, c)
<1>1. HeapOK(heap) /\ DOMAIN index = Cols /\ \A c \in Cols : IxOK(index[c])
  BY DEF IInv, TypeOK, HeapOK, IxOK
<1>2. Live(heap) \in SUBSET Locs /\ IsFiniteSet(Locs)
  BY FS_Interval DEF Live, Locs
<1>3. IsFiniteSet(Live(heap)) /\ Cardinality(Locs \ Live(heap)) \in Nat
  <2>1. IsFiniteSet(Live(heap))
    BY <1>2, FS_Subset
  <2>2. IsFiniteSet(Locs \ Live(heap))
    BY <1>2, FS_Subset
  <2>3. Cardinality(Locs \ Live(heap)) \in Nat
    BY <2>2, FS_CardinalityType
  <2> QED BY <2>1, <2>3
<1>4. flag \subseteq files /\ files \subseteq Cols /\ files \ dropped \subseteq flag
  BY DEF IInv, TypeOK, FilesUsed
<1>5. IsFiniteSet(files)
  <2>1. IsFiniteSet(Cols)
    BY FS_Interval DEF Cols
  <2> QED BY <1>4, <2>1, FS_Subset
<1>6. \A l \in Live(heap), c \in Cols : heap[l].row[c] \in Vals \cup {Null}
  BY <1>1 DEF HeapOK, Rows
<1>7. status = "alive" /\ Cardinality(files) = 1 /\ dropped = {} => \A c \in files : Exact(index[c], heap, c)
  BY DEF IInv, OneIndexExact, Exact
<1> QED BY <1>1, <1>2, <1>3, <1>4, <1>5, <1>6, <1>7

(* deleteAndCollectItems.                                                   *)
LEMMA TakeItemsFacts ==
  ASSUME IInv, status = "alive", NEW w, NEW t, t = TakeItems(w)
  PROVE  TakeOK(t, w)
<1> DEFINE list == Ordered(Live(heap))
           f == Freeing(w, list)
           L == f.locs
           X(c) == [v \in DOMAIN index[c] |-> {l \in L : heap[l].row[c] = v}]
           ixs == [c \in Cols |-> IF c \in flag
                     THEN [v \in DOMAIN index[c] |-> Less(index[c][v], {l \in L : heap[l].row[c] = v})]
                     ELSE index[c]]
<1>1. t.heap = f.heap /\ t.rows = f.rows /\ t.index = ixs /\ t.end \in {"alive", "keyNotFound"}
  BY DEF TakeItems
<1>2. list \in Seq(Locs) /\ IsInjective(list) /\ ToSet(list) = Live(heap)
  <2>1. Live(heap) \in SUBSET Nat /\ IsFiniteSet(Live(heap)) /\ Live(heap) \subseteq Locs
    BY StateFacts DEF Locs
  <2>2. list \in Seq(Live(heap)) /\ IsInjective(list) /\ ToSet(list) = Live(heap)
    BY <2>1, OrderedFacts
  <2> HIDE DEF list
  <2> QED BY <2>1, <2>2
<1> HIDE DEF list
<1>3. HeapOK(heap)
  BY StateFacts
<1>4. /\ L = Met(w, list) /\ HeapOK(f.heap) /\ Live(f.heap) = Live(heap) \ L
      /\ \A l \in Locs \ L : f.heap[l] = heap[l]
      /\ ~f.twice => L \subseteq Live(heap) /\ TakenRows(f.rows, L)
      /\ IsInjective(list) /\ L \subseteq Live(heap) => ~f.twice
  BY <1>2, <1>3, FreeingFacts
<1>5. L = {l \in Live(heap) : Meets(heap[l].row, w)}
  BY <1>2, <1>4 DEF Met
<1>6. L \in SUBSET Live(heap) /\ TakenRows(f.rows, L)
  BY <1>2, <1>4, <1>5
<1> HIDE DEF L, f
<1>7. ASSUME NEW c \in flag
      PROVE  /\ Shorter(ixs[c], index[c])
             /\ \A v \in DOMAIN index[c] :
                  ToSet(Get(ixs[c], v)) = ToSet(Get(index[c], v)) \ {l \in L : heap[l].row[c] = v}
  <2> DEFINE ix == index[c]
             new == ixs[c]
             Y == X(c)
  <2>1. IxOK(ix) /\ c \in Cols
    BY StateFacts
  <2>2. /\ new = [v \in DOMAIN ix |-> Less(ix[v], {l \in L : heap[l].row[c] = v})]
        /\ \A v \in DOMAIN ix : Y[v] = {l \in L : heap[l].row[c] = v}
    BY <2>1
  <2> HIDE DEF ixs, X, ix, new, Y
  <2>3. new = [v \in DOMAIN ix |-> Less(ix[v], Y[v])]
    BY <2>2
  <2>4. Shorter(new, ix) /\ \A v \in DOMAIN ix : ToSet(Get(new, v)) = ToSet(Get(ix, v)) \ Y[v]
    BY <2>1, <2>3, AllUnlistedFacts
  <2> QED BY <2>2, <2>4 DEF ix, new
<1>8. ASSUME NEW c \in Cols \ flag PROVE ixs[c] = index[c]
  OBVIOUS
<1>9. DOMAIN ixs = Cols
  OBVIOUS
<1> HIDE DEF ixs
<1>10. \A c \in Cols : Shorter(ixs[c], index[c])
  <2>1. ASSUME NEW c \in Cols \ flag PROVE Shorter(ixs[c], index[c])
    BY <1>8, StateFacts DEF Shorter
  <2> QED BY <1>7, <2>1
<1>11. ASSUME NEW c \in Cols, NEW v \in Vals \cup {Null}
       PROVE  ToSet(Get(index[c], v)) \ L \subseteq ToSet(Get(ixs[c], v))
  <2>1. CASE c \in flag /\ v \in DOMAIN index[c]
    BY <1>7, <2>1
  <2>2. CASE v \notin DOMAIN index[c]
    <3>1. ToSet(Get(index[c], v)) = {}
      BY <2>2, StateFacts, GetFacts
    <3> QED BY <3>1
  <2>3. CASE c \notin flag
    BY <1>8, <2>3
  <2> QED BY <2>1, <2>2, <2>3
<1>12. ASSUME Cardinality(files) = 1, dropped = {}, NEW c \in files PROVE Exact(ixs[c], f.heap, c)
  <2>1. Exact(index[c], heap, c) /\ c \in flag /\ c \in Cols /\ IxOK(index[c])
    BY <1>12, StateFacts
  <2> SUFFICES ASSUME NEW v \in Vals \cup {Null}
               PROVE  /\ IsInjective(Get(ixs[c], v))
                      /\ ToSet(Get(ixs[c], v)) = {l \in Live(f.heap) : f.heap[l].row[c] = v}
    BY DEF Exact
  <2>2. /\ IsInjective(Get(index[c], v))
        /\ ToSet(Get(index[c], v)) = {l \in Live(heap) : heap[l].row[c] = v}
    BY <2>1 DEF Exact
  <2>3. IsInjective(Get(ixs[c], v)) /\ ToSet(Get(ixs[c], v)) \subseteq ToSet(Get(index[c], v))
    BY <1>7, <2>1, <2>2 DEF Shorter
  <2>4. {l \in Live(f.heap) : f.heap[l].row[c] = v} = {l \in Live(heap) : heap[l].row[c] = v} \ L
    BY <1>4, StateFacts
  <2>5. ToSet(Get(ixs[c], v)) = ToSet(Get(index[c], v)) \ L
    <3>1. CASE v \in DOMAIN index[c]
      BY <1>7, <2>1, <2>2, <3>1
    <3>2. CASE v \notin DOMAIN index[c]
      BY <2>1, <2>3, <3>2, GetFacts
    <3> QED BY <3>1, <3>2
  <2> QED BY <2>2, <2>3, <2>4, <2>5
<1>13. TakenOut(t, w, L)
  BY <1>1, <1>4, <1>5, <1>6, <1>11, <1>12 DEF TakenOut
<1> QED BY <1>1, <1>4, <1>6, <1>8, <1>9, <1>10, <1>13 DEF TakeOK

(* deleteAndCollectUseIndex.                                                *)
LEMMA TakeUseIndexFacts ==
  ASSUME IInv, status = "alive", NEW w, NEW c \in ByIndex(w), NEW t, t = TakeUseIndex(c, w)
  PROVE  TakeOK(t, w)
<1> DEFINE v == w[c].val
           list == Get(index[c], v)
           f == Freeing(w, list)
           L == f.locs
           told == Unlisted(index[c], v, L)
           ixs == [index EXCEPT ![c] = told]
<1>1. c \in flag /\ c \in files /\ c \in Cols /\ w[c].op = "="
  BY StateFacts DEF ByIndex
<1>2. /\ HeapOK(heap) /\ DOMAIN index = Cols /\ \A d \in Cols : IxOK(index[d])
  BY StateFacts
<1>3. CASE v \notin DOMAIN index[c]
  <2>1. t.heap = heap /\ t.index = index /\ t.end = "keyNotFound"
    BY <1>3 DEF TakeUseIndex
  <2> QED BY <1>2, <2>1 DEF TakeOK, Shorter
<1>4. CASE v \in DOMAIN index[c]
  <2>1. /\ t.heap = f.heap /\ t.rows = f.rows /\ t.index = ixs
        /\ t.end \in {"alive", "doubleFree"} /\ (t.end = "alive" <=> ~f.twice)
    BY <1>4 DEF TakeUseIndex
  <2>2. list \in Seq(Locs) /\ v \in Vals \cup {Null}
    BY <1>1, <1>2, <1>4, GetFacts DEF IxOK
  <2> HIDE DEF list
  <2>3. /\ L = Met(w, list) /\ HeapOK(f.heap) /\ Live(f.heap) = Live(heap) \ L
        /\ \A l \in Locs \ L : f.heap[l] = heap[l]
        /\ ~f.twice => L \subseteq Live(heap) /\ TakenRows(f.rows, L)
        /\ IsInjective(list) /\ L \subseteq Live(heap) => ~f.twice
    BY <1>2, <2>2, FreeingFacts
  <2>4. L = {l \in ToSet(list) : Meets(heap[l].row, w)}
    BY <2>3 DEF Met
  <2> HIDE DEF L, f
  <2>5. /\ Shorter(told, index[c]) /\ ToSet(Get(told, v)) = ToSet(Get(index[c], v)) \ L
        /\ \A x : x # v => Get(told, x) = Get(index[c], x)
    <3> DEFINE ix == index[c]
               val == v
    <3>1. IxOK(ix) /\ val \in DOMAIN ix /\ told = Unlisted(ix, val, L)
      BY <1>1, <1>2, <1>4
    <3> HIDE DEF ix, val, told
    <3>2. /\ Shorter(told, ix) /\ ToSet(Get(told, val)) = ToSet(Get(ix, val)) \ L
          /\ \A x : x # val => Get(told, x) = Get(ix, x)
      BY <3>1, UnlistedFacts
    <3> QED BY <3>2 DEF ix, val
  <2> HIDE DEF told
  <2>6. DOMAIN ixs = Cols /\ ixs[c] = told /\ \A d \in Cols \ {c} : ixs[d] = index[d]
    BY <1>1, <1>2
  <2> HIDE DEF ixs
  <2>7. \A d \in Cols : Shorter(ixs[d], index[d])
    <3>1. \A d \in Cols \ {c} : Shorter(ixs[d], index[d])
      BY <1>2, <2>6 DEF Shorter
    <3> QED BY <2>5, <2>6, <3>1
  <2>8. \A d \in Cols \ flag : ixs[d] = index[d]
    BY <1>1, <2>6
  <2>9. ASSUME NEW d \in Cols, NEW x \in Vals \cup {Null}
        PROVE  ToSet(Get(index[d], x)) \ L \subseteq ToSet(Get(ixs[d], x))
    <3>1. CASE d # c
      BY <2>6, <3>1
    <3>2. CASE d = c /\ x # v
      BY <2>5, <2>6, <3>2
    <3>3. CASE d = c /\ x = v
      BY <2>5, <2>6, <3>3
    <3> QED BY <3>1, <3>2, <3>3
  <2>10. ASSUME Cardinality(files) = 1, dropped = {}
         PROVE  files = {c} /\ Exact(index[c], heap, c)
    <3>1. Exact(index[c], heap, c)
      BY <1>1, <2>10, StateFacts
    <3>2. files = {c}
      <4>1. PICK x : files = {x}
        BY <2>10, StateFacts, FS_Singleton
      <4> QED BY <1>1, <4>1
    <3> QED BY <3>1, <3>2
  <2>11. ASSUME f.twice PROVE Cardinality(files) > 1 \/ dropped # {}
    <3>1. SUFFICES ASSUME dropped = {}, Cardinality(files) = 1 PROVE FALSE
      <4>1. Cardinality(files) \in Nat /\ Cardinality(files) # 0
        BY <1>1, StateFacts, FS_CardinalityType, FS_EmptySet
      <4> QED BY <4>1
    <3>2. IsInjective(list) /\ ToSet(list) \subseteq Live(heap)
      BY <2>2, <2>10, <3>1 DEF Exact, list
    <3> QED BY <2>3, <2>4, <2>11, <3>2
  <2>12. ASSUME dropped = {}, NEW l \in Live(heap), Meets(heap[l].row, w) PROVE l \in L
    <3>1. heap[l].row[c] = v
      BY <1>1, <2>12 DEF Meets
    <3>2. l \in ToSet(list)
      BY <1>1, <2>12, <3>1 DEF IInv, IndexComplete, list
    <3> QED BY <2>4, <2>12, <3>2
  <2>13. ASSUME Cardinality(files) = 1, dropped = {}, NEW d \in files PROVE Exact(ixs[d], f.heap, d)
    <3>1. d = c /\ Exact(index[c], heap, c) /\ ixs[d] = told
      BY <2>6, <2>10, <2>13
    <3>2. ASSUME NEW x \in Vals \cup {Null}
          PROVE  /\ IsInjective(Get(told, x))
                 /\ ToSet(Get(told, x)) = {l \in Live(f.heap) : f.heap[l].row[c] = x}
      <4>1. /\ IsInjective(Get(index[c], x))
            /\ ToSet(Get(index[c], x)) = {l \in Live(heap) : heap[l].row[c] = x}
        BY <3>1 DEF Exact
      <4>2. IsInjective(Get(told, x))
        BY <2>5, <4>1 DEF Shorter
      <4>3. {l \in Live(f.heap) : f.heap[l].row[c] = x} = {l \in Live(heap) : heap[l].row[c] = x} \ L
        BY <2>3, StateFacts
      <4>4. CASE x = v
        BY <2>5, <4>1, <4>2, <4>3, <4>4
      <4>5. CASE x # v
        <5>1. \A l \in L : heap[l].row[c] = v
          BY <1>1, <2>4, <2>2, <3>1 DEF Exact, list
        <5> QED BY <2>5, <4>1, <4>2, <4>3, <4>5, <5>1
      <4> QED BY <4>4, <4>5
    <3> QED BY <3>1, <3>2 DEF Exact
  <2>14. ASSUME ~f.twice PROVE L \in SUBSET Live(heap) /\ TakenOut(t, w, L)
    <3>1. L \subseteq Live(heap) /\ TakenRows(f.rows, L)
      BY <2>3, <2>14
    <3> QED BY <2>1, <2>3, <2>4, <2>9, <2>12, <2>13, <3>1 DEF TakenOut
  <2> QED BY <2>1, <2>3, <2>6, <2>7, <2>8, <2>11, <2>14 DEF TakeOK
<1> QED BY <1>3, <1>4

(* Whichever way the rows are found.                                        *)
LEMMA TakesFacts ==
  ASSUME IInv, status = "alive", NEW w, NEW t \in Takes(w)
  PROVE  TakeOK(t, w)
<1>1. CASE ByIndex(w) = {}
  BY <1>1, TakeItemsFacts DEF Takes
<1>2. CASE ByIndex(w) # {}
  <2>1. PICK c \in ByIndex(w) : t = TakeUseIndex(c, w)
    BY <1>2 DEF Takes
  <2> QED BY <2>1, TakeUseIndexFacts
<1> QED BY <1>1, <1>2

-----------------------------------------------------------------------------
(* Rows put back *)

(* A statement goes on with the rows behind the first.                      *)
LEMMA RestFacts ==
  ASSUME NEW s \in Statements, s.rows # <<>>, NEW r, r = Rest(s)
  PROVE  /\ Len(s.rows) \in Nat /\ Len(r.rows) = Len(s.rows) - 1
         /\ r = Idle \/ (r \in Statements /\ r.rows # <<>> /\ r.kind = s.kind /\ r.set = s.set)
         /\ Head(s.rows) \in Rows /\ 1 \in DOMAIN s.rows /\ Head(s.rows) = s.rows[1]
         /\ \A i \in DOMAIN r.rows : i + 1 \in DOMAIN s.rows /\ i + 1 # 1 /\ i \in Nat /\ r.rows[i] = s.rows[i + 1]
<1> DEFINE rows == s.rows
           n == Len(rows)
<1>1. /\ rows \in Seq(Rows) /\ s.set \in Settings \cup {<<>>} /\ s.kind \in {"insert", "update"}
      /\ s = [kind |-> s.kind, rows |-> s.rows, set |-> s.set]
  BY DEF Statements
<1>2. n \in Nat /\ n # 0 /\ DOMAIN rows = 1 .. n
  BY <1>1, EmptySeq, LenProperties
<1>3. /\ Tail(rows) \in Seq(Rows) /\ Len(Tail(rows)) = n - 1 /\ Head(rows) = rows[1] /\ Head(rows) \in Rows
      /\ \A i \in 1 .. n - 1 : Tail(rows)[i] = rows[i + 1]
  BY <1>1, <1>2
<1>4. CASE n = 1
  <2>1. r = Idle
    BY <1>4 DEF Rest
  <2>2. r.rows = <<>> /\ Len(r.rows) = 0 /\ DOMAIN r.rows = {}
    BY <2>1 DEF Idle
  <2> QED BY <1>2, <1>3, <1>4, <2>1, <2>2
<1>5. CASE n # 1
  <2>1. r = [kind |-> s.kind, rows |-> Tail(rows), set |-> s.set]
    BY <1>1, <1>5 DEF Rest
  <2>2. r.rows = Tail(rows) /\ r.kind = s.kind /\ r.set = s.set /\ r \in Statements
    BY <1>1, <1>3, <2>1 DEF Statements
  <2> DEFINE rest == Tail(rows)
  <2> HIDE DEF rows, n, rest
  <2>3. Len(r.rows) = n - 1 /\ r.rows # <<>> /\ DOMAIN r.rows = 1 .. n - 1
    <3>1. rest \in Seq(Rows) /\ Len(rest) = n - 1 /\ n - 1 # 0
      BY <1>2, <1>3, <1>5 DEF rest
    <3>2. DOMAIN rest = 1 .. n - 1 /\ rest # <<>>
      BY <3>1, EmptySeq, LenProperties
    <3> QED BY <2>2, <3>1, <3>2 DEF rest
  <2>4. \A i \in 1 .. n - 1 : i + 1 \in 1 .. n /\ i + 1 # 1 /\ i \in Nat
    BY <1>2
  <2>5. 1 \in 1 .. n
    BY <1>2
  <2> QED BY <1>2, <1>3, <2>2, <2>3, <2>4, <2>5 DEF rows, n
<1> QED BY <1>4, <1>5

(* The checks insertInTable makes before it puts a row.                     *)
LEMMA VerdictFacts ==
  ASSUME IInv, status = "alive", NEW row, Verdict(row) = "ok"
  PROVE  /\ Passed(row)
         /\ \A c \in schema.unique \cap flag : \A l \in ToSet(Get(index[c], row[c])) : heap[l].row[c] # row[c]
<1>1. \A c \in Cols : ~CheckFails(row, c)
  BY DEF Verdict
<1>2. schema \in Schemas /\ schema.unique \cup schema.gender \subseteq Cols /\ schema.unique \subseteq schema.notNull
  BY DEF IInv, TypeOK
<1>3. Passed(row)
  BY <1>1 DEF CheckFails, Passed
<1>4. ASSUME NEW c \in schema.unique \cap flag PROVE row[c] # Null /\ SelectUseIndex(c, row[c]) = {}
  <2>1. c \in Cols /\ ~CheckFails(row, c)
    BY <1>1, <1>2
  <2>2. row[c] # Null
    BY <1>2, <1>3, <2>1 DEF Passed
  <2> QED BY <2>1, <2>2 DEF CheckFails
<1>5. ASSUME NEW c \in schema.unique \cap flag, NEW l \in ToSet(Get(index[c], row[c])) PROVE heap[l].row[c] # row[c]
  BY <1>4 DEF SelectUseIndex
<1> QED BY <1>3, <1>5

(* putRow: the row is in the table and in every index that is in use.       *)
LEMMA PutFacts ==
  ASSUME IInv, status = "alive", stmt # Idle,
         NEW row \in Rows, Verdict(row) = "ok", Put(row), stmt' = Rest(stmt),
         UNCHANGED <<schema, files, flag, dropped, parent>>,
         stmt.kind = "update" => \A c \in Cols \ {stmt.set[1]} : row[c] = Head(stmt.rows)[c]
  PROVE  IInv'
<1> DEFINE l == RowPlace(Locs \ Live(heap))
           room == Cardinality(Locs \ Live(heap))
           n == Len(stmt.rows)
<1>1. TypeOK /\ stmt \in Statements /\ stmt.rows # <<>>
  BY DEF IInv, TypeOK
<1>2. /\ n \in Nat /\ Len(stmt'.rows) = n - 1
      /\ stmt' = Idle \/ (stmt' \in Statements /\ stmt'.rows # <<>> /\ stmt'.kind = stmt.kind /\ stmt'.set = stmt.set)
      /\ 1 \in DOMAIN stmt.rows /\ Head(stmt.rows) = stmt.rows[1]
      /\ \A i \in DOMAIN stmt'.rows :
           i + 1 \in DOMAIN stmt.rows /\ i + 1 # 1 /\ i \in Nat /\ stmt'.rows[i] = stmt.rows[i + 1]
  <2> DEFINE s == stmt
             r == stmt'
  <2>1. s \in Statements /\ s.rows # <<>> /\ r = Rest(s)
    BY <1>1
  <2> HIDE DEF s, r
  <2>2. /\ Len(s.rows) \in Nat /\ Len(r.rows) = Len(s.rows) - 1
        /\ r = Idle \/ (r \in Statements /\ r.rows # <<>> /\ r.kind = s.kind /\ r.set = s.set)
        /\ Head(s.rows) \in Rows /\ 1 \in DOMAIN s.rows /\ Head(s.rows) = s.rows[1]
        /\ \A i \in DOMAIN r.rows :
             i + 1 \in DOMAIN s.rows /\ i + 1 # 1 /\ i \in Nat /\ r.rows[i] = s.rows[i + 1]
    BY <2>1, RestFacts
  <2> QED BY <2>2 DEF s, r
<1>3. /\ HeapOK(heap) /\ DOMAIN index = Cols /\ \A c \in Cols : IxOK(index[c])
      /\ Live(heap) \in SUBSET Locs /\ IsFiniteSet(Locs) /\ room \in Nat
      /\ flag \subseteq files /\ files \subseteq Cols /\ files \ dropped \subseteq flag
      /\ \A k \in Live(heap), c \in Cols : heap[k].row[c] \in Vals \cup {Null}
      /\ Cardinality(files) = 1 /\ dropped = {} => \A c \in files : Exact(index[c], heap, c)
  BY StateFacts
<1>4. l \in Locs \ Live(heap) /\ n <= room /\ Len(stmt'.rows) <= Cardinality((Locs \ Live(heap)) \ {l})
  <2> DEFINE F == Locs \ Live(heap)
  <2>1. F \in SUBSET Locs /\ IsFiniteSet(F) /\ n <= room /\ room = Cardinality(F)
    BY <1>3, FS_Subset DEF IInv, RoomLeft
  <2>2. n >= 1
    <3>1. stmt.rows \in Seq(Rows)
      BY <1>1 DEF Statements
    <3>2. n # 0
      BY <1>1, <3>1, EmptySeq, LenProperties
    <3> QED BY <1>2, <3>2
  <2> HIDE DEF F, n, room
  <2>3. F # {}
    <3>1. Cardinality(F) # 0
      BY <1>2, <1>3, <2>1, <2>2
    <3> QED BY <3>1, FS_EmptySet
  <2>4. l \in F
    <3> HIDE DEF l
    <3>1. l = RowPlace(F)
      BY DEF l, F
    <3> QED BY <2>1, <2>3, <3>1
  <2> HIDE DEF l
  <2>5. Cardinality(F \ {l}) = Cardinality(F) - 1
    BY <2>1, <2>4, FS_RemoveElement
  <2> QED BY <1>2, <1>3, <2>1, <2>2, <2>4, <2>5 DEF F
<1>5. /\ heap' = [heap EXCEPT ![l] = [used |-> TRUE, row |-> row]]
      /\ \/ status' = "listFull" /\ index' = index
         \/ status' = "alive" /\ index' = Indexed(row, l)
  BY DEF Put
<1> HIDE DEF l, room, n
<1>6. /\ heap'[l] = [used |-> TRUE, row |-> row] /\ \A k \in Locs \ {l} : heap'[k] = heap[k]
      /\ Live(heap') = Live(heap) \cup {l}
      /\ HeapOK(heap')
  <2>1. row \in [Cols -> Vals \cup {Null, Junk}]
    BY DEF Rows
  <2>2. heap \in [Locs -> Blocks] /\ [used |-> TRUE, row |-> row] \in Blocks
    BY <1>3, <2>1 DEF HeapOK, Blocks
  <2>3. heap' \in [Locs -> Blocks]
    BY <1>5, <2>2
  <2>4. heap'[l] = [used |-> TRUE, row |-> row] /\ \A k \in Locs \ {l} : heap'[k] = heap[k]
    BY <1>4, <1>5, <2>2
  <2>5. Live(heap') = Live(heap) \cup {l}
    BY <1>4, <2>4 DEF Live
  <2> QED BY <1>3, <2>3, <2>4, <2>5 DEF HeapOK
<1>7. \A c \in Cols : row[c] \in Vals \cup {Null}
  BY DEF Rows
<1>8. ASSUME NEW c \in Cols, index' = Indexed(row, l)
      PROVE  /\ c \notin flag => index'[c] = index[c]
             /\ c \in flag => /\ IxOK(index'[c])
                              /\ ToSet(Get(index'[c], row[c])) = ToSet(Get(index[c], row[c])) \cup {l}
                              /\ l \notin ToSet(Get(index[c], row[c])) /\ IsInjective(Get(index[c], row[c]))
                                   => IsInjective(Get(index'[c], row[c]))
                              /\ \A x : x # row[c] => Get(index'[c], x) = Get(index[c], x)
  <2>1. CASE c \notin flag
    BY <1>8, <2>1 DEF Indexed
  <2>2. CASE c \in flag
    <3> DEFINE ix == index[c]
               new == index'[c]
               v == row[c]
    <3>1. IxOK(ix) /\ v \in Vals \cup {Null} /\ l \in Locs /\ new = Listed(ix, v, l)
      BY <1>3, <1>4, <1>7, <1>8, <2>2 DEF Indexed
    <3> HIDE DEF ix, new, v
    <3>2. /\ IxOK(new) /\ ToSet(Get(new, v)) = ToSet(Get(ix, v)) \cup {l}
          /\ l \notin ToSet(Get(ix, v)) /\ IsInjective(Get(ix, v)) => IsInjective(Get(new, v))
          /\ \A x : x # v => Get(new, x) = Get(ix, x)
      BY <3>1, ListedFacts
    <3> QED BY <2>2, <3>2 DEF ix, new, v
  <2> QED BY <2>1, <2>2
<1>9. DOMAIN index' = Cols /\ \A c \in Cols : IxOK(index'[c]) /\ (c \notin flag => index'[c] = index[c])
  <2>1. DOMAIN index' = Cols
    BY <1>3, <1>5 DEF Indexed
  <2>2. CASE index' = index
    BY <1>3, <2>2
  <2>3. CASE index' = Indexed(row, l)
    <3>1. ASSUME NEW c \in Cols PROVE IxOK(index'[c]) /\ (c \notin flag => index'[c] = index[c])
      <4>1. CASE c \in flag
        BY <1>8, <2>3, <4>1
      <4>2. CASE c \notin flag
        BY <1>3, <1>8, <2>3, <4>2
      <4> QED BY <4>1, <4>2
    <3> QED BY <2>1, <3>1
  <2> QED BY <1>5, <2>1, <2>2, <2>3
<1>10. TypeOK'
  <2>1. stmt' = Idle \/ (stmt' \in Statements /\ stmt'.rows # <<>>)
    BY <1>2
  <2>2. heap' \in [Locs -> Blocks] /\ \A k \in Live(heap') : heap'[k].row \in Rows
    BY <1>6 DEF HeapOK
  <2>3. /\ DOMAIN index' = Cols
        /\ \A c \in Cols : /\ DOMAIN index'[c] \subseteq Vals \cup {Null}
                           /\ \A v \in DOMAIN index'[c] : index'[c][v] \in Seq(Locs)
    BY <1>9 DEF IxOK
  <2>4. status' \in {"alive", "noParent", "setNull", "listFull", "keyNotFound", "doubleFree"}
    BY <1>5
  <2> QED BY <1>1, <2>1, <2>2, <2>3, <2>4 DEF TypeOK
<1>11. FilesUsed'
  BY <1>3, <1>9 DEF IInv, FilesUsed
<1>12. DoubleFreeOnlyIfStale'
  BY <1>5 DEF DoubleFreeOnlyIfStale
<1>13. CASE status' # "alive"
  BY <1>10, <1>11, <1>12, <1>13
     DEF IInv, RoomLeft, RowsChecked, PendingDistinct, IndexComplete, OneIndexExact, UniqueUnlessDropped
<1>14. CASE status' = "alive"
  <2>1. index' = Indexed(row, l)
    BY <1>5, <1>14
  <2>2. RoomLeft'
    <3>1. Locs \ Live(heap') = (Locs \ Live(heap)) \ {l}
      BY <1>6
    <3> QED BY <1>4, <3>1 DEF RoomLeft
  <2>3. /\ Passed(row)
        /\ \A c \in schema.unique \cap flag : \A k \in ToSet(Get(index[c], row[c])) : heap[k].row[c] # row[c]
    BY VerdictFacts
  <2>4. RowsChecked'
    <3>1. ASSUME NEW k \in Live(heap') PROVE Passed(heap[k].row)'
      <4>1. CASE k = l
        BY <1>6, <2>3, <4>1 DEF Passed
      <4>2. CASE k # l
        <5>1. Passed(heap[k].row) /\ heap'[k] = heap[k]
          BY <1>3, <1>6, <3>1, <4>2 DEF IInv, RowsChecked
        <5> QED BY <5>1 DEF Passed
      <4> QED BY <4>1, <4>2
    <3>2. ASSUME stmt'.kind = "update", NEW i \in DOMAIN stmt'.rows PROVE Passed(stmt.rows[i])'
      <4>1. stmt.kind = "update"
        BY <1>2, <3>2 DEF Idle
      <4>2. Passed(stmt.rows[i + 1])
        BY <1>2, <3>2, <4>1 DEF IInv, RowsChecked
      <4> QED BY <1>2, <3>2, <4>2 DEF Passed
    <3> QED BY <3>1, <3>2 DEF RowsChecked
  <2>5. PendingDistinct'
    <3> SUFFICES ASSUME stmt'.kind = "update" PROVE PendingDistinct'
      BY DEF PendingDistinct
    <3>1. stmt.kind = "update" /\ stmt'.set = stmt.set
      BY <1>2 DEF Idle
    <3>2. stmt.set \in Settings
      BY <3>1 DEF IInv, PendingDistinct
    <3>3. ASSUME NEW c \in schema.unique \ (dropped \cup {stmt.set[1]})
          PROVE  /\ \A i, j \in DOMAIN stmt'.rows : i # j => stmt'.rows[i][c] # stmt'.rows[j][c]
                 /\ \A i \in DOMAIN stmt'.rows, k \in Live(heap') : stmt'.rows[i][c] # heap'[k].row[c]
      <4>1. /\ \A i, j \in DOMAIN stmt.rows : i # j => stmt.rows[i][c] # stmt.rows[j][c]
            /\ \A i \in DOMAIN stmt.rows, k \in Live(heap) : stmt.rows[i][c] # heap[k].row[c]
        BY <3>1, <3>3 DEF IInv, PendingDistinct
      <4>2. ASSUME NEW i \in DOMAIN stmt'.rows, NEW j \in DOMAIN stmt'.rows, i # j
            PROVE  stmt'.rows[i][c] # stmt'.rows[j][c]
        <5>1. i + 1 # j + 1
          BY <1>2, <4>2
        <5> QED BY <1>2, <4>1, <4>2, <5>1
      <4>3. ASSUME NEW i \in DOMAIN stmt'.rows, NEW k \in Live(heap') PROVE stmt'.rows[i][c] # heap'[k].row[c]
        <5>1. CASE k \in Live(heap)
          <6>1. heap'[k] = heap[k]
            BY <1>4, <1>6, <5>1 DEF Live
          <6>2. i + 1 \in DOMAIN stmt.rows /\ stmt'.rows[i] = stmt.rows[i + 1]
            BY <1>2, <4>3
          <6>3. stmt.rows[i + 1][c] # heap[k].row[c]
            BY <4>1, <5>1, <6>2
          <6> QED BY <6>1, <6>2, <6>3
        <5>2. CASE k = l
          <6>1. c \in Cols \ {stmt.set[1]}
            BY <1>1, <3>3 DEF TypeOK
          <6>2. row[c] = stmt.rows[1][c]
            BY <1>2, <3>1, <6>1
          <6> QED BY <1>2, <1>6, <4>1, <4>3, <5>2, <6>2
        <5> QED BY <1>6, <4>3, <5>1, <5>2
      <4> QED BY <4>2, <4>3
    <3> QED BY <3>1, <3>2, <3>3 DEF PendingDistinct
  <2>6. IndexComplete'
    <3> SUFFICES ASSUME NEW c \in flag \ dropped, NEW k \in Live(heap')
                 PROVE  k \in ToSet(Get(index'[c], heap'[k].row[c]))
      BY DEF IndexComplete
    <3>1. c \in Cols
      BY <1>3
    <3>2. CASE k = l
      BY <1>6, <1>8, <2>1, <3>1, <3>2
    <3>3. CASE k # l
      <4>1. k \in Live(heap) /\ heap'[k] = heap[k]
        BY <1>3, <1>6, <3>3
      <4>2. k \in ToSet(Get(index[c], heap[k].row[c])) /\ c \in flag
        BY <4>1 DEF IInv, IndexComplete
      <4>3. CASE heap[k].row[c] = row[c]
        BY <1>8, <2>1, <3>1, <4>1, <4>2, <4>3
      <4>4. CASE heap[k].row[c] # row[c]
        BY <1>8, <2>1, <3>1, <4>1, <4>2, <4>4
      <4> QED BY <4>3, <4>4
    <3> QED BY <3>2, <3>3
  <2>7. OneIndexExact'
    <3> SUFFICES ASSUME Cardinality(files) = 1, dropped = {}, NEW c \in files, NEW v \in Vals \cup {Null}
                 PROVE  /\ IsInjective(Get(index'[c], v))
                        /\ ToSet(Get(index'[c], v)) = {k \in Live(heap') : heap'[k].row[c] = v}
      BY DEF OneIndexExact
    <3>1. /\ IsInjective(Get(index[c], v))
          /\ ToSet(Get(index[c], v)) = {k \in Live(heap) : heap[k].row[c] = v}
          /\ c \in flag /\ c \in Cols
      BY <1>3 DEF Exact
    <3>2. CASE v = row[c]
      <4>1. {k \in Live(heap') : heap'[k].row[c] = v} = {k \in Live(heap) : heap[k].row[c] = v} \cup {l}
        BY <1>3, <1>4, <1>6, <3>2
      <4>2. l \notin ToSet(Get(index[c], v))
        BY <1>4, <3>1
      <4> QED BY <1>8, <2>1, <3>1, <3>2, <4>1, <4>2
    <3>3. CASE v # row[c]
      <4>1. {k \in Live(heap') : heap'[k].row[c] = v} = {k \in Live(heap) : heap[k].row[c] = v}
        BY <1>3, <1>4, <1>6, <3>3
      <4> QED BY <1>8, <2>1, <3>1, <3>3, <4>1
    <3> QED BY <3>2, <3>3
  <2>8. UniqueUnlessDropped'
    <3>1. ASSUME NEW c \in schema.unique \ dropped, NEW k \in Live(heap) PROVE heap[k].row[c] # row[c]
      <4>1. c \in flag
        BY <1>3, <3>1 DEF IInv, FilesUsed
      <4>2. k \in ToSet(Get(index[c], heap[k].row[c]))
        BY <3>1, <4>1 DEF IInv, IndexComplete
      <4> QED BY <2>3, <3>1, <4>1, <4>2
    <3>2. ASSUME NEW c \in schema.unique \ dropped, NEW k \in Live(heap'), NEW j \in Live(heap'), k # j
          PROVE  heap'[k].row[c] # heap'[j].row[c]
      <4>1. CASE k = l
        BY <1>3, <1>4, <1>6, <3>1, <3>2, <4>1
      <4>2. CASE j = l
        BY <1>3, <1>4, <1>6, <3>1, <3>2, <4>2
      <4>3. CASE k # l /\ j # l
        <5>1. k \in Live(heap) /\ j \in Live(heap) /\ heap'[k] = heap[k] /\ heap'[j] = heap[j]
          BY <1>3, <1>6, <3>2, <4>3
        <5> QED BY <3>2, <5>1 DEF IInv, UniqueUnlessDropped
      <4> QED BY <4>1, <4>2, <4>3
    <3> QED BY <3>2 DEF UniqueUnlessDropped
  <2> QED BY <1>10, <1>11, <1>12, <2>2, <2>4, <2>5, <2>6, <2>7, <2>8 DEF IInv
<1> QED BY <1>13, <1>14

-----------------------------------------------------------------------------
(* The other statements *)

(* DELETE, and the first part of UPDATE.                                    *)
LEMMA TookFacts ==
  ASSUME IInv, status = "alive", NEW w, NEW t \in Takes(w), Took(t),
         UNCHANGED <<schema, files, flag, dropped, parent>>,
         NEW set,
         \/ stmt' = Idle
         \/ t.end = "alive" /\ t.rows # <<>> /\ set \in Settings
            /\ stmt' = [kind |-> "update", rows |-> t.rows, set |-> set]
  PROVE  IInv'
<1>1. TakeOK(t, w) /\ heap' = t.heap /\ index' = t.index /\ status' = t.end
  BY TakesFacts DEF Took
<1>2. /\ HeapOK(heap') /\ DOMAIN index' = Cols /\ \A c \in Cols : IxOK(index'[c])
      /\ \A c \in Cols \ flag : index'[c] = index[c]
      /\ status' \in {"alive", "keyNotFound", "doubleFree"}
      /\ status' = "doubleFree" => Cardinality(files) > 1 \/ dropped # {}
  BY <1>1 DEF TakeOK, Shorter
<1>3. /\ HeapOK(heap) /\ Live(heap) \in SUBSET Locs /\ IsFiniteSet(Locs)
      /\ flag \subseteq files /\ files \subseteq Cols
  BY StateFacts
<1>4. TypeOK /\ FilesUsed
  BY DEF IInv
<1>5. ASSUME t.end = "alive" PROVE t.rows \in Seq(Rows)
  <2>1. \E L : TakenOut(t, w, L)
    BY <1>1, <1>5 DEF TakeOK
  <2> QED BY <2>1 DEF TakenOut, TakenRows
<1>6. TypeOK'
  <2>1. heap' \in [Locs -> Blocks] /\ \A k \in Live(heap') : heap'[k].row \in Rows
    BY <1>2 DEF HeapOK
  <2>2. \A c \in Cols : /\ DOMAIN index'[c] \subseteq Vals \cup {Null}
                        /\ \A v \in DOMAIN index'[c] : index'[c][v] \in Seq(Locs)
    BY <1>2 DEF IxOK
  <2>3. stmt' = Idle \/ (stmt' \in Statements /\ stmt'.rows # <<>>)
    BY <1>5 DEF Statements
  <2> QED BY <1>2, <1>4, <2>1, <2>2, <2>3 DEF TypeOK
<1>7. FilesUsed'
  BY <1>2, <1>3, <1>4 DEF FilesUsed
<1>8. DoubleFreeOnlyIfStale'
  BY <1>2 DEF DoubleFreeOnlyIfStale
<1>9. CASE status' # "alive"
  BY <1>6, <1>7, <1>8, <1>9
     DEF IInv, RoomLeft, RowsChecked, PendingDistinct, IndexComplete, OneIndexExact, UniqueUnlessDropped
<1>10. CASE status' = "alive"
  <2>1. PICK L \in SUBSET Live(heap) : TakenOut(t, w, L)
    BY <1>1, <1>10 DEF TakeOK
  <2>2. /\ Live(heap') = Live(heap) \ L
        /\ \A l \in Live(heap') : l \in Live(heap) /\ heap'[l] = heap[l]
        /\ \A c \in Cols, v \in Vals \cup {Null} : ToSet(Get(index[c], v)) \ L \subseteq ToSet(Get(index'[c], v))
        /\ Cardinality(files) = 1 /\ dropped = {} => \A c \in files : Exact(index'[c], heap', c)
    BY <1>1, <1>3, <2>1 DEF TakenOut
  <2> DEFINE rows == t.rows
             n == Len(rows)
  <2>3. rows \in Seq(Rows) /\ n \in Nat /\ DOMAIN rows = 1 .. n
    BY <2>1 DEF TakenOut, TakenRows
  <2>4. PICK at \in [1 .. n -> L] : IsInjective(at) /\ \A i \in 1 .. n : rows[i] = heap[at[i]].row
    BY <2>1 DEF TakenOut, TakenRows
  <2>5. /\ stmt' = Idle \/ (stmt'.rows = rows /\ stmt'.kind = "update" /\ stmt'.set \in Settings)
        /\ stmt' = Idle => stmt'.rows = <<>> /\ stmt'.kind # "update"
    BY DEF Idle
  <2> HIDE DEF rows, n
  <2>6. RoomLeft'
    <3> DEFINE F == Locs \ Live(heap')
    <3>1. IsFiniteSet(F)
      BY <1>3, FS_Subset
    <3>2. at \in Injection(1 .. n, F)
      <4>1. at \in [1 .. n -> F]
        BY <1>3, <2>2, <2>4
      <4> QED BY <2>4, <4>1 DEF Injection
    <3> HIDE DEF F
    <3>3. n <= Cardinality(F)
      <4> DEFINE D == 1 .. n
      <4>1. Cardinality(D) = n
        BY <2>3, FS_Interval
      <4> HIDE DEF D
      <4>2. at \in Injection(D, F)
        BY <3>2 DEF D
      <4>3. Cardinality(D) <= Cardinality(F)
        BY <3>1, <4>2, FS_Injection
      <4> QED BY <4>1, <4>3
    <3>4. Cardinality(F) \in Nat
      BY <3>1, FS_CardinalityType
    <3>5. Len(stmt'.rows) <= Cardinality(F)
      <4>1. CASE stmt' = Idle
        <5>1. Len(stmt'.rows) = 0
          BY <2>5, <4>1
        <5> QED BY <3>4, <5>1
      <4>2. CASE stmt' # Idle
        BY <2>5, <3>3, <4>2 DEF n
      <4> QED BY <4>1, <4>2
    <3> QED BY <3>5 DEF RoomLeft, F
  <2>7. RowsChecked'
    <3>1. ASSUME NEW l \in Live(heap') PROVE Passed(heap[l].row)'
      <4>1. Passed(heap[l].row) /\ heap'[l] = heap[l]
        BY <2>2, <3>1 DEF IInv, RowsChecked
      <4> QED BY <4>1 DEF Passed
    <3>2. ASSUME stmt'.kind = "update", NEW i \in DOMAIN stmt'.rows PROVE Passed(stmt.rows[i])'
      <4>1. stmt'.rows = rows /\ i \in 1 .. n
        BY <2>3, <2>5, <3>2
      <4>2. Passed(heap[at[i]].row)
        BY <2>1, <2>4, <4>1 DEF IInv, RowsChecked
      <4> QED BY <2>4, <4>1, <4>2 DEF Passed
    <3> QED BY <3>1, <3>2 DEF RowsChecked
  <2>8. PendingDistinct'
    <3> SUFFICES ASSUME stmt'.kind = "update" PROVE PendingDistinct'
      BY DEF PendingDistinct
    <3>1. stmt'.rows = rows /\ stmt'.set \in Settings
      BY <2>5
    <3>2. ASSUME NEW c \in schema.unique \ dropped, NEW k \in Live(heap), NEW l \in Live(heap), k # l
          PROVE  heap[k].row[c] # heap[l].row[c]
      BY <3>2 DEF IInv, UniqueUnlessDropped
    <3>3. ASSUME NEW c \in schema.unique \ (dropped \cup {stmt'.set[1]})
          PROVE  /\ \A i, j \in DOMAIN stmt'.rows : i # j => stmt'.rows[i][c] # stmt'.rows[j][c]
                 /\ \A i \in DOMAIN stmt'.rows, l \in Live(heap') : stmt'.rows[i][c] # heap'[l].row[c]
      <4>1. c \in schema.unique \ dropped
        BY <3>3
      <4>2. ASSUME NEW i \in 1 .. n PROVE at[i] \in Live(heap) /\ at[i] \in L /\ rows[i] = heap[at[i]].row
        BY <2>1, <2>4
      <4>3. ASSUME NEW i \in 1 .. n, NEW j \in 1 .. n, i # j PROVE rows[i][c] # rows[j][c]
        <5>1. at[i] # at[j]
          BY <2>4, <4>3 DEF IsInjective
        <5> QED BY <3>2, <4>1, <4>2, <5>1
      <4>4. ASSUME NEW i \in 1 .. n, NEW l \in Live(heap') PROVE rows[i][c] # heap'[l].row[c]
        <5>1. l \in Live(heap) /\ l # at[i] /\ heap'[l] = heap[l]
          BY <2>2, <4>2
        <5> QED BY <3>2, <4>1, <4>2, <5>1
      <4> QED BY <2>3, <3>1, <4>3, <4>4
    <3> QED BY <3>1, <3>3 DEF PendingDistinct
  <2>9. IndexComplete'
    <3> SUFFICES ASSUME NEW c \in flag \ dropped, NEW l \in Live(heap')
                 PROVE  l \in ToSet(Get(index'[c], heap'[l].row[c]))
      BY DEF IndexComplete
    <3>1. l \in Live(heap) /\ l \notin L /\ heap'[l] = heap[l] /\ c \in Cols
      BY <1>3, <2>2
    <3>2. l \in ToSet(Get(index[c], heap[l].row[c])) /\ heap[l].row[c] \in Vals \cup {Null}
      BY <3>1, StateFacts DEF IInv, IndexComplete
    <3> QED BY <2>2, <3>1, <3>2
  <2>10. OneIndexExact'
    <3>1. Cardinality(files) = 1 /\ dropped = {} => \A c \in files : Exact(index'[c], heap', c)
      BY <2>2
    <3> QED BY <3>1 DEF OneIndexExact, Exact
  <2>11. UniqueUnlessDropped'
    BY <2>2 DEF IInv, UniqueUnlessDropped
  <2> QED BY <1>6, <1>7, <1>8, <2>6, <2>7, <2>8, <2>9, <2>10, <2>11 DEF IInv
<1> QED BY <1>9, <1>10

(* CREATE INDEX.                                                            *)
LEMMA CreateIndexFacts ==
  ASSUME IInv, NEW c \in Cols, CreateIndex(c)
  PROVE  IInv'
<1> DEFINE with(v) == {l \in Live(heap) : heap[l].row[c] = v}
           ix == [v \in DOMAIN index[c] \cup {heap[l].row[c] : l \in Live(heap)} |->
                   Get(index[c], v) \o Ordered(with(v))]
<1>1. /\ status = "alive" /\ stmt = Idle /\ c \notin flag
      /\ index' = [index EXCEPT ![c] = ix] /\ status' \in {"alive", "listFull"}
      /\ flag' = flag \cup {c} /\ files' = files \cup {c}
      /\ UNCHANGED <<schema, heap, dropped, parent, stmt>>
  BY DEF CreateIndex, Ready
<1>2. /\ HeapOK(heap) /\ DOMAIN index = Cols /\ \A d \in Cols : IxOK(index[d])
      /\ Live(heap) \in SUBSET Locs /\ IsFiniteSet(Live(heap)) /\ Locs \subseteq Nat
      /\ flag \subseteq files /\ files \subseteq Cols /\ IsFiniteSet(files) /\ files \ dropped \subseteq flag
      /\ \A l \in Live(heap), d \in Cols : heap[l].row[d] \in Vals \cup {Null}
  BY StateFacts DEF Locs
<1>3. ASSUME NEW v
      PROVE  /\ Ordered(with(v)) \in Seq(Locs) /\ IsInjective(Ordered(with(v)))
             /\ ToSet(Ordered(with(v))) = with(v)
  <2> DEFINE W == with(v)
             s == Ordered(W)
  <2>1. W \in SUBSET Nat /\ IsFiniteSet(W) /\ W \subseteq Locs
    BY <1>2, FS_Subset
  <2> HIDE DEF W
  <2>2. s \in Seq(W) /\ IsInjective(s) /\ ToSet(s) = W
    BY <2>1, OrderedFacts
  <2>3. s \in Seq(Locs)
    BY <2>1, <2>2
  <2> QED BY <2>2, <2>3 DEF W
<1>4. IxOK(ix)
  <2>1. DOMAIN ix \subseteq Vals \cup {Null}
    BY <1>2 DEF IxOK
  <2>2. ASSUME NEW v \in DOMAIN ix PROVE ix[v] \in Seq(Locs)
    <3> DEFINE s == Get(index[c], v)
               t == Ordered(with(v))
    <3>1. ix[v] = s \o t
      OBVIOUS
    <3>2. IxOK(index[c]) /\ t \in Seq(Locs)
      BY <1>2, <1>3
    <3> HIDE DEF t, ix
    <3>3. s \in Seq(Locs)
      BY <3>2, GetFacts
    <3> HIDE DEF s
    <3> QED BY <3>1, <3>2, <3>3
  <2> QED BY <2>1, <2>2 DEF IxOK
<1>5. ASSUME c \notin files, NEW v \in Vals \cup {Null}
      PROVE  IsInjective(Get(ix, v)) /\ ToSet(Get(ix, v)) = with(v)
  <2>1. DOMAIN index[c] = {}
    BY <1>5 DEF IInv, FilesUsed
  <2>2. CASE v \in DOMAIN ix
    <3> DEFINE s == Get(index[c], v)
               t == Ordered(with(v))
               u == Get(ix, v)
    <3>1. s \in Seq(Locs) /\ t \in Seq(Locs) /\ IsInjective(s) /\ ToSet(s) = {}
      BY <1>2, <1>3, <2>1, GetFacts
    <3>2. u = s \o t /\ IsInjective(t) /\ ToSet(t) = with(v)
      BY <1>3, <2>2 DEF Get
    <3> HIDE DEF s, t, u, ix
    <3>3. IsInjective(u) /\ ToSet(u) = ToSet(s) \cup ToSet(t)
      BY <3>1, <3>2, ConcatOfLists
    <3> QED BY <3>1, <3>2, <3>3 DEF u
  <2>3. CASE v \notin DOMAIN ix
    <3>1. with(v) = {}
      BY <2>3
    <3> HIDE DEF ix
    <3>2. IsInjective(Get(ix, v)) /\ ToSet(Get(ix, v)) = {}
      BY <1>4, <2>3, GetFacts
    <3> QED BY <3>1, <3>2
  <2> QED BY <2>2, <2>3
<1> HIDE DEF ix
<1>6. DOMAIN index' = Cols /\ index'[c] = ix /\ \A d \in Cols \ {c} : index'[d] = index[d]
  BY <1>1, <1>2
<1>7. TypeOK'
  <2>1. \A d \in Cols : IxOK(index'[d])
    BY <1>2, <1>4, <1>6
  <2>2. \A d \in Cols : /\ DOMAIN index'[d] \subseteq Vals \cup {Null}
                        /\ \A v \in DOMAIN index'[d] : index'[d][v] \in Seq(Locs)
    BY <2>1 DEF IxOK
  <2>3. flag' \subseteq files' /\ files' \subseteq Cols
    BY <1>1, <1>2
  <2>4. TypeOK
    BY DEF IInv
  <2> QED BY <1>1, <1>6, <2>2, <2>3, <2>4 DEF TypeOK
<1>8. FilesUsed'
  BY <1>1, <1>2, <1>6 DEF IInv, FilesUsed
<1>9. DoubleFreeOnlyIfStale' /\ RoomLeft' /\ PendingDistinct'
  <2>1. DoubleFreeOnlyIfStale'
    BY <1>1 DEF DoubleFreeOnlyIfStale
  <2>2. RoomLeft'
    BY <1>1 DEF IInv, RoomLeft
  <2>3. PendingDistinct'
    BY <1>1 DEF PendingDistinct, Idle
  <2> QED BY <2>1, <2>2, <2>3
<1>10. RowsChecked'
  BY <1>1 DEF IInv, RowsChecked, Passed
<1>11. UniqueUnlessDropped'
  BY <1>1 DEF IInv, UniqueUnlessDropped
<1>12. IndexComplete'
  <2> SUFFICES ASSUME NEW d \in flag' \ dropped, NEW l \in Live(heap)
               PROVE  l \in ToSet(Get(index'[d], heap[l].row[d]))
    BY <1>1 DEF IndexComplete
  <2>1. CASE d = c
    <3>1. c \notin files
      BY <1>1, <1>2, <2>1
    <3>2. ToSet(Get(ix, heap[l].row[c])) = with(heap[l].row[c])
      BY <1>2, <1>5, <3>1
    <3> QED BY <1>6, <2>1, <3>2
  <2>2. CASE d # c
    BY <1>1, <1>2, <1>6, <2>2 DEF IInv, IndexComplete
  <2> QED BY <2>1, <2>2
<1>13. OneIndexExact'
  <2> SUFFICES ASSUME Cardinality(files') = 1, dropped = {}, NEW d \in files', NEW v \in Vals \cup {Null}
               PROVE  /\ IsInjective(Get(index'[d], v))
                      /\ ToSet(Get(index'[d], v)) = {l \in Live(heap) : heap[l].row[d] = v}
    BY <1>1 DEF OneIndexExact
  <2>1. c \notin files
    BY <1>1, <1>2
  <2>2. d = c
    <3>1. IsFiniteSet(files')
      BY <1>1, <1>2, FS_AddElement
    <3>2. PICK x : files' = {x}
      BY <3>1, FS_Singleton
    <3> QED BY <1>1, <3>2
  <2> QED BY <1>5, <1>6, <2>1, <2>2
<1> QED BY <1>7, <1>8, <1>9, <1>10, <1>11, <1>12, <1>13 DEF IInv

(* A statement that ends, is refused or kills the process, and what happens *)
(* outside the table.                                                       *)
LEMMA HeapKept ==
  ASSUME IInv, UNCHANGED <<schema, heap, index, files>>,
         \/ /\ UNCHANGED <<flag, dropped, parent>>
            /\ \/ status' = status /\ stmt' = Idle
               \/ status' \in {status, "noParent", "setNull"} /\ stmt' = stmt
         \/ /\ Ready /\ UNCHANGED <<stmt, status>>
            /\ \/ \E c \in Cols : DropIndex(c)
               \/ Reopen
               \/ ParentChanges
  PROVE  IInv'
<1>1. TypeOK /\ FilesUsed /\ DoubleFreeOnlyIfStale
  BY DEF IInv
<1>2. /\ status' \in {status, "noParent", "setNull"} /\ (stmt' = stmt \/ stmt' = Idle)
      /\ dropped \subseteq dropped' /\ dropped' \subseteq Cols /\ flag' \subseteq files
      /\ files \ dropped' \subseteq flag' /\ flag' \ dropped' \subseteq flag \ dropped
      /\ parent' = NoTable \/ parent' \subseteq ParentIds
      /\ status = "doubleFree" => dropped' = dropped
  <2>1. CASE UNCHANGED <<flag, dropped, parent>>
    BY <1>1, <2>1 DEF TypeOK, FilesUsed, Ready
  <2>2. CASE Ready /\ UNCHANGED <<stmt, status>> /\ \E c \in Cols : DropIndex(c)
    <3>1. PICK c \in Cols : DropIndex(c)
      BY <2>2
    <3> QED BY <1>1, <2>2, <3>1 DEF TypeOK, FilesUsed, DropIndex, Ready
  <2>3. CASE Ready /\ UNCHANGED <<stmt, status>> /\ Reopen
    BY <1>1, <2>3 DEF TypeOK, FilesUsed, Reopen, Ready
  <2>4. CASE Ready /\ UNCHANGED <<stmt, status>> /\ ParentChanges
    BY <1>1, <2>4 DEF TypeOK, FilesUsed, ParentChanges, Ready
  <2> QED BY <2>1, <2>2, <2>3, <2>4
<1>3. TypeOK'
  BY <1>1, <1>2 DEF TypeOK
<1>4. FilesUsed'
  BY <1>1, <1>2 DEF FilesUsed
<1>5. DoubleFreeOnlyIfStale'
  BY <1>1, <1>2 DEF DoubleFreeOnlyIfStale
<1>6. CASE status' # "alive"
  BY <1>3, <1>4, <1>5, <1>6
     DEF IInv, RoomLeft, RowsChecked, PendingDistinct, IndexComplete, OneIndexExact, UniqueUnlessDropped
<1>7. CASE status' = "alive"
  <2>1. status = "alive"
    BY <1>2, <1>7
  <2>2. RoomLeft'
    <3>1. Cardinality(Locs \ Live(heap)) \in Nat
      BY StateFacts
    <3>2. CASE stmt' = Idle
      <4>1. Len(stmt'.rows) = 0
        BY <3>2 DEF Idle
      <4> QED BY <3>1, <4>1 DEF RoomLeft
    <3>3. CASE stmt' = stmt
      BY <2>1, <3>3 DEF IInv, RoomLeft
    <3> QED BY <1>2, <3>2, <3>3
  <2>3. RowsChecked' /\ PendingDistinct'
    <3>1. CASE stmt' = Idle
      BY <2>1, <3>1 DEF IInv, RowsChecked, PendingDistinct, Passed, Idle
    <3>2. CASE stmt' = stmt
      BY <1>2, <2>1, <3>2 DEF IInv, RowsChecked, PendingDistinct, Passed
    <3> QED BY <1>2, <3>1, <3>2
  <2>4. IndexComplete'
    BY <1>2, <2>1 DEF IInv, IndexComplete
  <2>5. OneIndexExact'
    BY <1>2, <2>1 DEF IInv, OneIndexExact
  <2>6. UniqueUnlessDropped'
    BY <1>2, <2>1 DEF IInv, UniqueUnlessDropped
  <2> QED BY <1>3, <1>4, <1>5, <2>2, <2>3, <2>4, <2>5, <2>6 DEF IInv
<1> QED BY <1>6, <1>7

(* A new table.                                                             *)
LEMMA InitIInv == Init => IInv
<1> SUFFICES ASSUME Init PROVE IInv
  OBVIOUS
<1>1. /\ schema \in Schemas /\ schema.unique \subseteq Cols
      /\ files = schema.unique /\ flag = schema.unique /\ dropped = {} /\ parent = {}
      /\ stmt = Idle /\ status = "alive"
      /\ DOMAIN index = Cols /\ \A c \in Cols : index[c] = <<>>
  BY DEF Init
<1>2. Live(heap) = {} /\ heap \in [Locs -> Blocks]
  <2>1. heap = [l \in Locs |-> [used |-> FALSE, row |-> [c \in Cols |-> Junk]]]
    BY DEF Init
  <2>2. [used |-> FALSE, row |-> [c \in Cols |-> Junk]] \in Blocks
    BY DEF Blocks
  <2> QED BY <2>1, <2>2 DEF Live
<1>3. \A c \in Cols : DOMAIN index[c] = {} /\ IxOK(index[c])
  BY <1>1 DEF IxOK
<1>4. TypeOK
  BY <1>1, <1>2, <1>3 DEF TypeOK
<1>5. FilesUsed
  BY <1>1, <1>3 DEF FilesUsed
<1>6. RoomLeft
  <2>1. IsFiniteSet(Locs \ Live(heap))
    BY <1>2, FS_Interval DEF Locs
  <2>2. Cardinality(Locs \ Live(heap)) \in Nat
    BY <2>1, FS_CardinalityType
  <2>3. Len(stmt.rows) = 0
    BY <1>1 DEF Idle
  <2> QED BY <2>2, <2>3 DEF RoomLeft
<1>7. OneIndexExact
  <2>1. ASSUME NEW c \in files, NEW v \in Vals \cup {Null}
        PROVE  IsInjective(Get(index[c], v)) /\ ToSet(Get(index[c], v)) = {}
    <3> DEFINE ix == index[c]
    <3>1. IxOK(ix) /\ v \notin DOMAIN ix
      BY <1>1, <1>3
    <3> HIDE DEF ix
    <3>2. IsInjective(Get(ix, v)) /\ ToSet(Get(ix, v)) = {}
      BY <3>1, GetFacts
    <3> QED BY <3>2 DEF ix
  <2> QED BY <1>2, <2>1 DEF OneIndexExact
<1> QED BY <1>1, <1>2, <1>4, <1>5, <1>6, <1>7
        DEF IInv, RowsChecked, PendingDistinct, IndexComplete, UniqueUnlessDropped, DoubleFreeOnlyIfStale, Idle

(* What an UPDATE has still to put back are rows, changed or not.           *)
LEMMA HeadFacts ==
  ASSUME IInv, stmt # Idle
  PROVE  /\ stmt \in Statements /\ stmt.rows # <<>> /\ Head(stmt.rows) \in Rows
         /\ 1 \in DOMAIN stmt.rows /\ Head(stmt.rows) = stmt.rows[1]
         /\ status = "alive" /\ stmt.kind = "update" =>
              /\ Changed(Head(stmt.rows), stmt.set) \in Rows
              /\ \A c \in Cols \ {stmt.set[1]} : Changed(Head(stmt.rows), stmt.set)[c] = Head(stmt.rows)[c]
<1>1. stmt \in Statements /\ stmt.rows # <<>>
  BY DEF IInv, TypeOK
<1>2. Head(stmt.rows) \in Rows /\ 1 \in DOMAIN stmt.rows /\ Head(stmt.rows) = stmt.rows[1]
  <2> DEFINE s == stmt
  <2>1. s \in Statements /\ s.rows # <<>>
    BY <1>1
  <2> HIDE DEF s
  <2>2. Head(s.rows) \in Rows /\ 1 \in DOMAIN s.rows /\ Head(s.rows) = s.rows[1]
    BY <2>1, RestFacts
  <2> QED BY <2>2 DEF s
<1>3. ASSUME status = "alive", stmt.kind = "update"
      PROVE  /\ Changed(Head(stmt.rows), stmt.set) \in Rows
             /\ \A c \in Cols \ {stmt.set[1]} : Changed(Head(stmt.rows), stmt.set)[c] = Head(stmt.rows)[c]
  <2> DEFINE row == Head(stmt.rows)
             set == stmt.set
  <2>1. set \in Cols \X (Vals \cup {Null}) /\ row \in Rows
    BY <1>2, <1>3 DEF IInv, PendingDistinct
  <2> HIDE DEF row, set
  <2>2. set[1] \in Cols /\ set[2] \in Vals \cup {Null} /\ Changed(row, set) = [row EXCEPT ![set[1]] = set[2]]
    BY <2>1 DEF Changed
  <2>3. Changed(row, set) \in Rows /\ \A c \in Cols \ {set[1]} : Changed(row, set)[c] = row[c]
    BY <2>1, <2>2 DEF Rows
  <2> QED BY <2>3 DEF row, set
<1> QED BY <1>1, <1>2, <1>3

(* Every action keeps the invariant.                                        *)
LEMMA NextIInv == IInv /\ [Next]_vars => IInv'
<1> SUFFICES ASSUME IInv, [Next]_vars PROVE IInv'
  OBVIOUS
<1>1. CASE UNCHANGED vars
  BY <1>1, HeapKept DEF vars
<1>2. CASE PutNew
  <2> DEFINE row == Head(stmt.rows)
  <2>1. /\ status = "alive" /\ stmt # Idle /\ stmt.kind = "insert"
        /\ Verdict(row) = "ok" /\ Put(row) /\ stmt' = Rest(stmt)
        /\ UNCHANGED <<schema, files, flag, dropped, parent>>
    BY <1>2 DEF PutNew, Idle
  <2>2. row \in Rows
    BY <2>1, HeadFacts
  <2> HIDE DEF row
  <2>3. stmt.kind = "update" => \A c \in Cols \ {stmt.set[1]} : row[c] = Head(stmt.rows)[c]
    BY <2>1
  <2> QED BY <2>1, <2>2, <2>3, PutFacts
<1>3. CASE PutChanged
  <2> DEFINE row == Changed(Head(stmt.rows), stmt.set)
  <2>1. /\ status = "alive" /\ stmt # Idle /\ stmt.kind = "update"
        /\ Verdict(row) = "ok" /\ Put(row) /\ stmt' = Rest(stmt)
        /\ UNCHANGED <<schema, files, flag, dropped, parent>>
    BY <1>3 DEF PutChanged, Idle
  <2>2. row \in Rows /\ \A c \in Cols \ {stmt.set[1]} : row[c] = Head(stmt.rows)[c]
    BY <2>1, HeadFacts
  <2> HIDE DEF row
  <2> QED BY <2>1, <2>2, PutFacts
<1>4. CASE PutBackup
  <2> DEFINE row == Head(stmt.rows)
  <2>1. /\ status = "alive" /\ stmt # Idle
        /\ Verdict(row) = "ok" /\ Put(row) /\ stmt' = Rest(stmt)
        /\ UNCHANGED <<schema, files, flag, dropped, parent>>
    BY <1>4 DEF PutBackup, Backup, Idle
  <2>2. row \in Rows
    BY <2>1, HeadFacts
  <2>3. stmt.kind = "update" => \A c \in Cols \ {stmt.set[1]} : row[c] = Head(stmt.rows)[c]
    OBVIOUS
  <2> HIDE DEF row
  <2> QED BY <2>1, <2>2, <2>3, PutFacts
<1>5. CASE RefuseNew \/ CheckKills \/ DoubleFault \/ SetNull
  <2>1. CASE RefuseNew
    BY <2>1, HeapKept DEF RefuseNew
  <2>2. CASE CheckKills
    BY <2>2, HeapKept DEF CheckKills
  <2>3. CASE DoubleFault
    BY <2>3, HeapKept DEF DoubleFault
  <2>4. CASE SetNull
    BY <2>4, HeapKept DEF SetNull
  <2> QED BY <1>5, <2>1, <2>2, <2>3, <2>4
<1>6. CASE Reopen
  BY <1>6, HeapKept DEF Reopen
<1>7. CASE ParentChanges
  BY <1>7, HeapKept DEF ParentChanges
<1>8. ASSUME NEW c \in Cols, DropIndex(c) PROVE IInv'
  BY <1>8, HeapKept DEF DropIndex
<1>9. ASSUME NEW c \in Cols, CreateIndex(c) PROVE IInv'
  BY <1>9, CreateIndexFacts
<1>10. ASSUME NEW w, Delete(w) PROVE IInv'
  <2>1. PICK t \in Takes(w) : Took(t)
    BY <1>10 DEF Delete
  <2>2. /\ status = "alive" /\ stmt' = Idle /\ UNCHANGED <<schema, files, flag, dropped, parent>>
    BY <1>10 DEF Delete, Ready
  <2> QED BY <2>1, <2>2, TookFacts
<1>11. ASSUME NEW w, NEW set \in Settings, BeginUpdate(w, set) PROVE IInv'
  <2>1. PICK t \in Takes(w) :
          /\ Took(t)
          /\ stmt' = IF t.rows = <<>> \/ t.end # "alive" THEN Idle
                     ELSE [kind |-> "update", rows |-> t.rows, set |-> set]
    BY <1>11 DEF BeginUpdate
  <2>2. /\ status = "alive" /\ UNCHANGED <<schema, files, flag, dropped, parent>>
        /\ \/ stmt' = Idle
           \/ t.end = "alive" /\ t.rows # <<>> /\ set \in Settings
              /\ stmt' = [kind |-> "update", rows |-> t.rows, set |-> set]
    BY <1>11, <2>1 DEF BeginUpdate, Ready
  <2> QED BY <2>1, <2>2, TookFacts
<1>12. ASSUME NEW rows \in Lists, BeginInsert(rows) PROVE IInv'
  <2>1. /\ status = "alive" /\ stmt' = [kind |-> "insert", rows |-> rows, set |-> <<>>]
        /\ Len(rows) <= Cardinality(Locs \ Live(heap))
        /\ UNCHANGED <<schema, heap, index, files, flag, dropped, parent, status>>
    BY <1>12 DEF BeginInsert, Ready
  <2>2. stmt' \in Statements /\ stmt'.rows # <<>> /\ stmt'.rows = rows /\ stmt'.kind # "update"
    BY <2>1 DEF Statements
  <2>3. TypeOK'
    BY <2>1, <2>2 DEF IInv, TypeOK
  <2>4. RoomLeft'
    BY <2>1, <2>2 DEF RoomLeft
  <2>5. RowsChecked' /\ PendingDistinct'
    BY <2>1, <2>2 DEF IInv, RowsChecked, PendingDistinct, Passed
  <2>6. FilesUsed' /\ IndexComplete' /\ OneIndexExact' /\ UniqueUnlessDropped' /\ DoubleFreeOnlyIfStale'
    BY <2>1 DEF IInv, FilesUsed, IndexComplete, OneIndexExact, UniqueUnlessDropped, DoubleFreeOnlyIfStale
  <2> QED BY <2>3, <2>4, <2>5, <2>6 DEF IInv
<1> QED BY <1>1, <1>2, <1>3, <1>4, <1>5, <1>6, <1>7, <1>8, <1>9, <1>10, <1>11, <1>12 DEF Next, Step

-----------------------------------------------------------------------------
(* Theorems *)

(* IInv holds in every reachable state.                                     *)
THEOREM Invariance == Spec => []IInv
BY InitIInv, NextIInv, PTL DEF Spec

(* Every variable keeps its type: a row in use is never one the free list   *)
(* wrote over, whatever stale locations the indexes have.                   *)
THEOREM TypeCorrectness == Spec => []TypeOK
<1>1. IInv => TypeOK
  BY DEF IInv
<1> QED BY <1>1, Invariance, PTL

(* selectUseIndex and the unique checks see every row with the value they   *)
(* look for, after any statements, unless the index was dropped once.       *)
THEOREM IndexesAreComplete == Spec => []IndexComplete
<1>1. IInv => IndexComplete
  BY DEF IInv
<1> QED BY <1>1, Invariance, PTL

(* deleteAndCollectUseIndex tells one index only, which is enough when      *)
(* there is no other: then no location in it is stale.                      *)
THEOREM OnlyIndexIsExact == Spec => []OneIndexExact
<1>1. IInv => OneIndexExact
  BY DEF IInv
<1> QED BY <1>1, Invariance, PTL

(* insertInTable lets no second row with the value of a unique column in,   *)
(* also when an UPDATE puts rows back after a failed change, as long as the *)
(* column's index was not dropped: from then on the check is skipped.       *)
THEOREM UniqueUnlessIndexDropped == Spec => []UniqueUnlessDropped
<1>1. IInv => UniqueUnlessDropped
  BY DEF IInv
<1> QED BY <1>1, Invariance, PTL

(* delOneRecord frees a block twice only through stale locations.           *)
THEOREM DoubleFreeIsExplained == Spec => []DoubleFreeOnlyIfStale
<1>1. IInv => DoubleFreeOnlyIfStale
  BY DEF IInv
<1> QED BY <1>1, Invariance, PTL

(* There is a block for the next row of a statement.                        *)
LEMMA FreeLeft ==
  ASSUME IInv, status = "alive", stmt # Idle
  PROVE  Locs \ Live(heap) # {}
<1> DEFINE F == Locs \ Live(heap)
<1>1. IsFiniteSet(F) /\ Len(stmt.rows) <= Cardinality(F)
  BY StateFacts, FS_Subset DEF IInv, RoomLeft
<1>2. stmt.rows \in Seq(Rows) /\ stmt.rows # <<>>
  BY DEF IInv, TypeOK, Statements
<1>3. Len(stmt.rows) \in Nat /\ Len(stmt.rows) # 0
  BY <1>2, EmptySeq, LenProperties
<1> HIDE DEF F
<1>4. Cardinality(F) # 0
  BY <1>1, <1>3
<1>5. F # {}
  BY <1>4, FS_EmptySet
<1> QED BY <1>5 DEF F

(* putRow uses a block that was free.                                       *)
LEMMA PutChangesHeap ==
  ASSUME IInv, status = "alive", stmt # Idle, NEW row, Put(row)
  PROVE  heap' # heap
<1> DEFINE l == RowPlace(Locs \ Live(heap))
<1>1. heap' = [heap EXCEPT ![l] = [used |-> TRUE, row |-> row]] /\ DOMAIN heap = Locs
  BY DEF Put, IInv, TypeOK
<1>2. ~heap[l].used /\ l \in Locs
  BY FreeLeft DEF Live
<1> HIDE DEF l
<1>3. heap'[l].used
  BY <1>1, <1>2
<1> QED BY <1>2, <1>3

(* A row of an UPDATE that insertInTable let in once is refused only for    *)
(* the reasons FaultExplained names.                                        *)
LEMMA BackupRefused ==
  ASSUME IInv, DoubleFault
  PROVE  \/ stmt.set[1] \in schema.unique
         \/ Cardinality(files) > 1 \/ dropped # {}
         \/ \E c \in schema.foreign : Head(stmt.rows)[c] \notin parent \cup {Null}
<1> DEFINE row == Head(stmt.rows)
           first == {c \in Cols : CheckDies(row, c) \/ CheckFails(row, c)}
           c == Min(first)
<1>1. /\ status = "alive" /\ stmt.kind = "update" /\ Verdict(row) = "refused" /\ stmt # Idle
  BY DEF DoubleFault, Backup, Idle
<1>2. first # {} /\ ~CheckDies(row, c)
  BY <1>1 DEF Verdict
<1>3. c \in Cols /\ CheckFails(row, c)
  <2>1. first \in SUBSET Nat
    BY DEF Cols
  <2>2. c \in first
    <3> HIDE DEF first
    <3> QED BY <1>2, <2>1, MinIsLeast
  <2> HIDE DEF c
  <2> QED BY <1>2, <2>2
<1> HIDE DEF c, first
<1>4. 1 \in DOMAIN stmt.rows /\ row = stmt.rows[1] /\ row \in Rows
  BY <1>1, HeadFacts
<1>5. Passed(row)
  BY <1>1, <1>4 DEF IInv, RowsChecked
<1>6. CASE c \in schema.foreign /\ row[c] # Null /\ row[c] \notin parent
  BY <1>6
<1>7. CASE c \in schema.unique \cap flag /\ SelectUseIndex(c, row[c]) # {}
  <2> SUFFICES ASSUME stmt.set[1] \notin schema.unique, ~ (Cardinality(files) > 1), dropped = {}
               PROVE  FALSE
    OBVIOUS
  <2>1. c \in files /\ c \in flag
    BY <1>7, StateFacts
  <2>2. Cardinality(files) = 1
    <3>1. IsFiniteSet(files) /\ files # {}
      BY <2>1, StateFacts
    <3>2. Cardinality(files) \in Nat /\ Cardinality(files) # 0
      BY <3>1, FS_CardinalityType, FS_EmptySet
    <3> QED BY <3>2
  <2>3. Exact(index[c], heap, c)
    BY <1>1, <2>1, <2>2, StateFacts
  <2>4. PICK l \in ToSet(Get(index[c], row[c])) : heap[l].row[c] = row[c]
    BY <1>7 DEF SelectUseIndex
  <2>5. l \in Live(heap)
    BY <1>3, <1>4, <2>3, <2>4 DEF Exact, Rows
  <2>6. c \in schema.unique \ (dropped \cup {stmt.set[1]})
    BY <1>7
  <2>7. stmt.rows[1][c] # heap[l].row[c]
    BY <1>1, <1>4, <2>5, <2>6 DEF IInv, PendingDistinct
  <2> QED BY <1>4, <2>4, <2>7
<1> QED BY <1>3, <1>5, <1>6, <1>7 DEF CheckFails, Passed

(* An UPDATE loses the rows it took out for the reasons FaultExplained      *)
(* names, and for no other.                                                 *)
THEOREM FaultIsExplained == Spec => FaultExplained
<1> DEFINE Explained ==
      stmt.kind = "update" /\ stmt' = Idle /\ heap' = heap =>
        \/ stmt.set[1] \in schema.unique
        \/ Cardinality(files) > 1 \/ dropped # {}
        \/ \E c \in schema.foreign : Head(stmt.rows)[c] \notin parent \cup {Null}
<1>1. ASSUME IInv, [Next]_vars PROVE [Explained]_vars
  <2> SUFFICES ASSUME stmt.kind = "update", stmt' = Idle, heap' = heap, ~ UNCHANGED vars PROVE Explained
    OBVIOUS
  <2>1. stmt # Idle /\ ~Ready
    BY DEF Ready, Idle
  <2>2. CASE PutChanged \/ PutBackup
    BY <1>1, <2>1, <2>2, PutChangesHeap DEF PutChanged, PutBackup, Backup
  <2>3. CASE DoubleFault
    BY <1>1, <2>3, BackupRefused
  <2>4. CASE PutNew \/ RefuseNew \/ CheckKills
    BY <2>1, <2>4 DEF PutNew, RefuseNew, CheckKills
  <2>5. CASE \/ SetNull \/ Reopen \/ ParentChanges
             \/ \E rows \in Lists : BeginInsert(rows)
             \/ \E w \in Clauses : Delete(w) \/ \E set \in Settings : BeginUpdate(w, set)
             \/ \E c \in Cols : CreateIndex(c) \/ DropIndex(c)
    BY <2>1, <2>5 DEF SetNull, Reopen, ParentChanges, BeginInsert, Delete, BeginUpdate, CreateIndex, DropIndex
  <2> QED BY <1>1, <2>2, <2>3, <2>4, <2>5 DEF Next, Step
<1>2. IInv /\ [Next]_vars => [Explained]_vars
  BY <1>1
<1> QED BY <1>2, Invariance, PTL DEF Spec, FaultExplained

-----------------------------------------------------------------------------
(* Refinement of TableStore *)

(* How often each row is in the table.                                      *)
At(h, r) == {l \in Live(h) : h[l].row = r}
Bag(h) == [r \in Rows |-> Cardinality(At(h, r))]

-----------------------------------------------------------------------------
(* The mapping *)

(* The abstract table of this state and of the next.                        *)
LEMMA MappedState ==
  /\ status = "alive" => Table = Bag(heap)
  /\ status # "alive" => Table = Store!NoRows
  /\ status' = "alive" => Table' = Bag(heap')
  /\ status' # "alive" => Table' = Store!NoRows
  /\ Store!Idle = Idle
BY DEF Table, Bag, At, Live, Store!NoRows, Store!Idle, Idle

(* TableStore counts as TableIndex does.                                    *)
LEMMA SameCardinality == \A S : Store!Cardinality(S) = Cardinality(S)
BY Zenon DEF Cardinality, Store!Cardinality

(* Bags are finite.                                                         *)
LEMMA AtFacts ==
  ASSUME NEW h, NEW r
  PROVE  IsFiniteSet(At(h, r)) /\ Cardinality(At(h, r)) \in Nat /\ At(h, r) \in SUBSET Locs
<1>1. At(h, r) \in SUBSET Locs
  BY DEF At, Live
<1>2. IsFiniteSet(Locs)
  BY FS_Interval, BoundAssumption DEF Locs
<1>3. IsFiniteSet(At(h, r))
  BY <1>1, <1>2, FS_Subset
<1> QED BY <1>1, <1>3, FS_CardinalityType

(* A row put into a free block is once more in the bag.                     *)
LEMMA BagMore ==
  ASSUME DOMAIN heap = Locs, NEW l \in Locs \ Live(heap), NEW row \in Rows,
         heap' = [heap EXCEPT ![l] = [used |-> TRUE, row |-> row]]
  PROVE  Bag(heap') = [Bag(heap) EXCEPT ![row] = @ + 1]
<1> DEFINE S == At(heap, row)
<1>1. /\ heap'[l] = [used |-> TRUE, row |-> row] /\ \A k \in Locs \ {l} : heap'[k] = heap[k]
  OBVIOUS
<1>2. Live(heap') = Live(heap) \cup {l}
  BY <1>1 DEF Live
<1>3. IsFiniteSet(S) /\ l \notin S
  <2>1. IsFiniteSet(At(heap, row))
    BY AtFacts
  <2>2. l \notin S
    BY DEF At
  <2> QED BY <2>1, <2>2
<1>4. At(heap', row) = S \cup {l}
  BY <1>1, <1>2 DEF At, Live
<1>5. \A r \in Rows \ {row} : At(heap', r) = At(heap, r)
  BY <1>1, <1>2 DEF At, Live
<1>6. Cardinality(S \cup {l}) = Cardinality(S) + 1
  <2> HIDE DEF S
  <2> QED BY <1>3, FS_AddElement
<1>7. /\ DOMAIN Bag(heap) = Rows /\ Bag(heap') = [r \in Rows |-> Bag(heap')[r]]
      /\ \A r \in Rows : Bag(heap)[r] = Cardinality(At(heap, r)) /\ Bag(heap')[r] = Cardinality(At(heap', r))
  BY DEF Bag
<1>8. \A r \in Rows : Bag(heap')[r] = IF r = row THEN Bag(heap)[r] + 1 ELSE Bag(heap)[r]
  BY <1>4, <1>5, <1>6, <1>7, ZenonT(40)
<1> QED BY <1>7, <1>8

(* A list that has the elements of a set, each once, has as many places     *)
(* with a row as there are elements with it.                                *)
LEMMA SameCount ==
  ASSUME NEW n \in Nat, NEW L, IsFiniteSet(L), NEW at \in [1 .. n -> L], IsInjective(at),
         \A l \in L : \E i \in 1 .. n : at[i] = l,
         NEW M \in SUBSET L, NEW D, D = {i \in 1 .. n : at[i] \in M}
  PROVE  Cardinality(D) = Cardinality(M)
<1> DEFINE f == [i \in D |-> at[i]]
<1>1. f \in [D -> M]
  OBVIOUS
<1>2. \A i, j \in D : f[i] = f[j] => i = j
  BY DEF IsInjective
<1>3. \A m \in M : \E i \in D : f[i] = m
  OBVIOUS
<1>4. IsFiniteSet(D)
  <2>1. IsFiniteSet(1 .. n)
    BY FS_Interval
  <2> QED BY <2>1, FS_Subset
<1> HIDE DEF f
<1>5. f \in Bijection(D, M)
  BY <1>1, <1>2, <1>3 DEF Bijection, Injection, Surjection, IsInjective
<1>6. ExistsBijection(D, M)
  BY <1>5 DEF ExistsBijection
<1>7. Cardinality(M) = Cardinality(D)
  BY <1>4, <1>6, FS_Bijection
<1> QED BY <1>7

(* Rows taken out of the table: how the bag shrinks, and how often each row *)
(* is among those taken.                                                    *)
LEMMA BagTaken ==
  ASSUME IInv, NEW w, NEW t, NEW L \in SUBSET Live(heap), TakenOut(t, w, L), HeapOK(t.heap), NEW r \in Rows
  PROVE  /\ Bag(heap)[r] \in Nat /\ Bag(t.heap)[r] \in Nat /\ Bag(t.heap)[r] <= Bag(heap)[r]
         /\ ~Meets(r, w) => Bag(t.heap)[r] = Bag(heap)[r]
         /\ Meets(r, w) /\ dropped = {} => Bag(t.heap)[r] = 0
         /\ Cardinality({i \in DOMAIN t.rows : t.rows[i] = r}) = Bag(heap)[r] - Bag(t.heap)[r]
<1> DEFINE S == At(heap, r)
           T == At(t.heap, r)
           M == S \cap L
<1>1. Bag(heap)[r] = Cardinality(S) /\ Bag(t.heap)[r] = Cardinality(T)
  BY DEF Bag
<1>2. /\ Live(heap) \in SUBSET Locs /\ IsFiniteSet(Live(heap))
      /\ Live(t.heap) = Live(heap) \ L /\ \A l \in Locs \ L : t.heap[l] = heap[l]
      /\ \A l \in L : Meets(heap[l].row, w)
      /\ dropped = {} => \A l \in Live(heap) : Meets(heap[l].row, w) => l \in L
  BY StateFacts DEF TakenOut
<1>3. T = S \ L
  BY <1>2 DEF At
<1>4. IsFiniteSet(S) /\ Cardinality(S) \in Nat /\ Cardinality(T) \in Nat
  BY AtFacts
<1>5. ~Meets(r, w) => M = {}
  BY <1>2 DEF At
<1>6. Meets(r, w) /\ dropped = {} => T = {}
  BY <1>2, <1>3 DEF At
<1>7. \A l \in L : l \in M <=> heap[l].row = r
  BY DEF At
<1> HIDE DEF S, T
<1>8. IsFiniteSet(M) /\ Cardinality(M) \in Nat /\ Cardinality(T) = Cardinality(S) - Cardinality(M)
  <2>1. M \in SUBSET S /\ T = S \ M
    BY <1>3
  <2> HIDE DEF M
  <2>2. IsFiniteSet(M)
    BY <1>4, <2>1, FS_Subset
  <2>3. Cardinality(M) \in Nat
    BY <2>2, FS_CardinalityType
  <2>4. IsFiniteSet(T)
    BY <1>4, <2>1, FS_Subset
  <2>5. Cardinality(T \cup M) = Cardinality(T) + Cardinality(M) - Cardinality(T \cap M)
    BY <2>2, <2>4, FS_Union
  <2>6. T \cup M = S /\ T \cap M = {}
    BY <2>1
  <2>7. Cardinality(T \cap M) = 0
    BY <2>6, FS_EmptySet
  <2>8. Cardinality(S) = Cardinality(T) + Cardinality(M) - 0
    BY <2>5, <2>6, <2>7
  <2>9. Cardinality(T) = Cardinality(S) - Cardinality(M)
    <3> HIDE DEF M
    <3> QED BY <1>4, <2>3, <2>8
  <2> QED BY <2>2, <2>3, <2>9
<1>9. Cardinality({i \in DOMAIN t.rows : t.rows[i] = r}) = Cardinality(M)
  <2> DEFINE n == Len(t.rows)
  <2>1. t.rows \in Seq(Rows) /\ n \in Nat /\ DOMAIN t.rows = 1 .. n
    BY DEF TakenOut, TakenRows
  <2>2. PICK at \in [1 .. n -> L] :
          /\ IsInjective(at) /\ \A l \in L : \E i \in 1 .. n : at[i] = l
          /\ \A i \in 1 .. n : t.rows[i] = heap[at[i]].row
    BY DEF TakenOut, TakenRows
  <2> HIDE DEF n
  <2>3. IsFiniteSet(L) /\ M \in SUBSET L
    BY <1>2, FS_Subset
  <2> DEFINE D == {i \in DOMAIN t.rows : t.rows[i] = r}
  <2>4. D = {i \in 1 .. n : at[i] \in M}
    BY <1>7, <2>1, <2>2
  <2> HIDE DEF M, D
  <2>5. Cardinality(D) = Cardinality(M)
    BY <2>1, <2>2, <2>3, <2>4, SameCount
  <2> QED BY <2>5 DEF D
<1> HIDE DEF M
<1>10. Cardinality(T) <= Cardinality(S)
  BY <1>4, <1>8
<1>11. ~Meets(r, w) => Cardinality(T) = Cardinality(S)
  BY <1>4, <1>5, <1>8, FS_EmptySet
<1>12. Meets(r, w) /\ dropped = {} => Cardinality(T) = 0
  BY <1>6, FS_EmptySet
<1>13. Cardinality(M) = Cardinality(S) - Cardinality(T)
  BY <1>4, <1>8
<1> QED BY <1>1, <1>4, <1>9, <1>10, <1>11, <1>12, <1>13

-----------------------------------------------------------------------------
(* Steps *)

(* However the process ends, it is the end of the table.                    *)
LEMMA StoreDies ==
  ASSUME status = "alive", status' # "alive", dropped' = dropped
  PROVE  Store!Next
BY MappedState DEF Store!Next, Store!Die

(* Nothing that TableStore sees has changed.                                *)
LEMMA StoreKept ==
  ASSUME heap' = heap, stmt' = stmt, status' = status, dropped' = dropped
  PROVE  UNCHANGED Store!vars
<1>1. Table' = Table
  BY MappedState
<1> QED BY <1>1 DEF Store!vars

(* A row is put, changed or as it was, or the process ends.                 *)
LEMMA StorePuts ==
  ASSUME IInv, status = "alive", stmt # Idle, NEW row \in Rows, Put(row), stmt' = Rest(stmt), dropped' = dropped,
         row = Head(stmt.rows) \/ (stmt.kind = "update" /\ row = Changed(Head(stmt.rows), stmt.set))
  PROVE  Store!Next
<1> DEFINE F == Locs \ Live(heap)
           l == RowPlace(F)
<1>1. CASE status' # "alive"
  BY <1>1, StoreDies
<1>2. CASE status' = "alive"
  <2>1. heap' = [heap EXCEPT ![l] = [used |-> TRUE, row |-> row]] /\ DOMAIN heap = Locs
    BY DEF Put, IInv, TypeOK
  <2>2. l \in Locs \ Live(heap)
    <3>1. F \in SUBSET Locs /\ F # {}
      BY FreeLeft
    <3> HIDE DEF F
    <3>2. l \in F
      BY <3>1, PlaceAssumption
    <3> QED BY <3>2 DEF F
  <2> HIDE DEF l
  <2>3. Bag(heap') = [Bag(heap) EXCEPT ![row] = @ + 1]
    BY <2>1, <2>2, BagMore
  <2>4. Table' = [Table EXCEPT ![row] = @ + 1]
    BY <1>2, <2>3, MappedState
  <2>5. Store!Rest(stmt) = stmt'
    BY DEF Rest, Store!Rest, Idle, Store!Idle
  <2>6. row \in {Head(stmt.rows)} \cup IF stmt.kind = "update" THEN {Changed(Head(stmt.rows), stmt.set)} ELSE {}
    OBVIOUS
  <2>7. Store!PutRow
    BY <1>2, <2>4, <2>5, <2>6, MappedState DEF Store!PutRow
  <2> QED BY <2>7 DEF Store!Next
<1> QED BY <1>1, <1>2

(* The rows that leave the table are those that meet the clause.            *)
LEMMA StoreTakes ==
  ASSUME IInv, Ready, status' = "alive", NEW w \in Clauses, NEW t \in Takes(w), Took(t)
  PROVE  /\ Store!TakesOut(w)
         /\ \A r \in Rows : /\ Table[r] \in Nat /\ Table'[r] \in Nat
                            /\ Cardinality({i \in DOMAIN t.rows : t.rows[i] = r}) = Table[r] - Table'[r]
<1>1. TakeOK(t, w) /\ heap' = t.heap /\ t.end = "alive" /\ status = "alive"
  BY TakesFacts DEF Took, Ready
<1>2. PICK L \in SUBSET Live(heap) : TakenOut(t, w, L)
  BY <1>1 DEF TakeOK
<1>3. HeapOK(t.heap)
  BY <1>1 DEF TakeOK
<1>4. /\ Table = Bag(heap) /\ Table' = Bag(heap')
      /\ DOMAIN Bag(heap) = Rows
  BY <1>1, MappedState DEF Bag
<1>5. ASSUME NEW r \in Rows
      PROVE  /\ Table[r] \in Nat /\ Table'[r] \in Nat /\ Table'[r] <= Table[r]
             /\ ~Meets(r, w) => Table'[r] = Table[r]
             /\ Meets(r, w) /\ dropped = {} => Table'[r] = 0
             /\ Cardinality({i \in DOMAIN t.rows : t.rows[i] = r}) = Table[r] - Table'[r]
  <2>1. /\ Bag(heap)[r] \in Nat /\ Bag(t.heap)[r] \in Nat /\ Bag(t.heap)[r] <= Bag(heap)[r]
        /\ ~Meets(r, w) => Bag(t.heap)[r] = Bag(heap)[r]
        /\ Meets(r, w) /\ dropped = {} => Bag(t.heap)[r] = 0
        /\ Cardinality({i \in DOMAIN t.rows : t.rows[i] = r}) = Bag(heap)[r] - Bag(t.heap)[r]
    BY <1>2, <1>3, BagTaken
  <2> QED BY <1>1, <1>4, <2>1
<1>6. Store!TakesOut(w)
  BY <1>5 DEF Store!TakesOut
<1> QED BY <1>5, <1>6

(* DELETE takes the rows of its clause.                                     *)
LEMMA DeleteMaps ==
  ASSUME IInv, status' = "alive", NEW w \in Clauses, Delete(w)
  PROVE  Store!Delete(w)
<1>1. PICK t \in Takes(w) : Took(t)
  BY DEF Delete
<1>2. Ready /\ status = "alive" /\ stmt = Idle /\ stmt' = Idle /\ dropped' = dropped
  BY DEF Delete, Ready
<1>3. Store!TakesOut(w)
  BY <1>1, <1>2, StoreTakes
<1> QED BY <1>2, <1>3, MappedState DEF Store!Delete

(* UPDATE takes the rows of its clause, and is to put them all back.        *)
LEMMA UpdateMaps ==
  ASSUME IInv, status' = "alive", NEW w \in Clauses, NEW set \in Settings, BeginUpdate(w, set)
  PROVE  Store!BeginUpdate(w, set)
<1>1. PICK t \in Takes(w) :
        /\ Took(t)
        /\ stmt' = IF t.rows = <<>> \/ t.end # "alive" THEN Idle
                   ELSE [kind |-> "update", rows |-> t.rows, set |-> set]
  BY DEF BeginUpdate
<1>2. Ready /\ status = "alive" /\ stmt = Idle /\ dropped' = dropped /\ t.end = "alive"
  BY <1>1 DEF BeginUpdate, Ready, Took
<1>3. /\ Store!TakesOut(w)
      /\ \A r \in Rows : /\ Table[r] \in Nat /\ Table'[r] \in Nat
                         /\ Cardinality({i \in DOMAIN t.rows : t.rows[i] = r}) = Table[r] - Table'[r]
  BY <1>1, <1>2, StoreTakes
<1>4. CASE t.rows = <<>>
  <2>1. \A r \in Rows : Cardinality({i \in DOMAIN t.rows : t.rows[i] = r}) = 0
    <3>1. \A r \in Rows : {i \in DOMAIN t.rows : t.rows[i] = r} = {}
      BY <1>4
    <3> QED BY <3>1, FS_EmptySet
  <2>2. ASSUME NEW r \in Rows PROVE Table'[r] = Table[r]
    <3>1. /\ Table[r] \in Nat /\ Table'[r] \in Nat
          /\ Cardinality({i \in DOMAIN t.rows : t.rows[i] = r}) = Table[r] - Table'[r]
      BY <1>3
    <3>2. 0 = Table[r] - Table'[r]
      BY <2>1, <3>1
    <3> QED BY <3>1, <3>2
  <2>3. /\ Table = [r \in Rows |-> Table[r]]
        /\ Table' = [r \in Rows |-> Table'[r]]
    BY DEF Table
  <2>4. Table' = Table
    BY <2>2, <2>3
  <2> QED BY <1>1, <1>2, <1>3, <1>4, <2>4, MappedState DEF Store!BeginUpdate
<1>5. CASE t.rows # <<>>
  <2>1. stmt' = [kind |-> "update", rows |-> t.rows, set |-> set]
    BY <1>1, <1>2, <1>5
  <2>2. \A r \in Rows : Cardinality({i \in DOMAIN stmt'.rows : stmt'.rows[i] = r}) = Table[r] - Table'[r]
    BY <1>3, <2>1
  <2> DEFINE s == IF status' = "alive" THEN stmt' ELSE Idle
  <2>3. s = stmt'
    OBVIOUS
  <2>4. \A r \in Rows : Cardinality({i \in DOMAIN s.rows : s.rows[i] = r}) = Table[r] - Table'[r]
    <3> HIDE DEF s
    <3> QED BY <2>2, <2>3, Zenon
  <2>5. s.kind = "update" /\ s.set = set
    BY <2>1, <2>3
  <2> QED BY <1>2, <1>3, <2>4, <2>5, MappedState, SameCardinality DEF Store!BeginUpdate
<1> QED BY <1>4, <1>5

-----------------------------------------------------------------------------
(* The theorem *)

(* The mapping sends the initial states of TableIndex to TableStore's.      *)
LEMMA InitMaps == Init => Store!Init
<1> SUFFICES ASSUME Init PROVE Store!Init
  OBVIOUS
<1>1. /\ heap = [l \in Locs |-> [used |-> FALSE, row |-> [c \in Cols |-> Junk]]]
      /\ status = "alive" /\ stmt = Idle /\ dropped = {}
  BY DEF Init
<1>2. \A r \in Rows : At(heap, r) = {}
  BY <1>1 DEF At, Live
<1>3. Bag(heap) = Store!NoRows
  BY <1>2, FS_EmptySet DEF Bag, Store!NoRows
<1> QED BY <1>1, <1>3, MappedState DEF Store!Init

(* Every step of TableIndex is a step of TableStore.                        *)
LEMMA NextMaps == IInv /\ [Next]_vars => [Store!Next]_(Store!vars)
<1> SUFFICES ASSUME IInv, [Next]_vars PROVE Store!Next \/ UNCHANGED Store!vars
  OBVIOUS
<1>1. CASE UNCHANGED vars \/ Reopen \/ ParentChanges
  BY <1>1, StoreKept DEF vars, Reopen, ParentChanges
<1>2. CASE PutNew \/ PutChanged \/ PutBackup
  <2>1. /\ status = "alive" /\ stmt # Idle /\ stmt' = Rest(stmt) /\ dropped' = dropped
        /\ \/ Put(Head(stmt.rows))
           \/ stmt.kind = "update" /\ Put(Changed(Head(stmt.rows), stmt.set))
    BY <1>2 DEF PutNew, PutChanged, PutBackup, Backup, Idle
  <2>2. CASE Put(Head(stmt.rows))
    <3> DEFINE row == Head(stmt.rows)
    <3>1. row \in Rows
      BY <2>1, HeadFacts
    <3> QED BY <2>1, <2>2, <3>1, StorePuts
  <2>3. CASE stmt.kind = "update" /\ Put(Changed(Head(stmt.rows), stmt.set))
    <3> DEFINE row == Changed(Head(stmt.rows), stmt.set)
    <3>1. row \in Rows
      BY <2>1, <2>3, HeadFacts
    <3> QED BY <2>1, <2>3, <3>1, StorePuts
  <2> QED BY <2>1, <2>2, <2>3
<1>3. CASE RefuseNew \/ DoubleFault
  <2>1. /\ status = "alive" /\ status' = "alive" /\ stmt # Idle /\ stmt' = Idle
        /\ heap' = heap /\ dropped' = dropped
    BY <1>3 DEF RefuseNew, DoubleFault, Backup, Idle
  <2>2. Table' = Table
    BY <2>1, MappedState
  <2>3. Store!Refuse
    BY <2>1, <2>2, MappedState DEF Store!Refuse
  <2> QED BY <2>1, <2>3 DEF Store!Next
<1>4. CASE CheckKills \/ SetNull
  BY <1>4, StoreDies DEF CheckKills, SetNull, Ready
<1>5. ASSUME NEW w \in Clauses, Delete(w) PROVE Store!Next
  <2>1. Ready /\ status = "alive" /\ dropped' = dropped
    BY <1>5 DEF Delete, Ready
  <2>2. CASE status' # "alive"
    BY <2>1, <2>2, StoreDies
  <2>3. CASE status' = "alive"
    BY <1>5, <2>1, <2>3, DeleteMaps DEF Store!Next
  <2> QED BY <2>2, <2>3
<1>6. ASSUME NEW w \in Clauses, NEW set \in Settings, BeginUpdate(w, set) PROVE Store!Next
  <2>1. Ready /\ status = "alive" /\ dropped' = dropped
    BY <1>6 DEF BeginUpdate, Ready
  <2>2. CASE status' # "alive"
    BY <2>1, <2>2, StoreDies
  <2>3. CASE status' = "alive"
    BY <1>6, <2>1, <2>3, UpdateMaps DEF Store!Next
  <2> QED BY <2>2, <2>3
<1>7. ASSUME NEW rows \in Lists, BeginInsert(rows) PROVE Store!Next
  <2>1. /\ status = "alive" /\ status' = "alive" /\ stmt = Idle
        /\ stmt' = [kind |-> "insert", rows |-> rows, set |-> <<>>]
        /\ heap' = heap /\ dropped' = dropped
    BY <1>7 DEF BeginInsert, Ready
  <2>2. Table' = Table
    BY <2>1, MappedState
  <2>3. Store!BeginInsert
    BY <2>1, <2>2, MappedState DEF Store!BeginInsert
  <2> QED BY <2>1, <2>3 DEF Store!Next
<1>8. ASSUME NEW c \in Cols, CreateIndex(c) PROVE Store!Next \/ UNCHANGED Store!vars
  <2>1. /\ status = "alive" /\ status' \in {"alive", "listFull"}
        /\ heap' = heap /\ stmt' = stmt /\ dropped' = dropped
    BY <1>8 DEF CreateIndex, Ready
  <2>2. CASE status' = "alive"
    BY <2>1, <2>2, StoreKept
  <2>3. CASE status' # "alive"
    BY <2>1, <2>3, StoreDies
  <2> QED BY <2>2, <2>3
<1>9. ASSUME NEW c \in Cols, DropIndex(c) PROVE Store!Next
  <2>1. /\ status = "alive" /\ status' = "alive" /\ stmt = Idle /\ stmt' = stmt
        /\ heap' = heap /\ dropped' # {}
    BY <1>9 DEF DropIndex, Ready
  <2>2. Table' = Table
    BY <2>1, MappedState
  <2>3. Store!DropIndex
    BY <2>1, <2>2, MappedState DEF Store!DropIndex
  <2> QED BY <2>1, <2>3 DEF Store!Next
<1> QED BY <1>1, <1>2, <1>3, <1>4, <1>5, <1>6, <1>7, <1>8, <1>9 DEF Next, Step

(* Whichever index a DELETE or UPDATE goes through, the rows that leave the *)
(* table are those that meet the statement's own clause; an index dropped   *)
(* once may make it miss some, never take others.                           *)
THEOREM ClauseDecides == Spec => TakesByClause
<1> DEFINE ByItsClause ==
      \A w \in Clauses :
        /\ Delete(w) => status' # "alive" \/ Store!Delete(w)
        /\ \A set \in Settings :
             stmt'.set = set /\ BeginUpdate(w, set)
               => status' # "alive" \/ Store!BeginUpdate(w, set)
<1>1. IInv => ByItsClause
  BY DeleteMaps, UpdateMaps
<1>2. IInv /\ [Next]_vars => [ByItsClause]_vars
  BY <1>1
<1> QED BY <1>2, Invariance, PTL DEF Spec, TakesByClause

(* The table's rows come and go as a bag's: taken out by a clause of the    *)
(* program's, put back by UPDATE changed or as they were until both are     *)
(* refused, never changed otherwise, whichever indexes were used.           *)
THEOREM Refinement == Spec => ImplementsTableStore
<1>1. Spec => [][Store!Next]_(Store!vars)
  BY NextMaps, Invariance, PTL DEF Spec
<1> QED BY InitMaps, <1>1, PTL DEF Spec, ImplementsTableStore, Store!Spec
=============================================================================
