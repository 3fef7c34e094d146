----------------------------- MODULE CatalogProofs -----------------------------
(***************************************************************************)
(* Proofs about Catalog for every set of databases, tables and columns,    *)
(* every way in which the names of tables end in one another and every     *)
(* schema: what the descriptions in memory have to do with the files.      *)
(***************************************************************************)
EXTENDS Catalog, DataLemmas

Descriptions == [name : Names, cols : SUBSET Cols, col_has_index : SUBSET Cols, gone : BOOLEAN]

(* Directories: an index has no columns of its own, there is none before    *)
(* the first is made, and each has its table.                               *)
DirOK(d) == d \in Directories /\ \A n \in DOMAIN d : IsIndex(n) => d[n] = {}
Plain(d) == \A n \in DOMAIN d : ~IsIndex(n)
Owned(d) == \A n \in DOMAIN d : TableFile(n[1]) \in DOMAIN d

DiskOK(dk, ix, tn) ==
  /\ dk \in [Databases -> Directories \cup {NoDir}]
  /\ \A db \in Databases : dk[db] # NoDir =>
       DirOK(dk[db]) /\ (~ix => Plain(dk[db])) /\ (~tn => Owned(dk[db]))

(* Description d fits the files of directory dir.                           *)
Matches(d, dir, db, dr) ==
  LET t == d.name[1]
  IN  /\ d.name \in DOMAIN dir /\ d.cols = dir[d.name]
      /\ \A c \in d.cols :
           /\ c \in d.col_has_index => createIndexName(t, c) \in DOMAIN dir \/ EndsInAnother(t)
           /\ createIndexName(t, c) \in DOMAIN dir =>
                c \in d.col_has_index \/ <<db, createIndexName(t, c)>> \in dr

Fits(d, dir, db, dr, ix) ==
  /\ ~d.gone => Matches(d, dir, db, dr)
  /\ ~ix => ~d.gone /\ ~IsIndex(d.name)

Unique(map) == \A i, j \in DOMAIN map : map[i].name = map[j].name => i = j

MapOK(map, dir, db, dr, ix) ==
  /\ map \in Seq(Descriptions) /\ Unique(map)
  /\ \A i \in DOMAIN map : Fits(map[i], dir, db, dr, ix)

(* The inductive invariant: MemoryMatchesDisk alone does not say that an    *)
(* index file has no columns, which keeps its own description in step, nor  *)
(* CurrentWithoutIndexes that nothing describes an index either.            *)
IInv ==
  /\ DiskOK(disk, indexed, torn)
  /\ using = NoDb => table_map = <<>>
  /\ using # NoDb => /\ using \in Databases /\ disk[using] # NoDir
                     /\ MapOK(table_map, Dir, using, dropped, indexed)
  /\ status \in {"alive", "killed", "pastEnd", "noTable", "noIndex"}
  /\ status # "alive" => using = NoDb
  /\ indexed \in BOOLEAN /\ torn \in BOOLEAN
  /\ dropped \subseteq Databases \X Names

USE NamesAssumption, NoDirAssumption, SchemasAssumption

-----------------------------------------------------------------------------
(* Names, directories and lists of descriptions *)

(* What a name is made of.                                                  *)
LEMMA NameFacts ==
  /\ \A t \in Tables : TableFile(t) \in Names /\ ~IsIndex(TableFile(t)) /\ TableFile(t)[1] = t
  /\ \A t \in Tables, c \in Cols : /\ createIndexName(t, c) \in Names /\ IsIndex(createIndexName(t, c))
                                   /\ createIndexName(t, c)[1] = t
  /\ \A n \in Names : n[1] \in Tables /\ n = <<n[1], n[2]>> /\ (~IsIndex(n) => n = TableFile(n[1]))
                      /\ (IsIndex(n) => n[2] \in Cols /\ n = createIndexName(n[1], n[2]))
BY DEF Names, TableFile, createIndexName, IsIndex, Cols

(* Two names of indexes are the same only for the same table and column.    *)
LEMMA IndexNames ==
  ASSUME NEW t, NEW c, NEW u, NEW d, createIndexName(t, c) = createIndexName(u, d)
  PROVE  t = u /\ c = d
BY DEF createIndexName

(* What a directory is made of.                                             *)
LEMMA DirectoryFacts ==
  /\ \A d \in Directories : /\ DOMAIN d \subseteq Names /\ \A n \in DOMAIN d : d[n] \subseteq Cols
                            /\ d # NoDir
  /\ \A S \in SUBSET Names : \A d \in [S -> SUBSET Cols] : d \in Directories
BY DEF Directories

(* A list of descriptions element by element.                               *)
LEMMA MapFacts ==
  ASSUME NEW map, NEW dir, NEW db, NEW dr, NEW ix, MapOK(map, dir, db, dr, ix)
  PROVE  /\ Len(map) \in Nat /\ DOMAIN map = 1 .. Len(map)
         /\ \A i \in DOMAIN map : /\ map[i] \in Descriptions /\ Fits(map[i], dir, db, dr, ix)
                                  /\ map[i].name \in Names
<1>1. map \in Seq(Descriptions) /\ \A i \in DOMAIN map : Fits(map[i], dir, db, dr, ix)
  BY DEF MapOK
<1>2. Len(map) \in Nat /\ DOMAIN map = 1 .. Len(map) /\ \A i \in DOMAIN map : map[i] \in Descriptions
  BY <1>1
<1>3. \A d \in Descriptions : d.name \in Names
  BY DEF Descriptions
<1> QED BY <1>1, <1>2, <1>3

(* One more description.                                                    *)
LEMMA AppendOK ==
  ASSUME NEW map, NEW dir, NEW db, NEW dr, NEW ix, MapOK(map, dir, db, dr, ix),
         NEW d \in Descriptions, Fits(d, dir, db, dr, ix),
         \A i \in DOMAIN map : map[i].name # d.name
  PROVE  MapOK(Append(map, d), dir, db, dr, ix)
<1> DEFINE m == Append(map, d)
           n == Len(map)
<1>1. map \in Seq(Descriptions) /\ Unique(map) /\ n \in Nat /\ DOMAIN map = 1 .. n
  BY MapFacts DEF MapOK
<1>2. /\ m \in Seq(Descriptions) /\ DOMAIN m = 1 .. n + 1 /\ m[n + 1] = d
      /\ \A i \in 1 .. n : m[i] = map[i]
  BY <1>1
<1> HIDE DEF m, n
<1>3. \A i \in 1 .. n + 1 : i \in 1 .. n \/ i = n + 1
  BY <1>1
<1>4. Unique(m)
  <2>1. ASSUME NEW i \in 1 .. n + 1, NEW j \in 1 .. n + 1, m[i].name = m[j].name PROVE i = j
    <3>1. CASE i \in 1 .. n /\ j \in 1 .. n
      BY <1>1, <1>2, <2>1, <3>1 DEF Unique
    <3>2. CASE i \in 1 .. n /\ j = n + 1
      BY <1>1, <1>2, <2>1, <3>2
    <3>3. CASE i = n + 1 /\ j \in 1 .. n
      BY <1>1, <1>2, <2>1, <3>3
    <3> QED BY <1>3, <3>1, <3>2, <3>3
  <2> QED BY <1>2, <2>1 DEF Unique
<1>5. ASSUME NEW i \in DOMAIN m PROVE Fits(m[i], dir, db, dr, ix)
  <2>1. CASE i \in 1 .. n
    BY <1>1, <1>2, <2>1, MapFacts
  <2>2. CASE i = n + 1
    BY <1>2, <2>2
  <2> QED BY <1>2, <1>3, <2>1, <2>2
<1> QED BY <1>2, <1>4, <1>5 DEF MapOK, m

(* A list whose elements fit another directory or history.                  *)
LEMMA MapKept ==
  ASSUME NEW map, NEW dir, NEW db, NEW dr, NEW ix, MapOK(map, dir, db, dr, ix),
         NEW dir2, NEW db2, NEW dr2, NEW ix2,
         \A i \in DOMAIN map : Fits(map[i], dir2, db2, dr2, ix2)
  PROVE  MapOK(map, dir2, db2, dr2, ix2)
BY DEF MapOK

-----------------------------------------------------------------------------
(* What the operators do to the descriptions *)

(* The state while a database is in use.                                    *)
LEMMA InUse ==
  ASSUME IInv, Ready
  PROVE  /\ status = "alive" /\ using # NoDb /\ using \in Databases /\ disk[using] # NoDir
         /\ MapOK(table_map, Dir, using, dropped, indexed)
         /\ DirOK(Dir) /\ (~indexed => Plain(Dir)) /\ (~torn => Owned(Dir))
         /\ Dir \in Directories /\ DOMAIN Dir \subseteq Names
<1>1. /\ status = "alive" /\ using # NoDb /\ using \in Databases /\ disk[using] # NoDir
      /\ MapOK(table_map, Dir, using, dropped, indexed)
  BY DEF IInv, Ready
<1>2. DirOK(Dir) /\ (~indexed => Plain(Dir)) /\ (~torn => Owned(Dir))
  BY <1>1 DEF IInv, DiskOK, Dir
<1> QED BY <1>1, <1>2, DirectoryFacts DEF DirOK

(* A description made from the files fits them.                             *)
LEMMA DescriptionOK ==
  ASSUME IInv, Ready, NEW n \in DOMAIN Dir
  PROVE  /\ Description(n) \in Descriptions /\ Description(n).name = n
         /\ Fits(Description(n), Dir, using, dropped, indexed)
<1> DEFINE d == Description(n)
<1>1. n \in Names /\ Dir[n] \subseteq Cols /\ (~indexed => ~IsIndex(n))
  BY InUse, DirectoryFacts DEF Plain
<1>2. /\ d.name = n /\ d.cols = Dir[n] /\ ~d.gone
      /\ d.col_has_index = {c \in Dir[n] : Exists(createIndexName(n[1], c))}
  BY DEF Description
<1>3. d \in Descriptions
  BY <1>1 DEF Description, Descriptions
<1> HIDE DEF d
<1>4. Matches(d, Dir, using, dropped)
  BY <1>2 DEF Matches, Exists
<1> QED BY <1>1, <1>2, <1>3, <1>4 DEF Fits, d

(* getTableDescription.                                                     *)
LEMMA WithOK ==
  ASSUME IInv, Ready, NEW map, MapOK(map, Dir, using, dropped, indexed), NEW n,
         Known(n) \/ (Exists(n) /\ \A i \in DOMAIN map : map[i].name # n)
  PROVE  MapOK(With(map, n), Dir, using, dropped, indexed)
<1>1. CASE Known(n)
  BY <1>1 DEF With
<1>2. CASE ~Known(n)
  <2>1. n \in DOMAIN Dir /\ \A i \in DOMAIN map : map[i].name # n
    BY <1>2 DEF Exists
  <2>2. With(map, n) = Append(map, Description(n))
    BY <1>2 DEF With
  <2> QED BY <2>1, <2>2, DescriptionOK, AppendOK
<1> QED BY <1>1, <1>2

(* The description of a table with a file or one in memory already.         *)
LEMMA TableOK ==
  ASSUME IInv, Ready, NEW n, Described(n), NEW map, map = With(table_map, n)
  PROVE  /\ MapOK(map, Dir, using, dropped, indexed)
         /\ DescriptionOf(n) \in Descriptions /\ DescriptionOf(n).name = n
         /\ Fits(DescriptionOf(n), Dir, using, dropped, indexed)
         /\ \A i \in DOMAIN map : map[i].name = n => map[i] = DescriptionOf(n)
         /\ \A k \in Names : Known(k) => \E i \in DOMAIN map : map[i].name = k
         /\ \A i \in DOMAIN map : Known(map[i].name) \/ map[i].name = n
         /\ \E i \in DOMAIN map : map[i] = DescriptionOf(n)
<1>1. MapOK(table_map, Dir, using, dropped, indexed)
  BY InUse
<1>2. table_map \in Seq(Descriptions) /\ Len(table_map) \in Nat /\ DOMAIN table_map = 1 .. Len(table_map)
  BY <1>1 DEF MapOK
<1>3. Known(n) \/ (Exists(n) /\ \A i \in DOMAIN table_map : table_map[i].name # n)
  BY DEF Described, Known
<1>4. MapOK(map, Dir, using, dropped, indexed)
  BY <1>1, <1>3, WithOK
<1>5. map \in Seq(Descriptions) /\ Unique(map)
  BY <1>4 DEF MapOK
<1>6. CASE Known(n)
  <2>1. map = table_map
    BY <1>6 DEF With
  <2>2. PICK i \in DOMAIN map : map[i].name = n
    BY <1>6, <2>1 DEF Known
  <2> HIDE DEF Known
  <2>3. \A k \in Names : Known(k) => \E j \in DOMAIN map : map[j].name = k
    BY <2>1 DEF Known
  <2>4. \A j \in DOMAIN map : Known(map[j].name)
    BY <2>1 DEF Known
  <2>5. DescriptionOf(n) \in ToSet(map) /\ DescriptionOf(n).name = n
    <3>1. \E d \in ToSet(map) : d.name = n
      BY <2>2 DEF ToSet
    <3> QED BY <3>1 DEF DescriptionOf
  <2>6. PICK k \in DOMAIN map : DescriptionOf(n) = map[k]
    BY <2>5 DEF ToSet
  <2>7. \A j \in DOMAIN map : map[j].name = n => map[j] = DescriptionOf(n)
    BY <1>5, <2>5, <2>6 DEF Unique
  <2> QED BY <1>4, <2>3, <2>4, <2>5, <2>6, <2>7, MapFacts
<1>7. CASE ~Known(n)
  <2>1. map = Append(table_map, Description(n)) /\ n \in DOMAIN Dir
    BY <1>3, <1>7 DEF With, Exists
  <2>2. /\ DOMAIN map = 1 .. Len(table_map) + 1 /\ map[Len(table_map) + 1] = Description(n)
        /\ \A j \in 1 .. Len(table_map) : map[j] = table_map[j]
        /\ Description(n).name = n
    <3>1. Description(n) \in Descriptions /\ Description(n).name = n
      BY <2>1, DescriptionOK
    <3> DEFINE e == Description(n)
    <3> HIDE DEF e
    <3>2. e \in Descriptions /\ map = Append(table_map, e)
      BY <2>1, <3>1 DEF e
    <3>3. /\ DOMAIN map = 1 .. Len(table_map) + 1 /\ map[Len(table_map) + 1] = e
          /\ \A j \in 1 .. Len(table_map) : map[j] = table_map[j]
      BY <1>2, <3>2
    <3> QED BY <3>1, <3>3 DEF e
  <2>3. \A k \in Names : Known(k) => \E j \in DOMAIN map : map[j].name = k
    BY <1>2, <2>2 DEF Known
  <2>4. \A j \in DOMAIN map : Known(map[j].name) \/ map[j].name = n
    <3>1. \A j \in 1 .. Len(table_map) + 1 : j \in 1 .. Len(table_map) \/ j = Len(table_map) + 1
      BY <1>2
    <3> QED BY <1>2, <2>2, <3>1 DEF Known
  <2>5. DescriptionOf(n) \in ToSet(map) /\ DescriptionOf(n).name = n
    <3>1. Len(table_map) + 1 \in DOMAIN map
      BY <1>2, <2>2
    <3>2. \E d \in ToSet(map) : d.name = n
      BY <2>2, <3>1 DEF ToSet
    <3> QED BY <3>2 DEF DescriptionOf
  <2>6. PICK k \in DOMAIN map : DescriptionOf(n) = map[k]
    BY <2>5 DEF ToSet
  <2>7. \A j \in DOMAIN map : map[j].name = n => map[j] = DescriptionOf(n)
    BY <1>5, <2>5, <2>6 DEF Unique
  <2> QED BY <1>4, <2>3, <2>4, <2>5, <2>6, <2>7, MapFacts
<1> QED BY <1>6, <1>7

(* Other flags for one description.                                         *)
LEMMA FlaggingOK ==
  ASSUME NEW map, NEW dir, NEW db, NEW dr, NEW ix, MapOK(map, dir, db, dr, ix),
         NEW n, NEW flags \in SUBSET Cols, NEW dir2, NEW dr2, NEW ix2,
         \A i \in DOMAIN map :
           Fits(IF map[i].name = n THEN [map[i] EXCEPT !.col_has_index = flags] ELSE map[i],
                dir2, db, dr2, ix2)
  PROVE  /\ MapOK(Flagging(map, n, flags), dir2, db, dr2, ix2)
         /\ DOMAIN Flagging(map, n, flags) = DOMAIN map
         /\ \A i \in DOMAIN map : Flagging(map, n, flags)[i].name = map[i].name
<1> DEFINE m == Flagging(map, n, flags)
           E(d) == [d EXCEPT !.col_has_index = flags]
<1>1. map \in Seq(Descriptions) /\ Unique(map) /\ Len(map) \in Nat /\ DOMAIN map = 1 .. Len(map)
      /\ \A i \in DOMAIN map : map[i] \in Descriptions
  BY MapFacts DEF MapOK
<1>2. \A d \in Descriptions : E(d) \in Descriptions /\ E(d).name = d.name
  BY DEF Descriptions
<1>3. /\ DOMAIN m = DOMAIN map /\ m = [i \in DOMAIN map |-> m[i]]
      /\ \A i \in DOMAIN map : m[i] = IF map[i].name = n THEN E(map[i]) ELSE map[i]
  BY DEF Flagging
<1>4. \A i \in DOMAIN map : Fits(m[i], dir2, db, dr2, ix2)
  BY <1>3
<1> HIDE DEF m, E
<1>5. \A i \in DOMAIN map : m[i] \in Descriptions /\ m[i].name = map[i].name
  BY <1>1, <1>2, <1>3
<1>6. m \in [DOMAIN map -> Descriptions]
  BY <1>3, <1>5
<1>7. m \in Seq(Descriptions)
  BY <1>1, <1>6
<1>8. Unique(m)
  BY <1>1, <1>3, <1>5 DEF Unique
<1> QED BY <1>3, <1>4, <1>5, <1>7, <1>8 DEF MapOK, m

(* What dropTable leaves in table_map, whatever it skips.                   *)
LEMMA RemainingOK ==
  ASSUME NEW t, table_map \in Seq(Descriptions), Unique(table_map), NEW m, m = Remaining(t)
  PROVE  /\ m \in Seq(Descriptions) /\ Unique(m)
         /\ \A i \in DOMAIN m : \E k \in DOMAIN table_map \ Erased(t) : m[i] = table_map[k]
<1> DEFINE K == DOMAIN table_map \ Erased(t)
<1>1. K \in SUBSET DOMAIN table_map /\ m = ElementsAt(table_map, K)
  BY DEF Remaining
<1> HIDE DEF K
<1>2. m \in Seq(Descriptions) /\ \E place : Selects(m, table_map, K, place)
  BY <1>1, ElementsAtFacts
<1>3. PICK place : Selects(m, table_map, K, place)
  BY <1>2
<1>4. /\ DOMAIN m = 1 .. Len(m) /\ DOMAIN place = 1 .. Len(m) /\ IsInjective(place)
      /\ \A i \in 1 .. Len(m) : place[i] \in K /\ m[i] = table_map[place[i]]
  BY <1>2, <1>3 DEF Selects
<1>5. Unique(m)
  BY <1>1, <1>4 DEF Unique, IsInjective
<1> QED BY <1>2, <1>4, <1>5 DEF K

(* One description at most is to be dropped as long as nothing describes an *)
(* index: then it is erased, and the one behind it, skipped, may stay.      *)
LEMMA OnlyOneErased ==
  ASSUME NEW t, table_map \in Seq(Descriptions), Unique(table_map),
         \A i \in DOMAIN table_map : ~IsIndex(table_map[i].name),
         NEW k \in DOMAIN table_map, Drops(t, table_map[k].name)
  PROVE  k \in Erased(t) /\ table_map[k].name = TableFile(t)
<1> DEFINE drop == {i \in DOMAIN table_map : Drops(t, table_map[i].name)}
<1>1. Len(table_map) \in Nat /\ DOMAIN table_map = 1 .. Len(table_map)
  OBVIOUS
<1>2. \A i \in drop : table_map[i].name = TableFile(t)
  BY DEF Drops
<1>3. drop = {k}
  BY <1>2 DEF Unique
<1> HIDE DEF drop
<1>4. k \in Nat /\ k \in 1 .. k /\ k .. k \subseteq drop /\ k - 1 \notin drop /\ (k - k) % 2 = 0
  BY <1>1, <1>3
<1>5. k \in {i \in drop : \E j \in 1 .. i : j .. i \subseteq drop /\ j - 1 \notin drop /\ (i - j) % 2 = 0}
  BY <1>3, <1>4
<1> QED BY <1>2, <1>3, <1>5 DEF Erased, drop

-----------------------------------------------------------------------------
(* What the operators do to the disk *)

(* The directory of one database changes; the marks "indexed" and "torn"    *)
(* are only ever set.                                                       *)
LEMMA DirectoryChanged ==
  ASSUME IInv, NEW db \in Databases, NEW dir, disk' = [disk EXCEPT ![db] = dir], DirOK(dir),
         ~indexed' => ~indexed /\ Plain(dir), ~torn' => ~torn /\ Owned(dir)
  PROVE  DiskOK(disk', indexed', torn') /\ disk'[db] = dir /\ dir # NoDir
<1>1. /\ disk \in [Databases -> Directories \cup {NoDir}] /\ dir \in Directories /\ dir # NoDir
      /\ \A x \in Databases : disk[x] # NoDir =>
           DirOK(disk[x]) /\ (~indexed => Plain(disk[x])) /\ (~torn => Owned(disk[x]))
  BY DirectoryFacts DEF IInv, DiskOK, DirOK
<1>2. /\ disk' \in [Databases -> Directories \cup {NoDir}] /\ disk'[db] = dir
      /\ \A x \in Databases \ {db} : disk'[x] = disk[x]
  BY <1>1
<1>3. ASSUME NEW x \in Databases, disk'[x] # NoDir
      PROVE  DirOK(disk'[x]) /\ (~indexed' => Plain(disk'[x])) /\ (~torn' => Owned(disk'[x]))
  <2>1. CASE x = db
    BY <1>2, <2>1
  <2>2. CASE x # db
    BY <1>1, <1>2, <1>3, <2>2
  <2> QED BY <2>1, <2>2
<1> QED BY <1>1, <1>2, <1>3 DEF DiskOK

(* An empty directory.                                                      *)
LEMMA EmptyDirectory == DirOK(<<>>) /\ Plain(<<>>) /\ Owned(<<>>) /\ DOMAIN <<>> = {}
<1>1. DOMAIN <<>> = {}
  OBVIOUS
<1>2. <<>> \in [{} -> SUBSET Cols]
  OBVIOUS
<1>3. <<>> \in Directories
  BY <1>2, DirectoryFacts
<1> QED BY <1>1, <1>3 DEF DirOK, Plain, Owned

(* New files, indexes among them without columns.                           *)
LEMMA AddingFacts ==
  ASSUME IInv, Ready, NEW S \in SUBSET Names, NEW F \in [S -> SUBSET Cols],
         \A n \in S : IsIndex(n) => F[n] = {}
  PROVE  /\ DirOK(Adding(F)) /\ DOMAIN Adding(F) = DOMAIN Dir \cup S
         /\ \A n \in DOMAIN Dir : Adding(F)[n] = Dir[n]
         /\ \A n \in S \ DOMAIN Dir : Adding(F)[n] = F[n]
<1> DEFINE A == Adding(F)
           D == DOMAIN Dir \cup S
<1>1. /\ DOMAIN A = D /\ A = [n \in D |-> A[n]]
      /\ \A n \in DOMAIN Dir : A[n] = Dir[n]
      /\ \A n \in S \ DOMAIN Dir : A[n] = F[n]
  BY DEF Adding
<1>2. /\ DOMAIN Dir \subseteq Names /\ \A n \in DOMAIN Dir : Dir[n] \subseteq Cols
      /\ \A n \in DOMAIN Dir : IsIndex(n) => Dir[n] = {}
  BY InUse, DirectoryFacts DEF DirOK
<1> HIDE DEF A
<1>3. \A n \in D : A[n] \in SUBSET Cols /\ (IsIndex(n) => A[n] = {})
  BY <1>1, <1>2
<1>4. A \in [D -> SUBSET Cols] /\ D \in SUBSET Names
  BY <1>1, <1>2, <1>3
<1> HIDE DEF D
<1>5. A \in Directories
  BY <1>4, DirectoryFacts
<1> QED BY <1>1, <1>3, <1>5 DEF DirOK, A, D

(* Fewer files.                                                             *)
LEMMA WithoutFacts ==
  ASSUME IInv, Ready, NEW files
  PROVE  /\ DirOK(Without(files)) /\ DOMAIN Without(files) = DOMAIN Dir \ files
         /\ \A n \in DOMAIN Dir \ files : Without(files)[n] = Dir[n]
         /\ Plain(Dir) => Plain(Without(files))
<1> DEFINE A == Without(files)
           D == DOMAIN Dir \ files
<1>1. DOMAIN A = D /\ A = [n \in D |-> A[n]] /\ \A n \in D : A[n] = Dir[n]
  BY DEF Without, Restrict
<1>2. /\ DOMAIN Dir \subseteq Names /\ \A n \in DOMAIN Dir : Dir[n] \subseteq Cols
      /\ \A n \in DOMAIN Dir : IsIndex(n) => Dir[n] = {}
  BY InUse, DirectoryFacts DEF DirOK
<1> HIDE DEF A
<1>3. A \in [D -> SUBSET Cols] /\ D \in SUBSET Names
  BY <1>1, <1>2
<1> HIDE DEF D
<1>4. A \in Directories
  BY <1>3, DirectoryFacts
<1>5. \A n \in D : IsIndex(n) => A[n] = {}
  BY <1>1, <1>2 DEF D
<1>6. Plain(Dir) => Plain(A)
  BY <1>1 DEF Plain, D
<1> QED BY <1>1, <1>4, <1>5, <1>6 DEF DirOK, A, D

(* The files CREATE TABLE makes, with the table's first.                    *)
LEMMA MadeFacts ==
  ASSUME IInv, Ready, NEW t \in Tables, NEW cols \in SUBSET Cols, NEW keys \in SUBSET Cols,
         ~Exists(TableFile(t))
  PROVE  /\ DirOK(Made(t, cols, keys))
         /\ \A n \in DOMAIN Dir : n \in DOMAIN Made(t, cols, keys) /\ Made(t, cols, keys)[n] = Dir[n]
         /\ \A n \in DOMAIN Made(t, cols, keys) \ DOMAIN Dir :
              n = TableFile(t) \/ \E c \in keys : n = createIndexName(t, c)
         /\ Owned(Dir) => Owned(Made(t, cols, keys))
         /\ Plain(Dir) /\ keys = {} => Plain(Made(t, cols, keys))
<1> DEFINE S == {TableFile(t)} \cup {createIndexName(t, c) : c \in keys}
           F == [n \in S |-> IF n = TableFile(t) THEN cols ELSE {}]
           A == Made(t, cols, keys)
<1>1. S \in SUBSET Names /\ F \in [S -> SUBSET Cols] /\ \A n \in S : IsIndex(n) => F[n] = {}
  BY NameFacts
<1>2. A = Adding(F)
  BY DEF Made
<1>3. \A n \in S : n[1] = t /\ (n = TableFile(t) \/ \E c \in keys : n = createIndexName(t, c))
  BY NameFacts
<1>4. TableFile(t) \in S /\ (keys = {} => S = {TableFile(t)})
  OBVIOUS
<1> HIDE DEF S, F, A
<1>5. /\ DirOK(A) /\ DOMAIN A = DOMAIN Dir \cup S
      /\ \A n \in DOMAIN Dir : A[n] = Dir[n]
  BY <1>1, <1>2, AddingFacts
<1>6. Owned(Dir) => Owned(A)
  BY <1>3, <1>4, <1>5 DEF Owned
<1>7. Plain(Dir) /\ keys = {} => Plain(A)
  BY <1>4, <1>5, NameFacts DEF Plain
<1> QED BY <1>3, <1>5, <1>6, <1>7 DEF A

-----------------------------------------------------------------------------
(* The steps *)

Stops == {"alive", "killed", "pastEnd", "noTable", "noIndex"}

(* A step that leaves nothing in memory.                                    *)
LEMMA IdleStep ==
  ASSUME DiskOK(disk', indexed', torn'), using' = NoDb, table_map' = <<>>, status' \in Stops,
         indexed' \in BOOLEAN, torn' \in BOOLEAN, dropped' \subseteq Databases \X Names
  PROVE  IInv'
BY DEF IInv, Stops

(* A step after which a database is in use, its directory being dir.        *)
LEMMA UseStep ==
  ASSUME DiskOK(disk', indexed', torn'), using' \in Databases, status' = "alive",
         NEW dir, disk'[using'] = dir, dir # NoDir,
         MapOK(table_map', dir, using', dropped', indexed'),
         indexed' \in BOOLEAN, torn' \in BOOLEAN, dropped' \subseteq Databases \X Names
  PROVE  IInv'
<1>1. Dir' = dir
  BY DEF Dir
<1> QED BY <1>1 DEF IInv

(* What the invariant says of the files and of the past.                    *)
LEMMA History ==
  ASSUME IInv
  PROVE  /\ DiskOK(disk, indexed, torn) /\ indexed \in BOOLEAN /\ torn \in BOOLEAN
         /\ dropped \subseteq Databases \X Names /\ status \in Stops
         /\ disk \in [Databases -> Directories \cup {NoDir}]
BY DEF IInv, Stops, DiskOK

(* A process that ends in one of its ways, what was in memory being gone.   *)
LEMMA EndsStep ==
  ASSUME IInv, NEW how \in Stops, Ends(how), DiskOK(disk', indexed', torn'),
         indexed' \in BOOLEAN, torn' \in BOOLEAN, dropped' \subseteq dropped
  PROVE  IInv'
BY IdleStep, History DEF Ends

(* Nothing in memory fits any files.                                        *)
LEMMA EmptyMap == \A dir, db, dr, ix : MapOK(<<>>, dir, db, dr, ix)
BY DEF MapOK, Unique

(* CREATE DATABASE.                                                         *)
LEMMA CreateDBStep ==
  ASSUME IInv, NEW db \in Databases, CreateDB(db)
  PROVE  IInv'
<1>1. /\ status = "alive" /\ disk[db] = NoDir /\ disk' = [disk EXCEPT ![db] = <<>>]
      /\ using' = using /\ table_map' = table_map /\ status' = status
      /\ indexed' = indexed /\ dropped' = dropped /\ torn' = torn
  BY DEF CreateDB, history
<1>2. DiskOK(disk', indexed', torn')
  <2> DEFINE empty == <<>>
  <2>1. DirOK(empty) /\ Plain(empty) /\ Owned(empty)
    BY EmptyDirectory
  <2>2. disk' = [disk EXCEPT ![db] = empty]
    BY <1>1
  <2> HIDE DEF empty
  <2> QED BY <1>1, <2>1, <2>2, DirectoryChanged
<1>3. CASE using = NoDb
  <2>1. table_map = <<>>
    BY <1>3 DEF IInv
  <2> QED BY <1>1, <1>2, <1>3, <2>1, IdleStep, History
<1>4. CASE using # NoDb
  <2>1. /\ using \in Databases /\ disk[using] # NoDir
        /\ MapOK(table_map, Dir, using, dropped, indexed)
    BY <1>4 DEF IInv
  <2>2. disk'[using] = Dir
    BY <1>1, <2>1, History DEF Dir
  <2>3. Dir # NoDir
    BY <2>1 DEF Dir
  <2> QED BY <1>1, <1>2, <2>1, <2>2, <2>3, UseStep, History
<1> QED BY <1>3, <1>4

(* USE.                                                                     *)
LEMMA ChangeDBStep ==
  ASSUME IInv, NEW db \in Databases, ChangeDB(db)
  PROVE  IInv'
<1>1. /\ status = "alive" /\ disk[db] # NoDir /\ disk' = disk
      /\ using' = db /\ table_map' = <<>> /\ status' = status
      /\ indexed' = indexed /\ dropped' = dropped /\ torn' = torn
  BY DEF ChangeDB, history
<1>2. DiskOK(disk', indexed', torn') /\ MapOK(table_map', disk[db], db, dropped', indexed')
  BY <1>1, History, EmptyMap
<1> QED BY <1>1, <1>2, UseStep, History

(* DROP DATABASE.                                                           *)
LEMMA DropDBStep ==
  ASSUME IInv, NEW db \in Databases, DropDB(db)
  PROVE  IInv'
<1>1. /\ status = "alive" /\ disk[db] # NoDir /\ disk' = [disk EXCEPT ![db] = NoDir]
      /\ using' = IF using = db THEN NoDb ELSE using
      /\ table_map' = IF using = db THEN <<>> ELSE table_map
      /\ dropped' = InOther(db)
      /\ status' = status /\ indexed' = indexed /\ torn' = torn
  BY DEF DropDB
<1>2. dropped' \subseteq dropped /\ \A x \in dropped : x[1] # db => x \in dropped'
  BY <1>1 DEF InOther
<1>3. /\ disk' \in [Databases -> Directories \cup {NoDir}] /\ disk'[db] = NoDir
      /\ \A x \in Databases \ {db} : disk'[x] = disk[x]
  BY <1>1, History
<1>4. DiskOK(disk', indexed', torn')
  BY <1>1, <1>3, History DEF DiskOK
<1>5. dropped' \subseteq Databases \X Names
  BY <1>2, History
<1>6. CASE using = db
  BY <1>1, <1>4, <1>5, <1>6, IdleStep, History
<1>7. CASE using = NoDb
  <2>1. table_map = <<>>
    BY <1>7 DEF IInv
  <2> QED BY <1>1, <1>4, <1>5, <1>7, <2>1, IdleStep, History
<1>8. CASE using # db /\ using # NoDb
  <2>1. /\ using \in Databases /\ disk[using] # NoDir
        /\ MapOK(table_map, Dir, using, dropped, indexed)
    BY <1>8 DEF IInv
  <2>2. disk'[using] = Dir /\ Dir # NoDir
    BY <1>3, <1>8, <2>1 DEF Dir
  <2>3. ASSUME NEW i \in DOMAIN table_map PROVE Fits(table_map[i], Dir, using, dropped', indexed)
    <3>1. Fits(table_map[i], Dir, using, dropped, indexed)
      BY <2>1, MapFacts
    <3>2. \A n : <<using, n>> \in dropped => <<using, n>> \in dropped'
      BY <1>2, <1>8
    <3> QED BY <3>1, <3>2 DEF Fits, Matches
  <2>4. MapOK(table_map, Dir, using, dropped', indexed)
    BY <2>1, <2>3, MapKept
  <2> QED BY <1>1, <1>4, <1>5, <1>8, <2>1, <2>2, <2>4, UseStep, History
<1> QED BY <1>6, <1>7, <1>8

(* A description still fits when files are added and indexes made again,    *)
(* unless one of them is an index of a column of its table.                 *)
LEMMA FitsMore ==
  ASSUME IInv, Ready, NEW d \in Descriptions, NEW ix, ~ix => ~indexed, NEW dr,
         Fits(d, Dir, using, dropped, indexed), NEW dir, NEW new,
         \A n \in DOMAIN Dir : n \in DOMAIN dir /\ dir[n] = Dir[n],
         DOMAIN dir \ DOMAIN Dir \subseteq new,
         \A n \in Names : <<using, n>> \in dropped => <<using, n>> \in dr \/ n \in new,
         ~d.gone => \A c \in d.cols : createIndexName(d.name[1], c) \notin new
  PROVE  Fits(d, dir, using, dr, ix)
<1>1. d.name \in Names /\ d.cols \subseteq Cols
  BY DEF Descriptions
<1>2. ASSUME ~d.gone PROVE Matches(d, dir, using, dr)
  <2>1. Matches(d, Dir, using, dropped)
    BY <1>2 DEF Fits
  <2> DEFINE t == d.name[1]
  <2>2. d.name \in DOMAIN dir /\ d.cols = dir[d.name]
    BY <2>1 DEF Matches
  <2>3. ASSUME NEW c \in d.cols
        PROVE  /\ c \in d.col_has_index => createIndexName(t, c) \in DOMAIN dir \/ EndsInAnother(t)
               /\ createIndexName(t, c) \in DOMAIN dir =>
                    c \in d.col_has_index \/ <<using, createIndexName(t, c)>> \in dr
    <3>1. createIndexName(t, c) \in Names
      BY <1>1, NameFacts
    <3>2. createIndexName(t, c) \notin new
      BY <1>2
    <3> HIDE DEF t
    <3> QED BY <2>1, <3>1, <3>2 DEF Matches, t
  <2> QED BY <2>2, <2>3 DEF Matches
<1> QED BY <1>2 DEF Fits

(* CREATE TABLE.                                                            *)
LEMMA CreateTableStep ==
  ASSUME IInv, NEW t \in Tables, NEW s \in Schemas(using, t), CreateTable(t, s)
  PROVE  IInv'
<1> DEFINE dir == Made(t, s.cols, s.keys)
<1>1. /\ Ready /\ ~Exists(TableFile(t)) /\ disk' = [disk EXCEPT ![using] = dir]
      /\ indexed' = (indexed \/ s.keys # {})
      /\ using' = using /\ table_map' = table_map /\ status' = status /\ dropped' = dropped /\ torn' = torn
  BY DEF CreateTable
<1>2. s.cols \in SUBSET Cols /\ s.keys \in SUBSET Cols
  BY <1>1, InUse DEF Cols
<1> HIDE DEF dir
<1>3. /\ DirOK(dir)
      /\ \A n \in DOMAIN Dir : n \in DOMAIN dir /\ dir[n] = Dir[n]
      /\ \A n \in DOMAIN dir \ DOMAIN Dir : n = TableFile(t) \/ \E c \in s.keys : n = createIndexName(t, c)
      /\ Owned(Dir) => Owned(dir)
      /\ Plain(Dir) /\ s.keys = {} => Plain(dir)
  BY <1>1, <1>2, MadeFacts DEF dir
<1>4. /\ ~indexed' => ~indexed /\ Plain(dir)
      /\ ~torn' => ~torn /\ Owned(dir)
  BY <1>1, <1>3, InUse
<1>5. DiskOK(disk', indexed', torn') /\ disk'[using] = dir /\ dir # NoDir
  BY <1>1, <1>3, <1>4, InUse, DirectoryChanged
<1>6. ASSUME NEW i \in DOMAIN table_map PROVE Fits(table_map[i], dir, using, dropped, indexed')
  <2> DEFINE d == table_map[i]
  <2>1. d \in Descriptions /\ Fits(d, Dir, using, dropped, indexed) /\ d.name \in Names
    BY <1>1, InUse, MapFacts
  <2>2. ASSUME ~d.gone, NEW c \in d.cols, createIndexName(d.name[1], c) \in DOMAIN dir \ DOMAIN Dir
        PROVE  FALSE
    <3>1. d.name \in DOMAIN Dir /\ d.cols = Dir[d.name]
      BY <2>1, <2>2 DEF Fits, Matches
    <3>2. c \in Cols /\ d.name[1] \in Tables
      BY <2>1, <2>2, NameFacts DEF Descriptions
    <3>3. IsIndex(createIndexName(d.name[1], c)) /\ ~IsIndex(TableFile(t))
      BY <3>2, NameFacts
    <3>4. d.name[1] = t
      BY <1>3, <2>2, <3>3, IndexNames
    <3>5. d.name # TableFile(t)
      BY <1>1, <3>1 DEF Exists
    <3>6. IsIndex(d.name)
      BY <2>1, <3>4, <3>5, NameFacts
    <3> QED BY <1>1, <2>2, <3>1, <3>6, InUse DEF DirOK
  <2> DEFINE new == DOMAIN dir \ DOMAIN Dir
  <2>3. ~d.gone => \A c \in d.cols : createIndexName(d.name[1], c) \notin new
    BY <2>2
  <2>4. DOMAIN dir \ DOMAIN Dir \subseteq new
    OBVIOUS
  <2> HIDE DEF d, new
  <2> QED BY <1>1, <1>3, <1>4, <2>1, <2>3, <2>4, FitsMore DEF d
<1>7. MapOK(table_map, dir, using, dropped, indexed')
  BY <1>1, <1>6, InUse, MapKept
<1> QED BY <1>1, <1>5, <1>7, InUse, UseStep, History

(* CREATE TABLE stopped half way.                                           *)
LEMMA CreateTableKilledStep ==
  ASSUME IInv, NEW t \in Tables, NEW s \in Schemas(using, t), NEW keys \in SUBSET s.keys,
         CreateTableKilled(t, s, keys)
  PROVE  IInv'
<1> DEFINE dir == Made(t, {}, keys)
<1>1. /\ Ready /\ ~Exists(TableFile(t)) /\ disk' = [disk EXCEPT ![using] = dir]
      /\ indexed' = (indexed \/ keys # {}) /\ Ends("killed")
      /\ dropped' = dropped /\ torn' = torn
  BY DEF CreateTableKilled
<1>2. {} \in SUBSET Cols /\ keys \in SUBSET Cols
  BY <1>1, InUse DEF Cols
<1> HIDE DEF dir
<1>3. DirOK(dir) /\ (Owned(Dir) => Owned(dir)) /\ (Plain(Dir) /\ keys = {} => Plain(dir))
  BY <1>1, <1>2, MadeFacts DEF dir
<1>4. /\ ~indexed' => ~indexed /\ Plain(dir)
      /\ ~torn' => ~torn /\ Owned(dir)
  BY <1>1, <1>3, InUse
<1>5. DiskOK(disk', indexed', torn')
  BY <1>1, <1>3, <1>4, InUse, DirectoryChanged
<1> QED BY <1>1, <1>5, EndsStep, History DEF Stops

(* A description after the deletion of files.                               *)
Gone(d, files) == IF d.name \in files THEN [d EXCEPT !.gone = TRUE] ELSE d

(* The descriptions of deleted files are marked as gone.                    *)
LEMMA GonersOK ==
  ASSUME NEW map, map \in Seq(Descriptions), Unique(map), NEW files,
         NEW dir, NEW db, NEW dr, NEW ix,
         \A i \in DOMAIN map : Fits(Gone(map[i], files), dir, db, dr, ix)
  PROVE  MapOK(Goners(map, files), dir, db, dr, ix)
<1> DEFINE m == Goners(map, files)
<1>1. Len(map) \in Nat /\ DOMAIN map = 1 .. Len(map) /\ \A i \in DOMAIN map : map[i] \in Descriptions
  OBVIOUS
<1>2. \A d \in Descriptions : Gone(d, files) \in Descriptions /\ Gone(d, files).name = d.name
  BY DEF Descriptions, Gone
<1>3. /\ DOMAIN m = DOMAIN map /\ m = [i \in DOMAIN map |-> m[i]]
      /\ \A i \in DOMAIN map : m[i] = Gone(map[i], files)
  BY DEF Goners, Gone
<1> HIDE DEF m
<1>4. \A i \in DOMAIN map : m[i] \in Descriptions /\ m[i].name = map[i].name
  BY <1>1, <1>2, <1>3
<1>5. m \in [DOMAIN map -> Descriptions]
  BY <1>3, <1>4
<1>6. m \in Seq(Descriptions)
  BY <1>1, <1>5
<1>7. Unique(m)
  BY <1>1, <1>3, <1>4 DEF Unique
<1> QED BY <1>3, <1>6, <1>7 DEF MapOK, m

(* A description dropTable leaves in memory.  The index of a table whose    *)
(* name ends in that of the dropped one may be missing from now on.         *)
LEMMA DroppedFits ==
  ASSUME IInv, Ready, NEW t \in Tables, NEW d \in Descriptions,
         Fits(d, Dir, using, dropped, indexed),
         ~indexed => ~Drops(t, d.name),
         NEW files, files = DroppedFiles(t), NEW dir, dir = Without(files),
         NEW dr, \A n : <<using, n>> \in dropped /\ n \notin files => <<using, n>> \in dr
  PROVE  Fits(Gone(d, files), dir, using, dr, indexed)
<1>1. /\ DOMAIN dir = DOMAIN Dir \ files
      /\ \A n \in DOMAIN Dir \ files : dir[n] = Dir[n]
  BY WithoutFacts
<1>2. d.name \in Names /\ d.cols \subseteq Cols /\ d.name[1] \in Tables
  BY NameFacts DEF Descriptions
<1>3. \A n \in files : n \in DOMAIN Dir /\ Drops(t, n)
  BY DEF DroppedFiles
<1>4. \A n \in DOMAIN Dir : Drops(t, n) => n \in files
  BY DEF DroppedFiles
<1>5. CASE d.name \in files
  <2> DEFINE e == Gone(d, files)
  <2>1. e.gone /\ e.name = d.name
    BY <1>5 DEF Gone, Descriptions
  <2>2. indexed
    BY <1>3, <1>5
  <2> HIDE DEF e
  <2> QED BY <2>1, <2>2 DEF Fits, e
<1>6. CASE d.name \notin files
  <2>1. Gone(d, files) = d
    BY <1>6 DEF Gone
  <2>2. ~indexed => ~d.gone /\ ~IsIndex(d.name)
    BY DEF Fits
  <2>3. ASSUME ~d.gone PROVE Matches(d, dir, using, dr)
    <3> DEFINE u == d.name[1]
    <3>1. Matches(d, Dir, using, dropped)
      BY <2>3 DEF Fits
    <3>2. d.name \in DOMAIN Dir /\ d.cols = Dir[d.name]
      BY <3>1 DEF Matches
    <3>3. d.name \in DOMAIN dir /\ d.cols = dir[d.name]
      BY <1>1, <1>6, <3>2
    <3>4. ASSUME NEW c \in d.cols
          PROVE  /\ c \in d.col_has_index => createIndexName(u, c) \in DOMAIN dir \/ EndsInAnother(u)
                 /\ createIndexName(u, c) \in DOMAIN dir =>
                      c \in d.col_has_index \/ <<using, createIndexName(u, c)>> \in dr
      <4> DEFINE n == createIndexName(u, c)
      <4>1. /\ c \in d.col_has_index => n \in DOMAIN Dir \/ EndsInAnother(u)
            /\ n \in DOMAIN Dir => c \in d.col_has_index \/ <<using, n>> \in dropped
        BY <3>1 DEF Matches
      <4>2. c \in Cols /\ u \in Tables
        BY <1>2
      <4>3. n \in Names /\ IsIndex(n) /\ n[1] = u
        BY <4>2, NameFacts
      <4>4. u # t
        <5>1. CASE IsIndex(d.name)
          BY <1>2, <1>4, <1>6, <3>2, <5>1 DEF Drops
        <5>2. CASE ~IsIndex(d.name)
          <6>1. d.name = TableFile(u)
            BY <1>2, <5>2, NameFacts
          <6> HIDE DEF u
          <6> QED BY <1>4, <1>6, <3>2, <6>1 DEF Drops
        <5> QED BY <5>1, <5>2
      <4> HIDE DEF n, u
      <4>5. n \in files => EndsInAnother(u)
        <5>1. ASSUME n \in files PROVE EndsInAnother(u)
          <6>1. n # TableFile(t)
            BY <4>3, NameFacts
          <6>2. <<t, u>> \in EndsWith
            BY <1>3, <4>3, <4>4, <5>1, <6>1 DEF Drops
          <6> QED BY <6>2 DEF EndsInAnother
        <5> QED BY <5>1
      <4>6. n \in DOMAIN dir => n \in DOMAIN Dir /\ n \notin files
        BY <1>1
      <4>7. n \in DOMAIN Dir /\ n \notin files => n \in DOMAIN dir
        BY <1>1
      <4> QED BY <4>1, <4>5, <4>6, <4>7 DEF n
    <3> QED BY <3>3, <3>4 DEF Matches
  <2> QED BY <2>1, <2>2, <2>3 DEF Fits
<1> QED BY <1>5, <1>6

(* DROP TABLE keeps the tables and their indexes together.                  *)
LEMMA OwnedDropped ==
  ASSUME IInv, Ready, NEW t \in Tables, Owned(Dir)
  PROVE  Owned(Without(DroppedFiles(t)))
<1> DEFINE files == DroppedFiles(t)
           dir == Without(files)
<1>1. \A n \in DOMAIN Dir : n \in files <=> Drops(t, n)
  BY DEF DroppedFiles
<1> HIDE DEF files
<1>2. DOMAIN dir = DOMAIN Dir \ files /\ DOMAIN Dir \subseteq Names
  BY InUse, WithoutFacts
<1> HIDE DEF dir
<1>3. ASSUME NEW n \in DOMAIN dir PROVE TableFile(n[1]) \in DOMAIN dir
  <2>1. n \in DOMAIN Dir /\ ~Drops(t, n) /\ n \in Names /\ n[1] \in Tables
    BY <1>1, <1>2, NameFacts
  <2>2. TableFile(n[1]) \in DOMAIN Dir
    BY <2>1 DEF Owned
  <2>3. n[1] # t
    <3>1. IsIndex(n) => n[1] # t
      BY <2>1 DEF Drops
    <3>2. ~IsIndex(n) => n = TableFile(n[1]) /\ n # TableFile(t)
      BY <2>1, NameFacts DEF Drops
    <3> QED BY <3>1, <3>2
  <2>4. ~Drops(t, TableFile(n[1]))
    BY <2>1, <2>3, NameFacts DEF Drops
  <2> QED BY <1>1, <1>2, <2>2, <2>4
<1> QED BY <1>3 DEF Owned, dir, files

(* DROP TABLE.                                                              *)
LEMMA DropTableStep ==
  ASSUME IInv, NEW t \in Tables, DropTable(t)
  PROVE  IInv'
<1> DEFINE files == DroppedFiles(t)
           dir == Without(files)
           map == Remaining(t)
           K == DOMAIN table_map \ Erased(t)
<1>1. /\ Ready /\ disk' = [disk EXCEPT ![using] = dir] /\ table_map' = Goners(map, files)
      /\ dropped' = dropped \ {<<using, n>> : n \in files}
      /\ using' = using /\ status' = status /\ indexed' = indexed /\ torn' = torn
  BY DEF DropTable
<1>2. DirOK(dir) /\ (Plain(Dir) => Plain(dir)) /\ (Owned(Dir) => Owned(dir))
  BY <1>1, WithoutFacts, OwnedDropped
<1>3. DiskOK(disk', indexed', torn') /\ disk'[using] = dir /\ dir # NoDir
  <2> HIDE DEF dir
  <2> QED BY <1>1, <1>2, InUse, DirectoryChanged
<1>4. MapOK(table_map, Dir, using, dropped, indexed)
  BY <1>1, InUse
<1>5. table_map \in Seq(Descriptions) /\ Unique(table_map)
  BY <1>4 DEF MapOK
<1>6. map \in Seq(Descriptions) /\ Unique(map) /\ \A i \in DOMAIN map : \E k \in K : map[i] = table_map[k]
  BY <1>5, RemainingOK
<1>7. \A n : <<using, n>> \in dropped /\ n \notin files => <<using, n>> \in dropped'
  BY <1>1
<1>8. ASSUME NEW k \in K, ~indexed PROVE ~Drops(t, table_map[k].name)
  <2>1. \A i \in DOMAIN table_map : ~IsIndex(table_map[i].name)
    BY <1>4, <1>8, MapFacts DEF Fits
  <2> QED BY <1>5, <1>8, <2>1, OnlyOneErased
<1> HIDE DEF files, dir, map
<1>9. ASSUME NEW i \in DOMAIN map PROVE Fits(Gone(map[i], files), dir, using, dropped', indexed)
  <2>1. PICK k \in K : map[i] = table_map[k]
    BY <1>6
  <2> DEFINE d == table_map[k]
  <2>2. /\ d \in Descriptions /\ Fits(d, Dir, using, dropped, indexed) /\ (~indexed => ~Drops(t, d.name))
    BY <1>4, <1>8, MapFacts
  <2> HIDE DEF d
  <2>3. files = DroppedFiles(t) /\ dir = Without(files)
    BY DEF files, dir
  <2>4. Fits(Gone(d, files), dir, using, dropped', indexed)
    BY <1>1, <1>7, <2>2, <2>3, DroppedFits
  <2> QED BY <2>1, <2>4 DEF d
<1>10. MapOK(table_map', dir, using, dropped', indexed)
  BY <1>1, <1>6, <1>9, GonersOK
<1> QED BY <1>1, <1>3, <1>10, InUse, UseStep, History

(* DROP TABLE stopped half way.                                             *)
LEMMA DropTableKilledStep ==
  ASSUME IInv, NEW t \in Tables, NEW files \in SUBSET Names, DropTableKilled(t, files)
  PROVE  IInv'
<1> DEFINE dir == Without(files)
<1>1. /\ Ready /\ disk' = [disk EXCEPT ![using] = dir] /\ Ends("killed")
      /\ dropped' = dropped \ {<<using, n>> : n \in files}
      /\ torn' = TRUE /\ indexed' = indexed
  BY DEF DropTableKilled
<1>2. DirOK(dir) /\ (Plain(Dir) => Plain(dir))
  BY <1>1, WithoutFacts
<1> HIDE DEF dir
<1>3. DiskOK(disk', indexed', torn')
  BY <1>1, <1>2, InUse, DirectoryChanged
<1>4. dropped' \subseteq dropped
  BY <1>1
<1> QED BY <1>1, <1>3, <1>4, EndsStep, History DEF Stops

(* The ways to end that leave the files alone.                              *)
LEMMA RestartStep ==
  ASSUME IInv, Restart
  PROVE  IInv'
<1>1. Ends("alive") /\ disk' = disk /\ indexed' = indexed /\ torn' = torn /\ dropped' = dropped
  BY DEF Restart, history
<1> QED BY <1>1, EndsStep, History DEF Stops

(* An iterator that runs past the end.                                      *)
LEMMA DropTableDiesStep ==
  ASSUME IInv, NEW t \in Tables, DropTableDies(t)
  PROVE  IInv'
<1>1. Ends("pastEnd") /\ disk' = disk /\ indexed' = indexed /\ torn' = torn /\ dropped' = dropped
  BY DEF DropTableDies, history
<1> QED BY <1>1, EndsStep, History DEF Stops

(* A description that does not exist.                                       *)
LEMMA NoTableDiesStep ==
  ASSUME IInv, NEW t \in Tables, NoTableDies(t)
  PROVE  IInv'
<1>1. Ends("noTable") /\ disk' = disk /\ indexed' = indexed /\ torn' = torn /\ dropped' = dropped
  BY DEF NoTableDies, history
<1> QED BY <1>1, EndsStep, History DEF Stops

(* A statement that needs the description of a table.                       *)
LEMMA DescribeStep ==
  ASSUME IInv, NEW t \in Tables, Describe(t)
  PROVE  IInv'
<1>1. /\ Ready /\ Described(TableFile(t)) /\ table_map' = With(table_map, TableFile(t))
      /\ disk' = disk /\ using' = using /\ status' = status
      /\ indexed' = indexed /\ torn' = torn /\ dropped' = dropped
  BY DEF Describe, history
<1>2. MapOK(table_map', Dir, using, dropped, indexed)
  <2> DEFINE n == TableFile(t)
  <2> HIDE DEF n
  <2> QED BY <1>1, TableOK DEF n
<1>3. disk'[using] = Dir /\ Dir # NoDir
  BY <1>1, InUse DEF Dir
<1>4. DiskOK(disk', indexed', torn')
  BY <1>1, History
<1> QED BY <1>1, <1>2, <1>3, <1>4, InUse, UseStep, History

(* TheBTree of an index: its description, or the end when it has no file.   *)
LEMMA UseIndexStep ==
  ASSUME IInv, NEW t \in Tables, NEW c \in Cols, UseIndex(t, c)
  PROVE  IInv'
<1> DEFINE tf == TableFile(t)
           map == With(table_map, tf)
           n == createIndexName(t, c)
<1>1. /\ Ready /\ Described(tf) /\ disk' = disk
      /\ indexed' = indexed /\ torn' = torn /\ dropped' = dropped
      /\ IF Described(n) THEN table_map' = With(map, n) /\ using' = using /\ status' = status
                         ELSE Ends("noIndex")
  BY DEF UseIndex, history
<1>2. tf \in Names /\ n \in Names /\ tf # n
  BY NameFacts
<1> HIDE DEF tf, n
<1>3. DiskOK(disk', indexed', torn')
  BY <1>1, History
<1>4. CASE ~Described(n)
  BY <1>1, <1>3, <1>4, EndsStep, History DEF Stops
<1>5. CASE Described(n)
  <2>1. /\ MapOK(map, Dir, using, dropped, indexed)
        /\ \A i \in DOMAIN map : Known(map[i].name) \/ map[i].name = tf
    BY <1>1, TableOK
  <2> HIDE DEF map
  <2>2. Known(n) \/ (Exists(n) /\ \A i \in DOMAIN map : map[i].name # n)
    BY <1>2, <1>5, <2>1 DEF Described
  <2>3. MapOK(With(map, n), Dir, using, dropped, indexed)
    BY <1>1, <2>1, <2>2, WithOK
  <2>4. disk'[using] = Dir /\ Dir # NoDir
    BY <1>1, InUse DEF Dir
  <2> QED BY <1>1, <1>3, <1>5, <2>3, <2>4, InUse, UseStep, History
<1> QED BY <1>4, <1>5

(* DROP INDEX, which leaves the file.                                       *)
LEMMA DropIndexStep ==
  ASSUME IInv, NEW t \in Tables, NEW c \in Cols, DropIndex(t, c)
  PROVE  IInv'
<1> DEFINE tf == TableFile(t)
           map == With(table_map, tf)
           d == DescriptionOf(tf)
           n == createIndexName(t, c)
           flags == d.col_has_index \ {c}
           E(x) == [x EXCEPT !.col_has_index = flags]
<1>1. /\ Ready /\ Described(tf) /\ disk' = disk /\ table_map' = Flagging(map, tf, flags)
      /\ indexed' = indexed /\ torn' = torn /\ using' = using /\ status' = status
      /\ dropped' = dropped \cup {<<using, n>>}
  BY DEF DropIndex
<1>2. tf \in Names /\ n \in Names /\ tf[1] = t
  BY NameFacts
<1>3. /\ MapOK(map, Dir, using, dropped, indexed)
      /\ d \in Descriptions /\ d.name = tf /\ Fits(d, Dir, using, dropped, indexed)
      /\ \A i \in DOMAIN map : map[i].name = tf => map[i] = d
  <2> HIDE DEF tf
  <2> QED BY <1>1, TableOK
<1>4. dropped' \subseteq Databases \X Names /\ dropped \subseteq dropped'
  BY <1>1, <1>2, InUse, History
<1> HIDE DEF tf, map, d
<1>5. /\ flags \in SUBSET Cols
      /\ E(d).name = tf /\ E(d).gone = d.gone /\ E(d).cols = d.cols /\ E(d).col_has_index = flags
  BY <1>3 DEF Descriptions
<1>6. Fits(E(d), Dir, using, dropped', indexed)
  <2> DEFINE e == E(d)
  <2> HIDE DEF E
  <2>1. ASSUME ~e.gone PROVE Matches(e, Dir, using, dropped')
    <3>1. Matches(d, Dir, using, dropped)
      BY <1>3, <1>5, <2>1 DEF Fits
    <3>2. ASSUME NEW x \in d.cols
          PROVE  /\ x \in flags => createIndexName(t, x) \in DOMAIN Dir \/ EndsInAnother(t)
                 /\ createIndexName(t, x) \in DOMAIN Dir =>
                      x \in flags \/ <<using, createIndexName(t, x)>> \in dropped'
      <4>1. /\ x \in d.col_has_index => createIndexName(t, x) \in DOMAIN Dir \/ EndsInAnother(t)
            /\ createIndexName(t, x) \in DOMAIN Dir =>
                 x \in d.col_has_index \/ <<using, createIndexName(t, x)>> \in dropped
        BY <1>2, <1>3, <3>1 DEF Matches
      <4>2. CASE x = c
        BY <1>1, <4>2
      <4>3. CASE x # c
        BY <1>4, <4>1, <4>3
      <4> QED BY <4>2, <4>3
    <3>3. d.name \in DOMAIN Dir /\ d.cols = Dir[d.name]
      BY <3>1 DEF Matches
    <3> HIDE DEF e
    <3>4. e.name = tf /\ e.cols = d.cols /\ e.col_has_index = flags
      BY <1>5 DEF e
    <3> HIDE DEF flags
    <3> QED BY <1>2, <1>3, <3>2, <3>3, <3>4 DEF Matches
  <2>2. ~indexed => ~e.gone /\ ~IsIndex(e.name)
    BY <1>3, <1>5 DEF Fits
  <2> QED BY <2>1, <2>2 DEF Fits
<1>7. ASSUME NEW i \in DOMAIN map
      PROVE  Fits(IF map[i].name = tf THEN E(map[i]) ELSE map[i], Dir, using, dropped', indexed)
  <2>1. CASE map[i].name = tf
    <3>1. map[i] = d
      BY <1>3, <2>1
    <3> HIDE DEF E
    <3> QED BY <1>6, <2>1, <3>1
  <2>2. CASE map[i].name # tf
    <3>1. Fits(map[i], Dir, using, dropped, indexed)
      BY <1>3, MapFacts
    <3>2. Fits(map[i], Dir, using, dropped', indexed)
      BY <1>4, <3>1 DEF Fits, Matches
    <3> QED BY <2>2, <3>2
  <2> QED BY <2>1, <2>2
<1> HIDE DEF flags
<1>8. MapOK(table_map', Dir, using, dropped', indexed)
  BY <1>1, <1>3, <1>5, <1>7, FlaggingOK
<1>9. disk'[using] = Dir /\ Dir # NoDir
  BY <1>1, InUse DEF Dir
<1>10. DiskOK(disk', indexed', torn')
  BY <1>1, History
<1> QED BY <1>1, <1>4, <1>8, <1>9, <1>10, InUse, UseStep, History

(* CREATE INDEX, for the table there is or a gone one.                      *)
LEMMA CreateIndexStep ==
  ASSUME IInv, NEW t \in Tables, NEW c \in Cols, CreateIndex(t, c)
  PROVE  IInv'
<1> DEFINE tf == TableFile(t)
           map == With(table_map, tf)
           d == DescriptionOf(tf)
           n == createIndexName(t, c)
           flags == d.col_has_index \cup {c}
           flagged == Flagging(map, tf, flags)
           F == [x \in {n} |-> {}]
           dir == Adding(F)
           new == {n}
           made == [name |-> n, cols |-> {}, col_has_index |-> {}, gone |-> FALSE]
           E(x) == [x EXCEPT !.col_has_index = flags]
<1>1. /\ Ready /\ Described(tf) /\ c \in d.cols \ d.col_has_index
      /\ disk' = [disk EXCEPT ![using] = dir]
      /\ table_map' = IF Known(n) THEN flagged ELSE Append(flagged, made)
      /\ torn' = (torn \/ d.gone) /\ dropped' = dropped \ {<<using, n>>} /\ indexed' = TRUE
      /\ using' = using /\ status' = status
  BY DEF CreateIndex
<1>2. /\ tf \in Names /\ tf[1] = t /\ n \in Names /\ n[1] = t /\ IsIndex(n) /\ ~IsIndex(tf) /\ tf # n
  BY NameFacts
<1>3. /\ MapOK(map, Dir, using, dropped, indexed)
      /\ d \in Descriptions /\ d.name = tf /\ Fits(d, Dir, using, dropped, indexed)
      /\ \A i \in DOMAIN map : map[i].name = tf => map[i] = d
      /\ \A i \in DOMAIN map : Known(map[i].name) \/ map[i].name = tf
  <2> HIDE DEF tf
  <2> QED BY <1>1, TableOK
<1>4. /\ DirOK(dir) /\ DOMAIN dir = DOMAIN Dir \cup {n}
      /\ \A x \in DOMAIN Dir : dir[x] = Dir[x]
  <2>1. {n} \in SUBSET Names /\ F \in [{n} -> SUBSET Cols] /\ \A x \in {n} : IsIndex(x) => F[x] = {}
    BY <1>2
  <2> HIDE DEF F, n
  <2> QED BY <1>1, <2>1, AddingFacts
<1>5. \A x : x \in DOMAIN dir => x \in DOMAIN Dir \/ x = n
  BY <1>4
<1>6. made \in Descriptions /\ made.name = n /\ made.cols = {} /\ ~made.gone
  BY <1>2 DEF Descriptions
<1> HIDE DEF tf, n, map, d, F, dir, made
<1>7. ~d.gone => Matches(d, Dir, using, dropped) /\ tf \in DOMAIN Dir
  BY <1>3 DEF Fits, Matches
<1>8. ~torn' => ~torn /\ Owned(dir)
  <2>1. ASSUME ~torn' PROVE ~torn /\ Owned(dir)
    <3>1. ~torn /\ tf \in DOMAIN Dir /\ Owned(Dir)
      BY <1>1, <1>7, <2>1, InUse
    <3>2. TableFile(t) = tf
      BY DEF tf
    <3>3. \A x \in DOMAIN dir : TableFile(x[1]) \in DOMAIN dir
      BY <1>2, <1>4, <3>1, <3>2 DEF Owned
    <3> QED BY <3>1, <3>3 DEF Owned
  <2> QED BY <2>1
<1>9. DiskOK(disk', indexed', torn') /\ disk'[using] = dir /\ dir # NoDir
  BY <1>1, <1>4, <1>8, InUse, DirectoryChanged
<1>10. /\ flags \in SUBSET Cols /\ c \in flags /\ \A x \in flags : x \in d.col_has_index \/ x = c
       /\ \A x \in d.col_has_index : x \in flags
       /\ E(d).name = tf /\ E(d).gone = d.gone /\ E(d).cols = d.cols /\ E(d).col_has_index = flags
  BY <1>3 DEF Descriptions
<1> HIDE DEF flags
<1>11. Fits(E(d), dir, using, dropped', indexed')
  <2> DEFINE e == E(d)
  <2>1. e.name = tf /\ e.gone = d.gone /\ e.cols = d.cols /\ e.col_has_index = flags
    BY <1>10
  <2> HIDE DEF E, e
  <2>2. ASSUME ~e.gone PROVE Matches(e, dir, using, dropped')
    <3>1. Matches(d, Dir, using, dropped)
      BY <1>7, <2>1, <2>2
    <3>2. ASSUME NEW x \in d.cols
          PROVE  /\ x \in flags => createIndexName(t, x) \in DOMAIN dir \/ EndsInAnother(t)
                 /\ createIndexName(t, x) \in DOMAIN dir =>
                      x \in flags \/ <<using, createIndexName(t, x)>> \in dropped'
      <4>1. /\ x \in d.col_has_index => createIndexName(t, x) \in DOMAIN Dir \/ EndsInAnother(t)
            /\ createIndexName(t, x) \in DOMAIN Dir =>
                 x \in d.col_has_index \/ <<using, createIndexName(t, x)>> \in dropped
        BY <1>2, <1>3, <3>1 DEF Matches
      <4>2. CASE x = c
        BY <1>4, <1>10, <4>2 DEF n
      <4>3. CASE x # c
        <5>1. createIndexName(t, x) # n
          BY <4>3, IndexNames DEF n
        <5>2. createIndexName(t, x) \in DOMAIN dir <=> createIndexName(t, x) \in DOMAIN Dir
          BY <1>4, <1>5, <5>1
        <5>3. <<using, createIndexName(t, x)>> \in dropped => <<using, createIndexName(t, x)>> \in dropped'
          BY <1>1, <5>1
        <5> QED BY <1>10, <4>1, <4>3, <5>2, <5>3
      <4> QED BY <4>2, <4>3
    <3>3. d.name \in DOMAIN dir /\ d.cols = dir[d.name]
      BY <1>4, <3>1 DEF Matches
    <3> QED BY <1>2, <1>3, <2>1, <3>2, <3>3 DEF Matches
  <2> QED BY <1>1, <2>2 DEF Fits, e
<1>12. ASSUME NEW i \in DOMAIN map
       PROVE  Fits(IF map[i].name = tf THEN E(map[i]) ELSE map[i], dir, using, dropped', indexed')
  <2>1. CASE map[i].name = tf
    <3>1. map[i] = d
      BY <1>3, <2>1
    <3> HIDE DEF E
    <3> QED BY <1>11, <2>1, <3>1
  <2>2. CASE map[i].name # tf
    <3> DEFINE x == map[i]
    <3>1. x \in Descriptions /\ Fits(x, Dir, using, dropped, indexed) /\ x.name \in Names /\ x.name # tf
      BY <1>3, <2>2, MapFacts
    <3> HIDE DEF x
    <3>2. ASSUME ~x.gone, NEW y \in x.cols, createIndexName(x.name[1], y) = n PROVE FALSE
      <4>1. x.name \in DOMAIN Dir /\ x.cols = Dir[x.name]
        BY <3>1, <3>2 DEF Fits, Matches
      <4>2. x.name[1] = t
        BY <3>2, IndexNames DEF n
      <4>3. IsIndex(x.name)
        BY <3>1, <4>2, NameFacts DEF tf
      <4> QED BY <1>1, <3>2, <4>1, <4>3, InUse DEF DirOK
    <3>3. ~x.gone => \A y \in x.cols : createIndexName(x.name[1], y) \notin new
      BY <3>2
    <3>4. DOMAIN dir \ DOMAIN Dir \subseteq new /\ \A y \in DOMAIN Dir : y \in DOMAIN dir /\ dir[y] = Dir[y]
      BY <1>4
    <3>5. \A y \in Names : <<using, y>> \in dropped => <<using, y>> \in dropped' \/ y \in new
      BY <1>1
    <3> HIDE DEF new
    <3>6. Fits(x, dir, using, dropped', indexed')
      BY <1>1, <3>1, <3>3, <3>4, <3>5, FitsMore
    <3> QED BY <2>2, <3>6 DEF x
  <2> QED BY <2>1, <2>2
<1>13. /\ MapOK(flagged, dir, using, dropped', indexed') /\ DOMAIN flagged = DOMAIN map
       /\ \A i \in DOMAIN map : flagged[i].name = map[i].name
  <2>1. flags \in SUBSET Cols
    BY <1>10
  <2>2. MapOK(map, Dir, using, dropped, indexed)
    BY <1>3
  <2>3. MapOK(flagged, dir, using, dropped', indexed')
    BY <1>12, <2>1, <2>2, FlaggingOK
  <2>4. DOMAIN flagged = DOMAIN map
    BY DEF Flagging
  <2>5. \A i \in DOMAIN map : flagged[i].name = map[i].name
    BY <1>12, <2>1, <2>2, FlaggingOK
  <2> QED BY <2>3, <2>4, <2>5
<1> HIDE DEF flagged
<1>14. MapOK(table_map', dir, using, dropped', indexed')
  <2>1. CASE Known(n)
    BY <1>1, <1>13, <2>1
  <2>2. CASE ~Known(n)
    <3>1. \A i \in DOMAIN flagged : flagged[i].name # made.name
      BY <1>2, <1>3, <1>6, <1>13, <2>2
    <3>2. Matches(made, dir, using, dropped')
      BY <1>2, <1>4, <1>6 DEF Matches, DirOK
    <3>3. Fits(made, dir, using, dropped', indexed')
      BY <1>1, <3>2 DEF Fits
    <3>4. MapOK(Append(flagged, made), dir, using, dropped', indexed')
      BY <1>6, <1>13, <3>1, <3>3, AppendOK
    <3> QED BY <1>1, <2>2, <3>4
  <2> QED BY <2>1, <2>2
<1>15. /\ using' \in Databases /\ status' = "alive" /\ indexed' \in BOOLEAN /\ torn' \in BOOLEAN
       /\ dropped' \subseteq Databases \X Names
  <2>1. d.gone \in BOOLEAN
    BY <1>3 DEF Descriptions
  <2> QED BY <1>1, <2>1, InUse, History
<1> QED BY <1>1, <1>9, <1>14, <1>15, UseStep

-----------------------------------------------------------------------------
(* The invariant *)

(* Nothing has been made yet.                                               *)
LEMMA InitOK ==
  ASSUME Init
  PROVE  IInv
<1>1. /\ disk = [db \in Databases |-> NoDir] /\ using = NoDb /\ table_map = <<>> /\ status = "alive"
      /\ indexed = FALSE /\ dropped = {} /\ torn = FALSE
  BY DEF Init
<1>2. DiskOK(disk, indexed, torn)
  BY <1>1 DEF DiskOK
<1> QED BY <1>1, <1>2 DEF IInv

(* Every statement keeps the invariant.                                     *)
LEMMA StepOK ==
  ASSUME IInv, [Next]_vars
  PROVE  IInv'
<1>1. ASSUME NEW db \in Databases, CreateDB(db) \/ ChangeDB(db) \/ DropDB(db)
      PROVE  IInv'
  BY <1>1, CreateDBStep, ChangeDBStep, DropDBStep
<1>2. ASSUME NEW t \in Tables, DropTable(t) \/ DropTableDies(t) \/ Describe(t) \/ NoTableDies(t)
      PROVE  IInv'
  BY <1>2, DropTableStep, DropTableDiesStep, DescribeStep, NoTableDiesStep
<1>3. ASSUME NEW t \in Tables, NEW files \in SUBSET Names, DropTableKilled(t, files)
      PROVE  IInv'
  BY <1>3, DropTableKilledStep
<1>4. ASSUME NEW t \in Tables, NEW s \in Schemas(using, t), CreateTable(t, s)
      PROVE  IInv'
  BY <1>4, CreateTableStep
<1>5. ASSUME NEW t \in Tables, NEW s \in Schemas(using, t), NEW keys \in SUBSET s.keys,
             CreateTableKilled(t, s, keys)
      PROVE  IInv'
  BY <1>5, CreateTableKilledStep
<1>6. ASSUME NEW t \in Tables, NEW c \in Cols, UseIndex(t, c) \/ CreateIndex(t, c) \/ DropIndex(t, c)
      PROVE  IInv'
  BY <1>6, UseIndexStep, CreateIndexStep, DropIndexStep
<1>7. CASE UNCHANGED vars
  BY <1>7 DEF vars, IInv, Dir
<1> QED BY <1>1, <1>2, <1>3, <1>4, <1>5, <1>6, <1>7, RestartStep DEF Next

(* What is in memory and what is on disk keep together as IInv says.        *)
THEOREM Invariance == Spec => []IInv
<1>1. Init => IInv
  BY InitOK
<1>2. IInv /\ [Next]_vars => IInv'
  BY StepOK
<1> QED BY <1>1, <1>2, PTL DEF Spec

(* Every description lists columns and indexes there can be, none is there  *)
(* twice, and the database in use exists.                                   *)
THEOREM TypeCorrectness == Spec => []TypeOK
<1>1. ASSUME IInv PROVE TypeOK
  <2>1. /\ DOMAIN disk = Databases
        /\ \A db \in Databases : disk[db] = NoDir \/ Directory(disk[db])
    BY <1>1, History, DirectoryFacts DEF Directory
  <2>2. using \in {db \in Databases : disk[db] # NoDir} \cup {NoDb}
    BY <1>1 DEF IInv
  <2>3. table_map \in Seq(Descriptions) /\ Unique(table_map)
    BY <1>1, EmptyMap DEF IInv, MapOK
  <2> QED BY <1>1, <2>1, <2>2, <2>3, History DEF TypeOK, IInv, Descriptions, Unique
<1> QED BY <1>1, Invariance, PTL

(* getTableDescription answers from memory: what it answers is still on     *)
(* disk whatever was made, dropped or interrupted before, but for the two   *)
(* exceptions MemoryMatchesDisk names.                                      *)
THEOREM MemoryIsCurrent == Spec => []MemoryMatchesDisk
<1>1. ASSUME IInv PROVE MemoryMatchesDisk
  <2>1. ASSUME NEW i \in DOMAIN table_map, ~table_map[i].gone
        PROVE  Matches(table_map[i], Dir, using, dropped)
    <3>1. using # NoDb
      BY <1>1, <2>1 DEF IInv
    <3>2. MapOK(table_map, Dir, using, dropped, indexed)
      BY <1>1, <3>1 DEF IInv
    <3> QED BY <2>1, <3>2, MapFacts DEF Fits
  <2> QED BY <2>1 DEF MemoryMatchesDisk, Matches, Exists
<1> QED BY <1>1, Invariance, PTL

(* erase(iter++) skips elements, but without indexes there is one element   *)
(* at most to erase.                                                        *)
THEOREM NoneGone == Spec => []CurrentWithoutIndexes
<1>1. ASSUME IInv PROVE CurrentWithoutIndexes
  <2>1. ASSUME NEW i \in DOMAIN table_map, ~indexed PROVE ~table_map[i].gone
    <3>1. using # NoDb
      BY <1>1, <2>1 DEF IInv
    <3>2. MapOK(table_map, Dir, using, dropped, indexed)
      BY <1>1, <3>1 DEF IInv
    <3> QED BY <2>1, <3>2, MapFacts DEF Fits
  <2> QED BY <2>1 DEF CurrentWithoutIndexes
<1> QED BY <1>1, Invariance, PTL

(* The find in dropTable takes every index of the table, and CREATE TABLE   *)
(* interrupted makes no index before the table's file.                      *)
THEOREM IndexesAreOwned == Spec => []IndexHasTable
<1>1. ASSUME IInv PROVE IndexHasTable
  BY <1>1 DEF IInv, DiskOK, Owned, IndexHasTable
<1> QED BY <1>1, Invariance, PTL
=============================================================================
