-------------------------------- MODULE Catalog --------------------------------
(***************************************************************************)
(* Databases, tables and indexes as files, and the descriptions kept in    *)
(* memory: TableManager of src/src/RecordManage/TableManager.cpp, the      *)
(* statements of Parser/AST/Nodes.cpp that create and drop, FileUtils.cpp. *)
(*                                                                         *)
(* A description holds its file open.  When the file is deleted and made   *)
(* again under the same name, a description left in memory goes on with    *)
(* the deleted one: it is gone.                                            *)
(*                                                                         *)
(* A statement that is answered with an error and changes nothing is not a *)
(* step.  Catalog files are written when they are made, so that nothing    *)
(* but the statement in progress is lost when the process stops.           *)
(***************************************************************************)
EXTENDS Integers, SequencesExt, Places

CONSTANTS Databases, NoDb, NoDir,
          Tables, Columns,  \* columns are numbered from 1
          EndsWith,         \* pairs <<t, u>>: the name of u is longer than t and ends in t
          Schemas(_, _)     \* what CREATE TABLE may say for a table of a database: a
                            \* set of [cols, keys]

ASSUME NamesAssumption ==
  /\ NoDb \notin Databases
  /\ EndsWith \subseteq Tables \X Tables
ASSUME SchemasAssumption ==
  /\ Columns \in Nat
  /\ \A db \in Databases, t \in Tables : \A s \in Schemas(db, t) :
       s.keys \subseteq s.cols /\ s.cols \subseteq 1 .. Columns

Cols == 1 .. Columns

(* Column 0 stands for the table itself; the others have the dot in their   *)
(* name that makes a file an index.                                         *)
Names == Tables \X (0 .. Columns)
Directories == UNION {[S -> SUBSET Cols] : S \in SUBSET Names}

ASSUME NoDirAssumption == NoDir \notin Directories

TableFile(t) == <<t, 0>>
createIndexName(t, c) == <<t, c>>
IsIndex(n) == n[2] # 0

VARIABLES disk,       \* [Databases -> NoDir, or a function from file names to columns]
          using,      \* dbname
          table_map,  \* the descriptions, in the order they were made
          status,     \* "alive", or how the process ended
          indexed,    \* history: there was an index file
          dropped,    \* history: indexes dropped and not made again
          torn        \* history: an index was made for a gone table, or DROP TABLE
                      \* was stopped half way

vars == <<disk, using, table_map, status, indexed, dropped, torn>>
history == <<indexed, dropped, torn>>

(* The process is gone and what it kept in memory with it.                  *)
Ends(how) == /\ status' = how
             /\ using' = NoDb
             /\ table_map' = <<>>

Ready == status = "alive" /\ using # NoDb
Dir == disk[using]
Exists(n) == n \in DOMAIN Dir

-----------------------------------------------------------------------------
(* getTableDescription *)

Description(n) ==
  [name |-> n, cols |-> Dir[n],
   col_has_index |-> {c \in Dir[n] : Exists(createIndexName(n[1], c))},
   gone |-> FALSE]

Known(n) == \E i \in DOMAIN table_map : table_map[i].name = n
Described(n) == Known(n) \/ Exists(n)

(* Mutant: the descriptions there are are not looked through.               *)
WithTwice(map, n) == Append(map, Description(n))

With(map, n) == IF Known(n) THEN map ELSE Append(map, Description(n))
DescriptionOf(n) == CHOOSE d \in ToSet(With(table_map, n)) : d.name = n

(* The description of n with other flags.                                   *)
Flagging(map, n, flags) ==
  [i \in DOMAIN map |-> IF map[i].name = n THEN [map[i] EXCEPT !.col_has_index = flags] ELSE map[i]]

-----------------------------------------------------------------------------
(* Databases *)

Init == /\ disk = [db \in Databases |-> NoDir]
        /\ using = NoDb
        /\ table_map = <<>>
        /\ status = "alive"
        /\ indexed = FALSE /\ dropped = {} /\ torn = FALSE

CreateDB(db) ==
  /\ status = "alive"
  /\ disk[db] = NoDir
  /\ disk' = [disk EXCEPT ![db] = <<>>]
  /\ UNCHANGED <<using, table_map, status, history>>

(* Mutant: the descriptions of the other database stay.                     *)
ChangeDBKeepsMap(db) ==
  /\ status = "alive"
  /\ disk[db] # NoDir /\ db # using
  /\ using' = db
  /\ UNCHANGED <<disk, table_map, status, history>>

ChangeDB(db) ==
  /\ status = "alive"
  /\ disk[db] # NoDir /\ db # using
  /\ using' = db
  /\ table_map' = <<>>
  /\ UNCHANGED <<disk, status, history>>

InOther(db) == {x \in dropped : x[1] # db}

DropDB(db) ==
  /\ status = "alive"
  /\ disk[db] # NoDir
  /\ disk' = [disk EXCEPT ![db] = NoDir]
  /\ using' = IF using = db THEN NoDb ELSE using
  /\ table_map' = IF using = db THEN <<>> ELSE table_map
  /\ dropped' = InOther(db)
  /\ UNCHANGED <<status, indexed, torn>>

(* The program ends, by itself or not, and is started again.                *)
Restart ==
  /\ Ends("alive")
  /\ UNCHANGED <<disk, history>>

-----------------------------------------------------------------------------
(* Tables *)

(* The directory with new files: setupBTree leaves an index that is there.  *)
Adding(new) ==
  [n \in DOMAIN Dir \cup DOMAIN new |-> IF n \in DOMAIN Dir THEN Dir[n] ELSE new[n]]

Made(t, cols, keys) ==
  Adding([n \in {TableFile(t)} \cup {createIndexName(t, c) : c \in keys} |->
           IF n = TableFile(t) THEN cols ELSE {}])

CreateTable(t, s) ==
  /\ Ready
  /\ ~Exists(TableFile(t))
  /\ disk' = [disk EXCEPT ![using] = Made(t, s.cols, s.keys)]
  /\ indexed' = (indexed \/ s.keys # {})
  /\ UNCHANGED <<using, table_map, status, dropped, torn>>

(* The process is stopped before the columns are in the file.               *)
CreateTableKilled(t, s, keys) ==
  /\ Ready
  /\ ~Exists(TableFile(t))
  /\ keys \subseteq s.keys
  /\ disk' = [disk EXCEPT ![using] = Made(t, {}, keys)]
  /\ Ends("killed")
  /\ indexed' = (indexed \/ keys # {})
  /\ UNCHANGED <<dropped, torn>>

(* f == name || f.find(name + ".") != npos                                  *)
Drops(t, n) == n = TableFile(t) \/ (IsIndex(n) /\ (n[1] = t \/ <<t, n[1]>> \in EndsWith))

(* Mutant: the descriptions are left in memory.                             *)
ErasedNothing(t) == {}

(* table_map.erase(iter++): what stood behind an erased element takes its   *)
(* place and is not looked at, so that of elements to drop that follow one  *)
(* another every second stays.  Erased is a set of places in table_map.     *)
Erased(t) ==
  LET drop == {i \in DOMAIN table_map : Drops(t, table_map[i].name)}
  IN  {i \in drop : \E k \in 1 .. i : k .. i \subseteq drop /\ k - 1 \notin drop /\ (i - k) % 2 = 0}

(* What is left in table_map.                                               *)
Remaining(t) == ElementsAt(table_map, DOMAIN table_map \ Erased(t))

(* The last element is erased: the iterator is one too far.                 *)
PastEnd(t) == Len(table_map) \in Erased(t)

(* Mutant: indexes are left to DROP INDEX.                                  *)
DroppedTableOnly(t) == DOMAIN Dir \cap {TableFile(t)}

DroppedFiles(t) == {n \in DOMAIN Dir : Drops(t, n)}

Without(files) == Restrict(Dir, DOMAIN Dir \ files)
Goners(map, files) ==
  [i \in DOMAIN map |-> IF map[i].name \in files THEN [map[i] EXCEPT !.gone = TRUE] ELSE map[i]]

(* Without a database there is no directory to list: listFiles throws, eval *)
(* answers that, and nothing has changed.                                   *)
DropTable(t) ==
  /\ Ready
  /\ ~PastEnd(t)
  /\ disk' = [disk EXCEPT ![using] = Without(DroppedFiles(t))]
  /\ table_map' = Goners(Remaining(t), DroppedFiles(t))
  /\ dropped' = dropped \ {<<using, n>> : n \in DroppedFiles(t)}
  /\ UNCHANGED <<using, status, indexed, torn>>

(* The process is stopped when only some files have been deleted.           *)
DropTableKilled(t, files) ==
  /\ Ready
  /\ ~PastEnd(t)
  /\ files \subseteq DroppedFiles(t)
  /\ disk' = [disk EXCEPT ![using] = Without(files)]
  /\ Ends("killed")
  /\ dropped' = dropped \ {<<using, n>> : n \in files}
  /\ torn' = TRUE
  /\ UNCHANGED indexed

(* The last element was erased: the iterator runs past the end.             *)
DropTableDies(t) ==
  /\ Ready
  /\ PastEnd(t)
  /\ Ends("pastEnd")
  /\ UNCHANGED <<disk, history>>

(* Any statement that needs the description of t, for instance DESCRIBE.    *)
Describe(t) ==
  /\ Ready
  /\ Described(TableFile(t))
  /\ table_map' = With(table_map, TableFile(t))
  /\ UNCHANGED <<disk, using, status, history>>

(* Any other statement about a table that does not exist: a null pointer.   *)
NoTableDies(t) ==
  /\ Ready
  /\ ~Described(TableFile(t))
  /\ Ends("noTable")
  /\ UNCHANGED <<disk, history>>

(* TheBTree of an index in use, for a row that is put, taken or looked for. *)
UseIndex(t, c) ==
  /\ Ready
  /\ Described(TableFile(t)) /\ c \in DescriptionOf(TableFile(t)).col_has_index
  /\ LET map == With(table_map, TableFile(t))
         n == createIndexName(t, c)
     IN  IF Described(n) THEN table_map' = With(map, n) /\ UNCHANGED <<using, status>>
                         ELSE Ends("noIndex")
  /\ UNCHANGED <<disk, history>>

-----------------------------------------------------------------------------
(* Indexes *)

(* The flag, the file unless there is one, and its description.             *)
CreateIndex(t, c) ==
  /\ Ready
  /\ Described(TableFile(t))
  /\ LET d == DescriptionOf(TableFile(t))
         n == createIndexName(t, c)
         flagged == Flagging(With(table_map, TableFile(t)), TableFile(t), d.col_has_index \cup {c})
     IN  /\ c \in d.cols \ d.col_has_index
         /\ disk' = [disk EXCEPT ![using] = Adding([x \in {n} |-> {}])]
         /\ table_map' =
              IF Known(n) THEN flagged
              ELSE Append(flagged, [name |-> n, cols |-> {}, col_has_index |-> {}, gone |-> FALSE])
         /\ torn' = (torn \/ d.gone)
         /\ dropped' = dropped \ {<<using, n>>}
  /\ indexed' = TRUE
  /\ UNCHANGED <<using, status>>

(* deleteFile is given the name in base_dir, where the index is not.        *)
DropIndex(t, c) ==
  /\ Ready
  /\ Described(TableFile(t))
  /\ LET d == DescriptionOf(TableFile(t))
     IN  /\ c \in d.col_has_index
         /\ table_map' = Flagging(With(table_map, TableFile(t)), TableFile(t), d.col_has_index \ {c})
  /\ dropped' = dropped \cup {<<using, createIndexName(t, c)>>}
  /\ UNCHANGED <<disk, using, status, indexed, torn>>

Next ==
  \/ Restart
  \/ \E db \in Databases : CreateDB(db) \/ ChangeDB(db) \/ DropDB(db)
  \/ \E t \in Tables :
       \/ DropTable(t) \/ DropTableDies(t)
       \/ \E files \in SUBSET Names : DropTableKilled(t, files)
       \/ Describe(t) \/ NoTableDies(t)
       \/ \E s \in Schemas(using, t) :
            \/ CreateTable(t, s)
            \/ \E keys \in SUBSET s.keys : CreateTableKilled(t, s, keys)
       \/ \E c \in Cols : UseIndex(t, c) \/ CreateIndex(t, c) \/ DropIndex(t, c)

Spec == Init /\ [][Next]_vars

-----------------------------------------------------------------------------
(* Properties *)

Directory(d) == DOMAIN d \subseteq Names /\ \A n \in DOMAIN d : d[n] \subseteq Cols

TypeOK ==
  /\ DOMAIN disk = Databases /\ \A db \in Databases : disk[db] = NoDir \/ Directory(disk[db])
  /\ using \in {db \in Databases : disk[db] # NoDir} \cup {NoDb}
  /\ table_map \in Seq([name : Names, cols : SUBSET Cols, col_has_index : SUBSET Cols, gone : BOOLEAN])
  /\ \A i, j \in DOMAIN table_map : table_map[i].name = table_map[j].name => i = j
  /\ status \in {"alive", "killed", "pastEnd", "noTable", "noIndex"}
  /\ indexed \in BOOLEAN /\ torn \in BOOLEAN
  /\ dropped \subseteq Databases \X Names

EndsInAnother(t) == \E u \in Tables : <<u, t>> \in EndsWith

(* A description that is not gone is that of a file of the database in use: *)
(* its columns are in the file, each index it believes in has a file unless *)
(* DROP TABLE of a name that ends this one took it, and each index file is  *)
(* believed in unless DROP INDEX failed to delete it.                       *)
MemoryMatchesDisk ==
  status = "alive" => \A i \in DOMAIN table_map :
    LET d == table_map[i]
        t == d.name[1]
    IN  ~d.gone =>
          /\ Exists(d.name) /\ d.cols = Dir[d.name]
          /\ \A c \in d.cols :
               /\ c \in d.col_has_index => Exists(createIndexName(t, c)) \/ EndsInAnother(t)
               /\ Exists(createIndexName(t, c)) =>
                    c \in d.col_has_index \/ <<using, createIndexName(t, c)>> \in dropped

(* As long as nothing has an index, dropTable leaves no description of a    *)
(* table that is gone although it skips an element after each it erases: a  *)
(* table made again under an old name is not mistaken for the old one.      *)
CurrentWithoutIndexes ==
  status = "alive" /\ ~indexed => \A i \in DOMAIN table_map : ~table_map[i].gone

(* No index outlives its table: setupBTree would take its entries over for  *)
(* the next table of that name.  Stopping DROP TABLE half way can leave one *)
(* and so can an index made through the description of a gone table.        *)
IndexHasTable ==
  ~torn => \A db \in Databases : disk[db] # NoDir =>
    \A n \in DOMAIN disk[db] : TableFile(n[1]) \in DOMAIN disk[db]
=============================================================================
