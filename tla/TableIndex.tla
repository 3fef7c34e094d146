------------------------------ MODULE TableIndex ------------------------------
(***************************************************************************)
(* A table and its indexes: TableDescription of src/src/RecordManage/      *)
(* TableManager.cpp, the lists of BTree/BTreePlus.h and the statements of  *)
(* Parser/AST/Nodes.cpp that change rows or indexes.                       *)
(*                                                                         *)
(* A row lies in a block of fixed length, put where RecordStore promises.  *)
(* Reading a location does not ask whether the block is in use, so a freed *)
(* block keeps a row: its own, with the first column overwritten by the    *)
(* free list.  It is of type int: of a varchar the free list would destroy *)
(* the length.  An index maps values to lists of locations; a value whose  *)
(* list becomes empty stays.                                               *)
(*                                                                         *)
(* INSERT and UPDATE put one row a step; what else a statement does is one *)
(* step, since the process has one thread and answers one statement at a   *)
(* time.                                                                   *)
(***************************************************************************)
EXTENDS Integers, SequencesExt, Places

CONSTANTS Columns,      \* the table has columns 1 .. Columns
          Vals, Null,   \* a column holds one of Vals or Null
          Junk,         \* what the free list leaves in the first column
          MaleFemale,   \* the two values a column named gender may have
          ParentIds,    \* the ids of the table that foreign keys refer to
          NoTable,
          Schemas,      \* [unique, notNull, gender, foreign], sets of columns, and
                        \* the bounds create and drop: columns whose index the
                        \* client may create, or drop once
          Clauses,      \* where clauses: a condition [op, val] for each column
          Settings,     \* what SET may say: pairs of a column and a value
          Lists,        \* the rows an INSERT may have
          MaxLoc,       \* bound: blocks of the table
          MaxList,      \* entries of a list that fit a page (681)
          RowPlace(_)   \* which of the free blocks a row is put into

Cols == 1 .. Columns
Locs == 1 .. MaxLoc
Rows == [Cols -> Vals \cup {Null}]

ASSUME ValsAssumption == Null \notin Vals /\ Junk \notin Vals \cup {Null} /\ MaleFemale \subseteq Vals
ASSUME PlaceAssumption == \A F \in SUBSET Locs : F # {} => RowPlace(F) \in F
ASSUME SchemasAssumption == \A s \in Schemas :
  /\ s.unique \cup s.gender \cup s.foreign \subseteq Cols /\ s.unique \subseteq s.notNull
  /\ 1 \notin s.gender   \* a column named gender is a varchar, the first one is not
ASSUME StatementsAssumption ==
  /\ Lists \subseteq Seq(Rows) \ {<<>>}
  /\ Settings \subseteq Cols \X (Vals \cup {Null})
ASSUME BoundAssumption == Columns \in Nat \ {0} /\ MaxLoc \in Nat /\ MaxList \in Nat

VARIABLES schema,   \* as declared by CREATE TABLE
          heap,     \* [Locs -> [used, row]]
          index,    \* [Cols -> a function from values to lists of locations]
          files,    \* columns with an index file
          flag,     \* col_has_index
          dropped,  \* history: columns whose index was dropped once
          parent,   \* the ids in the table foreign keys refer to, or NoTable
          stmt,     \* the statement being executed
          status    \* "alive", or how the process ended

vars == <<schema, heap, index, files, flag, dropped, parent, stmt, status>>

Idle == [kind |-> "idle", rows |-> <<>>, set |-> <<>>]
Rest(s) == IF Len(s.rows) = 1 THEN Idle ELSE [s EXCEPT !.rows = Tail(@)]

Live(h) == {l \in Locs : h[l].used}
Less(list, S) == ElementsAt(list, {i \in DOMAIN list : list[i] \notin S})

-----------------------------------------------------------------------------
(* BTreePlus: get, insert and remove of one index *)

Get(ix, v) == IF v \in DOMAIN ix THEN ix[v] ELSE <<>>

Listed(ix, v, l) ==
  [x \in DOMAIN ix \cup {v} |-> IF x = v THEN Append(Get(ix, v), l) ELSE ix[x]]

(* remove of a value that is not in the tree is KeyNotFound, see Missing.   *)
Unlisted(ix, v, S) == [ix EXCEPT ![v] = Less(@, S)]

-----------------------------------------------------------------------------
(* Conditions *)

Meets(row, w) ==
  \A c \in Cols : \/ w[c].op = "any"
                  \/ w[c].op = "=" /\ row[c] = w[c].val
                  \/ w[c].op = "<>" /\ row[c] \notin {w[c].val, Null}

(* Columns getNextAssignTableName may choose: the first condition counts,   *)
(* and conditions come in any order.                                        *)
ByIndex(w) == {c \in flag : w[c].op = "="}

(* selectUseIndex without a checker: where it finds its rows.               *)
SelectUseIndex(c, v) == {l \in ToSet(Get(index[c], v)) : heap[l].row[c] = v}

-----------------------------------------------------------------------------
(* insertInTable *)

CheckDies(row, c) == c \in schema.foreign /\ parent = NoTable

(* Mutant: the unique check lets one row with the value pass.               *)
CheckFailsAtTwo(row, c) ==
  \/ c \in schema.gender /\ row[c] \notin MaleFemale
  \/ c \in schema.foreign /\ row[c] # Null /\ row[c] \notin parent
  \/ c \in schema.notNull /\ row[c] = Null
  \/ c \in schema.unique \cap flag /\ row[c] # Null /\ Cardinality(SelectUseIndex(c, row[c])) > 1

CheckFails(row, c) ==
  \/ c \in schema.gender /\ row[c] \notin MaleFemale
  \/ c \in schema.foreign /\ row[c] # Null /\ row[c] \notin parent
  \/ c \in schema.notNull /\ row[c] = Null
  \/ c \in schema.unique \cap flag /\ row[c] # Null /\ SelectUseIndex(c, row[c]) # {}

(* Columns are checked in order; the first that does not pass decides.      *)
Verdict(row) ==
  LET first == {c \in Cols : CheckDies(row, c) \/ CheckFails(row, c)}
  IN  IF first = {} THEN "ok" ELSE IF CheckDies(row, Min(first)) THEN "dies" ELSE "refused"

(* Mutant: the loop over the columns stops after the first index.           *)
IndexedFirst(row, l) ==
  [c \in Cols |-> IF c \in flag /\ c = Min(flag) THEN Listed(index[c], row[c], l) ELSE index[c]]

Indexed(row, l) ==
  [c \in Cols |-> IF c \in flag THEN Listed(index[c], row[c], l) ELSE index[c]]

(* A list that outgrows a page is deleted and not put back: a null pointer. *)
ListFull(row) == \E c \in flag : Len(Get(index[c], row[c])) >= MaxList

Put(row) ==
  LET l == RowPlace(Locs \ Live(heap))
  IN  /\ heap' = [heap EXCEPT ![l] = [used |-> TRUE, row |-> row]]
      /\ IF ListFull(row) THEN status' = "listFull" /\ UNCHANGED index
                          ELSE index' = Indexed(row, l) /\ UNCHANGED status

-----------------------------------------------------------------------------
(* deleteAndCollectUseIndex and deleteAndCollectItems *)

(* delOneRecord writes the length and the next free block over the first    *)
(* column, an int, all but its null byte.                                   *)
FreedRow(row) == IF row[1] = Null THEN row ELSE [row EXCEPT ![1] = Junk]

(* Mutant: what the index lists for the value is freed unread.              *)
MetUnread(w, list) == ToSet(list)

(* The blocks of list are read, and freed when they meet w, one by one.     *)
Met(w, list) == {l \in ToSet(list) : Meets(heap[l].row, w)}

(* At place i of list a block is read that was freed at an earlier one.     *)
Again(w, list, i) == list[i] \in Met(w, list) /\ \E j \in 1 .. i - 1 : list[j] = list[i]

(* Mutant: rows are read after their blocks were freed.                     *)
ReadLate(w, list) == [i \in DOMAIN list |-> FreedRow(heap[list[i]].row)]

Read(w, list) ==
  [i \in DOMAIN list |-> IF Again(w, list, i) THEN FreedRow(heap[list[i]].row) ELSE heap[list[i]].row]

Freeing(w, list) ==
  LET taken == {i \in DOMAIN list : Meets(Read(w, list)[i], w)}
      freed == [l \in Met(w, list) |-> [used |-> FALSE, row |-> FreedRow(heap[l].row)]]
  IN  [heap |-> [l \in Locs |-> IF l \in DOMAIN freed THEN freed[l] ELSE heap[l]],
       rows |-> ElementsAt(Read(w, list), taken),
       locs |-> Met(w, list),
       twice |-> \E i \in taken : Again(w, list, i) \/ ~heap[list[i]].used]

(* Mutant: the checker is not asked, all the index lists for the value go.  *)
TakeUseIndexUnchecked(c, w) ==
  LET v == w[c].val
      t == Freeing([d \in Cols |-> IF d = c THEN w[c] ELSE [w[d] EXCEPT !.op = "any"]], Get(index[c], v))
  IN  IF v \in DOMAIN index[c]
        THEN [heap |-> t.heap, rows |-> t.rows,
              index |-> [index EXCEPT ![c] = Unlisted(@, v, t.locs)],
              end |-> IF t.twice THEN "doubleFree" ELSE "alive"]
        ELSE [heap |-> heap, rows |-> <<>>, index |-> index, end |-> "keyNotFound"]

(* Mutant: the entries of the freed rows stay in the index.                 *)
TakeUseIndexKeeps(c, w) ==
  LET t == Freeing(w, Get(index[c], w[c].val))
  IN  [heap |-> t.heap, rows |-> t.rows, index |-> index,
       end |-> IF t.twice THEN "doubleFree" ELSE "alive"]

(* Through the index of c: only this index is told.                         *)
TakeUseIndex(c, w) ==
  LET v == w[c].val
      t == Freeing(w, Get(index[c], v))
  IN  IF v \in DOMAIN index[c]
        THEN [heap |-> t.heap, rows |-> t.rows,
              index |-> [index EXCEPT ![c] = Unlisted(@, v, t.locs)],
              end |-> IF t.twice THEN "doubleFree" ELSE "alive"]
        ELSE [heap |-> heap, rows |-> <<>>, index |-> index, end |-> "keyNotFound"]

(* Mutant: the indexes are not told.                                        *)
TakeItemsSilent(w) ==
  LET t == Freeing(w, Ordered(Live(heap)))
  IN  [heap |-> t.heap, rows |-> t.rows, index |-> index, end |-> "alive"]

(* By a scan: each index is told of each row.                               *)
TakeItems(w) ==
  LET t == Freeing(w, Ordered(Live(heap)))
      at(v, c) == {l \in t.locs : heap[l].row[c] = v}
      missing == \E l \in t.locs, c \in flag : heap[l].row[c] \notin DOMAIN index[c]
  IN  [heap |-> t.heap, rows |-> t.rows,
       index |-> [c \in Cols |-> IF c \in flag
                    THEN [v \in DOMAIN index[c] |-> Less(index[c][v], at(v, c))]
                    ELSE index[c]],
       end |-> IF missing THEN "keyNotFound" ELSE "alive"]

Takes(w) ==
  IF ByIndex(w) = {} THEN {TakeItems(w)} ELSE {TakeUseIndex(c, w) : c \in ByIndex(w)}

-----------------------------------------------------------------------------
(* The statements *)

Ready == status = "alive" /\ stmt = Idle

Init == /\ schema \in Schemas
        /\ heap = [l \in Locs |-> [used |-> FALSE, row |-> [c \in Cols |-> Junk]]]
        /\ index = [c \in Cols |-> <<>>]
        /\ files = schema.unique /\ flag = schema.unique
        /\ dropped = {}
        /\ parent = {}
        /\ stmt = Idle
        /\ status = "alive"

(* INSERT: the rows are put one by one; the first that is refused ends it.  *)
BeginInsert(rows) ==
  /\ Ready
  /\ Len(rows) <= Cardinality(Locs \ Live(heap))
  /\ stmt' = [kind |-> "insert", rows |-> rows, set |-> <<>>]
  /\ UNCHANGED <<schema, heap, index, files, flag, dropped, parent, status>>

PutNew ==
  /\ status = "alive" /\ stmt.kind = "insert"
  /\ Verdict(Head(stmt.rows)) = "ok"
  /\ Put(Head(stmt.rows))
  /\ stmt' = Rest(stmt)
  /\ UNCHANGED <<schema, files, flag, dropped, parent>>

(* Mutant: a refused row is tried again.                                    *)
RefuseNewRetries ==
  /\ status = "alive" /\ stmt.kind = "insert"
  /\ Verdict(Head(stmt.rows)) = "refused"
  /\ UNCHANGED vars

RefuseNew ==
  /\ status = "alive" /\ stmt.kind = "insert"
  /\ Verdict(Head(stmt.rows)) = "refused"
  /\ stmt' = Idle
  /\ UNCHANGED <<schema, heap, index, files, flag, dropped, parent, status>>

Took(t) == /\ heap' = t.heap
           /\ index' = t.index
           /\ status' = t.end

Delete(w) ==
  /\ Ready
  /\ UNCHANGED <<schema, files, flag, dropped, parent, stmt>>
  /\ \E t \in Takes(w) : Took(t)

(* UPDATE: all rows are taken out, then put back one by one.                *)
BeginUpdate(w, set) ==
  /\ Ready
  /\ \E t \in Takes(w) :
       /\ Took(t)
       /\ stmt' = IF t.rows = <<>> \/ t.end # "alive" THEN Idle
                  ELSE [kind |-> "update", rows |-> t.rows, set |-> set]
  /\ UNCHANGED <<schema, files, flag, dropped, parent>>

(* SET c = NULL for a column of type int: BOOST_ASSERT(0) in toString.      *)
SetNull ==
  /\ Ready
  /\ status' = "setNull"
  /\ UNCHANGED <<schema, heap, index, files, flag, dropped, parent, stmt>>

(* What getChanger's function does to a row.                                *)
Changed(row, set) == [row EXCEPT ![set[1]] = set[2]]

PutChanged ==
  /\ status = "alive" /\ stmt.kind = "update"
  /\ Verdict(Changed(Head(stmt.rows), stmt.set)) = "ok"
  /\ Put(Changed(Head(stmt.rows), stmt.set))
  /\ stmt' = Rest(stmt)
  /\ UNCHANGED <<schema, files, flag, dropped, parent>>

(* Mutant: the backup is the row itself, already changed.                   *)
BackupAliased(verdict) ==
  /\ status = "alive" /\ stmt.kind = "update"
  /\ Verdict(Changed(Head(stmt.rows), stmt.set)) = "refused"
  /\ Verdict(Changed(Head(stmt.rows), stmt.set)) = verdict

(* The changed row is refused, and this is what becomes of the old one.     *)
Backup(verdict) ==
  /\ status = "alive" /\ stmt.kind = "update"
  /\ Verdict(Changed(Head(stmt.rows), stmt.set)) = "refused"
  /\ Verdict(Head(stmt.rows)) = verdict

(* The foreign key refers to a table that does not exist: a null pointer,   *)
(* in the checks of a row of INSERT, of a changed row or of the old one.    *)
CheckKills ==
  /\ status = "alive"
  /\ \/ stmt.kind = "insert" /\ Verdict(Head(stmt.rows)) = "dies"
     \/ stmt.kind = "update" /\ Verdict(Changed(Head(stmt.rows), stmt.set)) = "dies"
     \/ Backup("dies")
  /\ status' = "noParent"
  /\ UNCHANGED <<schema, heap, index, files, flag, dropped, parent, stmt>>

PutBackup ==
  /\ Backup("ok")
  /\ Put(Head(stmt.rows))
  /\ stmt' = Rest(stmt)
  /\ UNCHANGED <<schema, files, flag, dropped, parent>>

(* DoubleFault: this row and the rest are lost.                             *)
DoubleFault ==
  /\ Backup("refused")
  /\ stmt' = Idle
  /\ UNCHANGED <<schema, heap, index, files, flag, dropped, parent, status>>

(* CREATE INDEX fills the file with every row; setupBTree leaves a file     *)
(* that is already there as it is.                                          *)
CreateIndex(c) ==
  /\ Ready
  /\ c \in schema.create \ flag
  /\ LET with(v) == {l \in Live(heap) : heap[l].row[c] = v}
         ix == [v \in DOMAIN index[c] \cup {heap[l].row[c] : l \in Live(heap)} |->
                 Get(index[c], v) \o Ordered(with(v))]
     IN  /\ index' = [index EXCEPT ![c] = ix]
         /\ status' = IF \E v \in DOMAIN ix : Len(ix[v]) > MaxList THEN "listFull" ELSE "alive"
  /\ flag' = flag \cup {c}
  /\ files' = files \cup {c}
  /\ UNCHANGED <<schema, heap, dropped, parent, stmt>>

(* DROP INDEX deletes a file of the same name in the wrong directory.       *)
DropIndex(c) ==
  /\ Ready
  /\ c \in (schema.drop \cap flag) \ dropped
  /\ flag' = flag \ {c}
  /\ dropped' = dropped \cup {c}
  /\ UNCHANGED <<schema, heap, index, files, parent, stmt, status>>

(* The program ends and starts again, or uses another database in between:  *)
(* getTableDescription takes every index file for an index.                 *)
Reopen ==
  /\ Ready
  /\ flag' = files
  /\ UNCHANGED <<schema, heap, index, files, dropped, parent, stmt, status>>

(* Statements on the table that foreign keys refer to.                      *)
ParentChanges ==
  /\ Ready
  /\ schema.foreign # {} /\ parent # NoTable
  /\ parent' \in ((SUBSET ParentIds) \cup {NoTable}) \ {parent}
  /\ UNCHANGED <<schema, heap, index, files, flag, dropped, stmt, status>>

(* What the process does by itself once a statement has begun.              *)
Step == PutNew \/ RefuseNew \/ CheckKills \/ PutChanged \/ PutBackup \/ DoubleFault

Next ==
  \/ Step
  \/ SetNull \/ Reopen \/ ParentChanges
  \/ \E rows \in Lists : BeginInsert(rows)
  \/ \E w \in Clauses : \/ Delete(w)
                        \/ \E set \in Settings : BeginUpdate(w, set)
  \/ \E c \in Cols : CreateIndex(c) \/ DropIndex(c)

(* The client need not go on; the process goes on with what it has begun.   *)
Spec == Init /\ [][Next]_vars /\ WF_vars(Step)

-----------------------------------------------------------------------------
(* Properties *)

Blocks == [used : BOOLEAN, row : [Cols -> Vals \cup {Null, Junk}]]

Statements == [kind : {"insert", "update"}, rows : Seq(Rows), set : Settings \cup {<<>>}]

TypeOK ==
  /\ schema \in Schemas
  /\ heap \in [Locs -> Blocks]
  /\ \A l \in Live(heap) : heap[l].row \in Rows
  /\ DOMAIN index = Cols
  /\ \A c \in Cols : /\ DOMAIN index[c] \subseteq Vals \cup {Null}
                     /\ \A v \in DOMAIN index[c] : index[c][v] \in Seq(Locs)
  /\ flag \subseteq files /\ files \subseteq Cols /\ dropped \subseteq Cols
  /\ parent = NoTable \/ parent \subseteq ParentIds
  /\ stmt = Idle \/ (stmt \in Statements /\ stmt.rows # <<>>)
  /\ status \in {"alive", "noParent", "setNull", "listFull", "keyNotFound", "doubleFree"}

(* No index in use misses a row, whatever statements came before, unless it *)
(* was dropped once: a row that selectUseIndex or a unique check does not   *)
(* see would be lost to queries.                                            *)
IndexComplete ==
  status = "alive" => \A c \in flag \ dropped, l \in Live(heap) :
    l \in ToSet(Get(index[c], heap[l].row[c]))

(* A table that never had a second index, and whose index was never         *)
(* dropped, has each row once in it and nothing else: no stale locations.   *)
OneIndexExact ==
  status = "alive" /\ Cardinality(files) = 1 /\ dropped = {} =>
    \A c \in files, v \in Vals \cup {Null} :
      /\ IsInjective(Get(index[c], v))
      /\ ToSet(Get(index[c], v)) = {l \in Live(heap) : heap[l].row[c] = v}

(* No two rows have the same value in a unique column whose index was never *)
(* dropped, although the check relies on an index with stale entries.  A    *)
(* column whose index is gone is no longer checked, so that two rows may    *)
(* have the same value in it, also once the index is in use again.          *)
UniqueUnlessDropped ==
  status = "alive" => \A c \in schema.unique \ dropped, k, l \in Live(heap) :
    k # l => heap[k].row[c] # heap[l].row[c]

(* A block is freed twice, and the free list of its page with it destroyed, *)
(* only if another index had stale entries or an index was made again.      *)
DoubleFreeOnlyIfStale ==
  status = "doubleFree" => Cardinality(files) > 1 \/ dropped # {}

(* An UPDATE loses rows only if it sets a unique column, or stale entries   *)
(* make the check refuse, or the row's parent is gone.                      *)
FaultExplained ==
  [][stmt.kind = "update" /\ stmt' = Idle /\ heap' = heap =>
       \/ stmt.set[1] \in schema.unique
       \/ Cardinality(files) > 1 \/ dropped # {}
       \/ \E c \in schema.foreign : Head(stmt.rows)[c] \notin parent \cup {Null}]_vars

(* Every statement that has begun is answered or ends the process: UPDATE   *)
(* does not meet the rows it puts back.                                     *)
StatementEnds == stmt # Idle ~> (stmt = Idle \/ status # "alive")

Table == [r \in Rows |-> IF status = "alive" THEN Cardinality({l \in Live(heap) : heap[l].row = r}) ELSE 0]

Store == INSTANCE TableStore WITH
  table <- Table, stmt <- IF status = "alive" THEN stmt ELSE Idle,
  exact <- (dropped = {}), alive <- (status = "alive")

(* The rows of a table come and go as a bag's do, whatever indexes are      *)
(* used: a statement that takes rows out takes those of a clause, all of    *)
(* them unless an index was dropped, an UPDATE puts back as many as it took *)
(* or fails, nothing else changes a row.  The process may end at any step,  *)
(* for the reasons that status has.                                         *)
ImplementsTableStore == Store!Spec

(* The clause is that of the statement: a DELETE or UPDATE by an index that *)
(* serves one condition still takes out only rows that meet all of them,    *)
(* and all such rows as long as no index was dropped.  (An UPDATE that      *)
(* takes out no row is the same step as such a DELETE.)                     *)
TakesByClause ==
  [][\A w \in Clauses :
       /\ Delete(w) => status' # "alive" \/ Store!Delete(w)
       /\ \A set \in Settings :
            stmt'.set = set /\ BeginUpdate(w, set)
              => status' # "alive" \/ Store!BeginUpdate(w, set)]_vars

(* README.md, line 109: "using index as possible" is an optimization: the   *)
(* rows selected are those a scan selects.                                  *)
IndexSelectsAsScan ==
  Ready => \A c \in flag, v \in Vals :
    SelectUseIndex(c, v) = {l \in Live(heap) : heap[l].row[c] = v}
=============================================================================
