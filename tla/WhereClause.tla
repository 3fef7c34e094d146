------------------------------ MODULE WhereClause ------------------------------
(***************************************************************************)
(* How SELECT is answered: WhereClause, SelectCols and the SELECT part of  *)
(* Statement::exec of src/src/Parser/AST/Nodes.cpp and Nodes.h.            *)
(*                                                                         *)
(* The tables of FROM are taken one after the other.  Each call of dfs     *)
(* chooses one, through an index if a condition allows it, goes through    *)
(* its rows that pass the conditions on it alone, and calls itself for     *)
(* each row, with the row put into the conditions that remain.  A          *)
(* behaviour is one query: the calls of dfs, a row a step, and the answer. *)
(* The properties compare the answer with what the clause means.           *)
(*                                                                         *)
(* Columns are of type int, are numbered and exist.  LIKE and varchar      *)
(* columns take the same way through the code.  A table's order of rows    *)
(* does not depend on how they are found.                                  *)
(***************************************************************************)
EXTENDS Integers, SequencesExt, Places

CONSTANTS Null,
          NoName,    \* the empty string: no table, or a name without a table
          ColsOf,    \* [tables -> how many columns a table has]
          EndsWith,  \* pairs <<t, u>>: the name of u is longer than t and ends in t
          Queries    \* [from, cols, where, data, indexed], see below

Tables == DOMAIN ColsOf
Ints == Int \cup {Null}
Comparisons == {"=", "<", ">", "<>", "<=", ">="}

(* WhereClause::becomeCompare, becomeIsNull, becomeIsNotNull.               *)
Const(v) == [type |-> IF v = Null THEN "NULL" ELSE "int", table |-> NoName, col |-> 0, val |-> v]
Column(t, c) == [type |-> "col", table |-> t, col |-> c, val |-> Null]

(* ColList::split                                                           *)
TableOf(name, default) == IF name = NoName THEN default ELSE name

(* from is a sequence of tables, cols a sequence of columns [table, col] or *)
(* <<>> for *, where a sequence of conditions [table, col, op, rhs], and    *)
(* rhs a Const or a Column; data are the rows of each table and indexed its *)
(* columns with an index.                                                   *)
Expressions == [type : {"int", "NULL", "col"}, table : Tables \cup {NoName}, col : Nat, val : Ints]
Conditions == [table : Tables \cup {NoName}, col : Nat,
               op : Comparisons \cup {"isnull", "isnotnull"}, rhs : Expressions]

(* A name without a table is used only if there is but one: for several the *)
(* code takes it for a column of each, whether they have it or not.         *)
Home(q, name) == TableOf(name, Head(q.from))
Exists(q, t, c) ==
  /\ Home(q, t) \in ToSet(q.from) /\ c \in 1 .. ColsOf[Home(q, t)]
  /\ Len(q.from) > 1 => t # NoName

Known(q, c) ==
  /\ c \in Conditions /\ Exists(q, c.table, c.col)
  /\ \/ c.rhs = Const(c.rhs.val)
     \/ c.rhs = Column(c.rhs.table, c.rhs.col) /\ Exists(q, c.rhs.table, c.rhs.col)
  /\ c.op \notin Comparisons => c.rhs = Const(Null)

(* The columns selected of t.  With more of them than t has (some of them   *)
(* twice) the selector reads past the end of the row.                       *)
Chosen(q, t) == {n \in DOMAIN q.cols : TableOf(q.cols[n].table, t) = t}

ASSUME NamesAssumption ==
  /\ ColsOf \in [Tables -> Nat]
  /\ EndsWith \subseteq Tables \X Tables
  /\ NoName \notin Tables /\ Null \notin Int
ASSUME QueriesAssumption == \A q \in Queries :
  /\ q.from \in Seq(Tables) /\ q.from # <<>> /\ IsInjective(q.from)
  /\ q.where \in Seq(Conditions) /\ \A i \in DOMAIN q.where : Known(q, q.where[i])
  /\ q.cols \in Seq([table : Tables \cup {NoName}, col : Nat])
  /\ \A i \in DOMAIN q.cols : Exists(q, q.cols[i].table, q.cols[i].col)
  /\ \A t \in ToSet(q.from) : Cardinality(Chosen(q, t)) <= ColsOf[t]
  /\ \A t \in Tables : /\ q.data[t] \in Seq([1 .. ColsOf[t] -> Ints])
                       /\ q.indexed[t] \subseteq 1 .. ColsOf[t]

VARIABLES query,
          stack,           \* the calls of dfs, the innermost last
          ans,             \* the rows found
          assigned_table,  \* [n] is the table first taken when n were left
          answer           \* how the statement ended, and the labels of its columns

vars == <<query, stack, ans, assigned_table, answer>>

Compares(op, a, b) ==
  CASE op = "="  -> a = b
    [] op = "<"  -> a < b
    [] op = ">"  -> a > b
    [] op = "<>" -> a # b
    [] op = "<=" -> a <= b
    [] op = ">=" -> a >= b

-----------------------------------------------------------------------------
(* getChecker *)

(* Mutant: a column of another table on the right is not passed over.       *)
AppliesAnyRight(t, c) == c.table \in {NoName, t} \/ <<t, c.table>> \in EndsWith

(* find(table_name + ".") also finds the end of a longer name.              *)
Applies(t, c) ==
  /\ c.table \in {NoName, t} \/ <<t, c.table>> \in EndsWith
  /\ c.rhs.type = "col" => c.rhs.table \in {NoName, t}

NoThisColumn(t, where) ==
  \E c \in ToSet(where) : /\ Applies(t, c)
                          /\ \/ c.col > ColsOf[t]
                             \/ c.rhs.type = "col" /\ c.rhs.col > ColsOf[t]

(* A comparison with NULL is not looked at.                                 *)
Passes(item, c) ==
  LET a == item[c.col]
      b == IF c.rhs.type = "col" THEN item[c.rhs.col] ELSE c.rhs.val
  IN  \/ c.op = "isnull" /\ a = Null
      \/ c.op = "isnotnull" /\ a # Null
      \/ /\ c.op \in Comparisons
         /\ c.rhs.type = "NULL" \/ (a # Null /\ b # Null /\ Compares(c.op, a, b))

(* One condition is kept for each column, the last.                         *)
Checker(t, where, item) ==
  \A col \in 1 .. ColsOf[t] :
    LET on == {i \in DOMAIN where : Applies(t, where[i]) /\ where[i].col = col}
    IN  on # {} => Passes(item, where[Max(on)])

-----------------------------------------------------------------------------
(* getNextAssignTableName: the next table and, if it is to be found by an  *)
(* index, the column (0 if not) and the value.                              *)

(* Mutants: the operator is not looked at; NULL is looked up in no index.   *)
IndexableAnyOp(q, where, t, default) ==
  {i \in DOMAIN where : /\ where[i].rhs.type # "col"
                        /\ TableOf(where[i].table, default) = t
                        /\ where[i].col \in q.indexed[t]}

IndexableNotNull(q, where, t, default) ==
  {i \in DOMAIN where : /\ where[i].op = "=" /\ where[i].rhs.type = "int"
                        /\ TableOf(where[i].table, default) = t
                        /\ where[i].col \in q.indexed[t]}

(* Conditions that give a value to an indexed column of t.                  *)
Indexable(q, where, t, default) ==
  {i \in DOMAIN where : /\ where[i].op = "=" /\ where[i].rhs.type # "col"
                        /\ TableOf(where[i].table, default) = t
                        /\ where[i].col \in q.indexed[t]}

(* Some equation has a column of t on one side and an indexed column of     *)
(* another table on the other: with t taken first, that index can be used.  *)
Enables(q, where, t, default) ==
  \E c \in ToSet(where) :
    LET l == TableOf(c.table, default)
        r == TableOf(c.rhs.table, default)
    IN  /\ c.op = "=" /\ c.rhs.type = "col"
        /\ \/ l = t /\ r # t /\ c.rhs.col \in q.indexed[r]
           \/ r = t /\ l # t /\ c.col \in q.indexed[l]

NextTable(q, where, tables) ==
  LET default == Head(tables)
      byIndex == {n \in DOMAIN tables : Indexable(q, where, tables[n], default) # {}}
      enabling == {n \in DOMAIN tables : Enables(q, where, tables[n], default)}
  IN  IF byIndex # {}
        THEN LET t == tables[Min(byIndex)]
                 c == where[Min(Indexable(q, where, t, default))]
             IN  [table |-> t, col |-> c.col, val |-> c.rhs.val]
        ELSE [table |-> IF enabling # {} THEN tables[Max(enabling)] ELSE default,
              col |-> 0, val |-> Null]

(* selectUseIndex and selectUseChecker, as positions in the table.  The     *)
(* text looked up for NULL is that of no int.                               *)
Selected(q, where, next) ==
  LET rows == q.data[next.table]
      Found(i) == /\ next.col # 0 => next.val # Null /\ rows[i][next.col] = next.val
                  /\ Checker(next.table, where, rows[i])
  IN  Ordered({i \in DOMAIN rows : Found(i)})

-----------------------------------------------------------------------------
(* assign *)

(* Mutant: the operator is kept when the sides are exchanged.               *)
FlippedNot(op) == op

Flipped(op) == CASE op = "<"  -> ">"
                 [] op = ">"  -> "<"
                 [] op = "<=" -> ">="
                 [] op = ">=" -> "<="
                 [] OTHER     -> op

(* A condition about t alone is settled when t has its row.                 *)
Settled(c, t) == TableOf(c.table, t) = t /\ (c.rhs.type = "col" => TableOf(c.rhs.table, t) = t)

(* One that joins t with another table becomes a condition on that table.   *)
Turned(c, t, item) ==
  IF TableOf(c.table, t) = t
    THEN [table |-> c.rhs.table, col |-> c.rhs.col, op |-> Flipped(c.op), rhs |-> Const(item[c.col])]
  ELSE IF c.rhs.type = "col" /\ TableOf(c.rhs.table, t) = t
    THEN [c EXCEPT !.rhs = Const(item[c.rhs.col])]
  ELSE c

Assign(where, t, item) ==
  LET left == {i \in DOMAIN where : ~Settled(where[i], t)}
      turned == [i \in DOMAIN where |-> IF i \in left THEN Turned(where[i], t, item) ELSE where[i]]
  IN  ElementsAt(turned, left)

-----------------------------------------------------------------------------
(* getSelector: as many columns as are selected of t, counted from the     *)
(* first.  A name without a table counts for every table.                   *)
Values(q, t, item) ==
  IF q.cols = <<>> THEN item
  ELSE SubSeq(item, 1, Cardinality(Chosen(q, t)))

(* The row put together so far: its values and, for the properties, of      *)
(* which row of each table it is.                                           *)
Merged(q, row, t, i) ==
  [of |-> [u \in DOMAIN row.of \cup {t} |-> IF u = t THEN i ELSE row.of[u]],
   values |-> row.values \o Values(q, t, q.data[t][i])]

(* The labels of table t.                                                   *)
LabelsOf(q, t) ==
  IF q.cols = <<>>
    THEN [c \in 1 .. ColsOf[t] |-> [table |-> t, col |-> c]]
    ELSE ElementsAt(q.cols, {n \in DOMAIN q.cols : Home(q, q.cols[n].table) = t})

(* Mutant: the tables are labelled in the order of the numbers.             *)
LabelsAscending(q, tables) == FlattenSeq([n \in DOMAIN tables |-> LabelsOf(q, tables[n])])

(* The labels of the columns of the answer, the table taken first in front. *)
Labels(q, tables) ==
  FlattenSeq([n \in DOMAIN tables |-> LabelsOf(q, tables[Len(tables) + 1 - n])])

(* SELECT * asks for the description of each table taken, and a table never *)
(* reached is none: a null pointer.                                         *)
Unlabelled(q, tables) == q.cols = <<>> /\ NoName \in ToSet(tables)

-----------------------------------------------------------------------------
(* dfs *)

None == [end |-> "asked", cols |-> <<>>]

Init == /\ query \in Queries
        /\ stack = <<>> /\ ans = <<>>
        /\ assigned_table = [n \in DOMAIN query.from |-> NoName]
        /\ answer = None

(* The beginning of a call of dfs, up to its loop.  below are the calls it  *)
(* is nested in; row is put together of the tables taken in them.           *)
Call(where, tables, row, below) ==
  LET next == NextTable(query, where, tables)
      n == Len(tables)
  IN  /\ assigned_table' = [assigned_table EXCEPT ![n] = IF @ = NoName THEN next.table ELSE @]
      /\ IF NoThisColumn(next.table, where)
           THEN /\ answer' = [None EXCEPT !.end = "noThisColumn"]
                /\ stack' = <<>>
           ELSE /\ stack' = Append(below, [where |-> where, tables |-> tables, row |-> row,
                                           table |-> next.table, left |-> Selected(query, where, next)])
                /\ UNCHANGED answer

Begin ==
  /\ stack = <<>> /\ answer = None
  /\ Call(query.where, query.from, [of |-> <<>>, values |-> <<>>], <<>>)
  /\ UNCHANGED <<query, ans>>

Top == Last(stack)
Rest(call) == ElementsAt(call.tables, {n \in DOMAIN call.tables : call.tables[n] # call.table})
Visited == [stack EXCEPT ![Len(stack)].left = Tail(@)]

(* The next row of a table, when there are others still to be taken.        *)
VisitRow ==
  /\ stack # <<>> /\ Top.left # <<>> /\ Len(Top.tables) > 1
  /\ LET i == Head(Top.left)
     IN  Call(Assign(Top.where, Top.table, query.data[Top.table][i]), Rest(Top),
              Merged(query, Top.row, Top.table, i), Visited)
  /\ UNCHANGED <<query, ans>>

(* The next row of the last table.                                          *)
AddRow ==
  /\ stack # <<>> /\ Top.left # <<>> /\ Len(Top.tables) = 1
  /\ ans' = Append(ans, Merged(query, Top.row, Top.table, Head(Top.left)))
  /\ stack' = Visited
  /\ UNCHANGED <<query, assigned_table, answer>>

Return ==
  /\ Len(stack) > 1 /\ Top.left = <<>>
  /\ stack' = Front(stack)
  /\ UNCHANGED <<query, ans, assigned_table, answer>>

(* The outermost call is done: the rest of exec.                            *)
Finish ==
  /\ Len(stack) = 1 /\ Top.left = <<>>
  /\ stack' = <<>>
  /\ answer' = IF Unlabelled(query, assigned_table) THEN [None EXCEPT !.end = "died"]
               ELSE [end |-> "answered", cols |-> Labels(query, assigned_table)]
  /\ UNCHANGED <<query, ans, assigned_table>>

Next == Begin \/ VisitRow \/ AddRow \/ Return \/ Finish

Spec == Init /\ [][Next]_vars

-----------------------------------------------------------------------------
(* What a query means *)

(* Rows of FROM, one of each table, as a function from tables to positions. *)
Combinations(q) ==
  {f \in [ToSet(q.from) -> UNION {DOMAIN q.data[t] : t \in ToSet(q.from)}] :
     \A t \in ToSet(q.from) : f[t] \in DOMAIN q.data[t]}

(* In SQL a comparison with NULL is not true.                               *)
True(q, f, c) ==
  LET Value(t, col) == q.data[Home(q, t)][f[Home(q, t)]][col]
      a == Value(c.table, c.col)
      b == IF c.rhs.type = "col" THEN Value(c.rhs.table, c.rhs.col) ELSE c.rhs.val
  IN  \/ c.op = "isnull" /\ a = Null
      \/ c.op = "isnotnull" /\ a # Null
      \/ c.op \in Comparisons /\ a # Null /\ b # Null /\ Compares(c.op, a, b)

Meaning(q) == {f \in Combinations(q) : \A c \in ToSet(q.where) : True(q, f, c)}

(* The rows of the answer in the same form.                                 *)
Found == {r.of : r \in ToSet(ans)}

-----------------------------------------------------------------------------
(* Properties *)

(* No table of FROM has a name that ends a name in the clause.              *)
Named(q) ==
  \A t \in ToSet(q.from), c \in ToSet(q.where) :
    <<t, c.table>> \notin EndsWith /\ <<t, c.rhs.table>> \notin EndsWith

IsJoin(q, c) == c.rhs.type = "col" /\ Home(q, c.rhs.table) # Home(q, c.table)

(* Columns that c may come to be a condition on.                            *)
Touched(q, c) ==
  {<<Home(q, c.table), c.col>>} \cup IF IsJoin(q, c) THEN {<<c.rhs.table, c.rhs.col>>} ELSE {}

(* Clauses the code understands: one condition for each column, no          *)
(* comparison with NULL, and no NULL in a column that joins.                *)
Simple(q, where) ==
  /\ \A i, j \in DOMAIN where :
       i # j => Touched(q, where[i]) \cap Touched(q, where[j]) = {}
  /\ \A i \in DOMAIN where : where[i].rhs.type = "NULL" => where[i].op \in {"isnull", "isnotnull"}
  /\ \A i \in DOMAIN where : IsJoin(q, where[i]) =>
       \A p \in Touched(q, where[i]) : \A n \in DOMAIN q.data[p[1]] : q.data[p[1]][n][p[2]] # Null

Plain(q) == Named(q) /\ Simple(q, q.where)

(* For such a clause SELECT finds exactly the rows the clause means, each   *)
(* once, whatever order dfs takes the tables in, whichever index is used    *)
(* and however conditions are turned around by assign.                      *)
SelectsMeaning ==
  answer.end = "answered" /\ Plain(query) =>
    Found = Meaning(query) /\ Len(ans) = Cardinality(Meaning(query))

(* For other clauses too SELECT misses no row, unless a name of FROM ends   *)
(* one in the clause: what getChecker forgets only lets more rows pass.     *)
NeverMisses == answer.end = "answered" /\ Named(query) => Meaning(query) \subseteq Found

(* dfs chooses the next table anew for each row, but takes them in one      *)
(* order for all rows, the one that assigned_table has.                     *)
OneOrder ==
  \A k \in DOMAIN stack : assigned_table[Len(stack[k].tables)] = stack[k].table

(* The place of a label among those of its table.                           *)
PlaceOf(q, cols, n) ==
  Cardinality({m \in 1 .. n : Home(q, cols[m].table) = Home(q, cols[n].table)})

(* SELECT *, or a projection of the first columns of its tables, in order.  *)
FirstColumns(q) ==
  \A t \in ToSet(q.from) : \A i \in DOMAIN LabelsOf(q, t) : LabelsOf(q, t)[i].col = i

(* The labels exec makes from assigned_table, which each level of dfs       *)
(* writes once, stand over values of their own tables, in every row: the    *)
(* k-th label of a table over its k-th column.  That is the column the      *)
(* label names only under FirstColumns, see LabelsRight.                    *)
LabelsFit ==
  answer.end = "answered" =>
    \A r \in ToSet(ans) :
      /\ Len(r.values) = Len(answer.cols)
      /\ \A n \in DOMAIN answer.cols :
           LET t == Home(query, answer.cols[n].table)
               k == PlaceOf(query, answer.cols, n)
           IN  /\ r.values[n] = query.data[t][r.of[t]][k]
               /\ FirstColumns(query) => answer.cols[n].col = k

(* README.md, line 115: an interface for executing SQL statements.  In the  *)
(* answer to a SELECT every value stands under the name of its column.      *)
LabelsRight ==
  answer.end = "answered" =>
    \A r \in ToSet(ans), n \in DOMAIN answer.cols :
      LET t == Home(query, answer.cols[n].table)
      IN  r.values[n] = query.data[t][r.of[t]][answer.cols[n].col]

(* SELECT * can end the process, but only when there is nothing to answer;  *)
(* and an unknown column is only reported if a name ends in another.        *)
EndsOnlyIfEmpty ==
  /\ answer.end = "died" /\ Named(query) => Meaning(query) = {} /\ Len(query.from) > 1
  /\ answer.end = "noThisColumn" => ~Named(query)
=============================================================================
