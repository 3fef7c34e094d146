--------------------------- MODULE WhereClauseProofs ---------------------------
(***************************************************************************)
(* Theorems about WhereClause: a SELECT answers what its clause means, for *)
(* all queries.  Everything that a call of dfs works on is a function of   *)
(* the query and of the rows chosen in the calls around it.                *)
(***************************************************************************)
EXTENDS WhereClause, DataLemmas

-----------------------------------------------------------------------------
(* What each call of dfs is about: a function of the rows chosen before it  *)

(* Choices of a row for each table of D, as positions.                      *)
Partial(q, D) == {of \in [D -> Nat] : \A t \in D : of[t] \in DOMAIN q.data[t]}

(* A condition speaks of tables of D alone.                                 *)
Done(q, c, D) ==
  Home(q, c.table) \in D /\ (c.rhs.type = "col" => Home(q, c.rhs.table) \in D)

(* What assign has made of a condition with the rows of.                    *)
Bound(q, c, of) ==
  LET t == Home(q, c.table)
      u == Home(q, c.rhs.table)
  IN  IF t \in DOMAIN of
        THEN [table |-> c.rhs.table, col |-> c.rhs.col, op |-> Flipped(c.op),
              rhs |-> Const(q.data[t][of[t]][c.col])]
      ELSE IF c.rhs.type = "col" /\ u \in DOMAIN of
        THEN [c EXCEPT !.rhs = Const(q.data[u][of[u]][c.rhs.col])]
      ELSE c

OpenAt(q, D) == {i \in DOMAIN q.where : ~Done(q, q.where[i], D)}
Conds(q, of) ==
  ElementsAt([i \in DOMAIN q.where |-> Bound(q, q.where[i], of)], OpenAt(q, DOMAIN of))
TablesLeft(q, D) == ElementsAt(q.from, {n \in DOMAIN q.from : q.from[n] \notin D})

Agrees(f, of) == \A t \in DOMAIN of : f[t] = of[t]

(* The rows f[t] are among those that a call has still to take.             *)
Pending(f, call) == Agrees(f, call.row.of) /\ f[call.table] \in ToSet(call.left)

(* The labels of the first k of the tables taken, which fill at from behind. *)
LabelsTo(q, at, k) == FlattenSeq([n \in 1 .. k |-> LabelsOf(q, at[Len(at) + 1 - n])])

(* The values of a row are those of the labels' tables, from the first.     *)
Fits(q, row, labels) ==
  /\ row.values \in Seq(Ints) /\ Len(row.values) = Len(labels)
  /\ \A n \in DOMAIN labels :
       LET t == Home(q, labels[n].table)
           k == PlaceOf(q, labels, n)
       IN  /\ t \in DOMAIN row.of /\ row.values[n] = q.data[t][row.of[t]][k]
           /\ FirstColumns(q) => labels[n].col = k

-----------------------------------------------------------------------------
(* The inductive invariant *)

(* at is assigned_table, which fills from behind: call k of the stack takes *)
(* table Left(at, k), after those behind it.                                *)
Left(at, k) == Len(at) + 1 - k
Before(at, n) == {at[m] : m \in n + 1 .. Len(at)}

(* What at says of a table is what any call with the tables before it taken *)
(* would choose.                                                            *)
OrderKept(q, at) ==
  /\ at \in Seq(Tables \cup {NoName}) /\ Len(at) = Len(q.from)
  /\ \A n \in DOMAIN at : at[n] # NoName =>
       /\ NoName \notin Before(at, n) /\ at[n] \in ToSet(q.from) \ Before(at, n)
       /\ \A of \in Partial(q, Before(at, n)) :
            NextTable(q, Conds(q, of), TablesLeft(q, Before(at, n))).table = at[n]

(* The row of these positions is one that the call has gone into.           *)
Within(of, call) ==
  /\ DOMAIN call.row.of \cup {call.table} \subseteq DOMAIN of
  /\ Agrees(of, call.row.of)
  /\ of[call.table] \notin ToSet(call.left)

(* All conditions on tables of D alone are true.                            *)
Meant(q, f, D) == \A c \in ToSet(q.where) : Done(q, c, D) => True(q, f, c)

(* Call k, when rows have been found: what it works on is that of the rows  *)
(* chosen before it; the rows it has still to take are meant, so far, and   *)
(* were not found before.                                                   *)
CallOK(q, at, rows, call, k) ==
  /\ call = [where |-> call.where, tables |-> call.tables, row |-> call.row,
             table |-> call.table, left |-> call.left]
  /\ Left(at, k) \in DOMAIN at /\ at[Left(at, k)] = call.table /\ call.table # NoName
  /\ call.row.of \in Partial(q, Before(at, Left(at, k)))
  /\ call.where = Conds(q, call.row.of)
  /\ call.tables = TablesLeft(q, Before(at, Left(at, k))) /\ Len(call.tables) = Left(at, k)
  /\ call.left \in Seq(DOMAIN q.data[call.table]) /\ IsInjective(call.left)
  /\ Plain(q) => \A f \in Combinations(q) :
                   Pending(f, call) => Meant(q, f, DOMAIN call.row.of \cup {call.table})
  /\ \A i \in DOMAIN rows : ~ Pending(rows[i].of, call)
  /\ Fits(q, call.row, LabelsTo(q, at, k - 1))

CallsOK(q, at, rows, s) ==
  /\ s \in Seq(ToSet(s))
  /\ \A k \in DOMAIN s : /\ CallOK(q, at, rows, s[k], k)
                         /\ \A j \in 1 .. k - 1 : Within(s[k].row.of, s[j])

RowsOK(q, at, rows) ==
  /\ rows \in Seq(ToSet(rows))
  /\ rows # <<>> => NoName \notin ToSet(at)
  /\ \A i, j \in DOMAIN rows : rows[i].of = rows[j].of => i = j
  /\ \A i \in DOMAIN rows :
       /\ rows[i].of \in Combinations(q)
       /\ Plain(q) => rows[i].of \in Meaning(q)
       /\ Fits(q, rows[i], LabelsTo(q, at, Len(at)))

(* A row has been found, or a call has still to take its part of it.        *)
Held(rows, s, f) ==
  (\E i \in DOMAIN rows : rows[i].of = f) \/ (\E k \in DOMAIN s : Pending(f, s[k]))

(* No row that the clause means is lost.                                    *)
Covered ==
  Named(query) => \A f \in Meaning(query) :
    Held(ans, stack, f) \/ (stack = <<>> /\ answer = None)

AnswerOK ==
  /\ answer # None => stack = <<>>
  /\ stack = <<>> /\ answer = None => ans = <<>>
  /\ answer.end \in {"answered", "died"} => assigned_table[Len(assigned_table)] # NoName
  /\ answer.end = "answered" =>
       answer.cols = Labels(query, assigned_table) /\ ~Unlabelled(query, assigned_table)
  /\ answer.end = "died" => Unlabelled(query, assigned_table)
  /\ answer.end = "noThisColumn" => ~Named(query)

IInv ==
  /\ query \in Queries
  /\ OrderKept(query, assigned_table)
  /\ CallsOK(query, assigned_table, ans, stack)
  /\ RowsOK(query, assigned_table, ans)
  /\ Covered
  /\ AnswerOK

-----------------------------------------------------------------------------
(* Queries and their conditions *)

(* A value put into a condition: WhereClause's becomeCompare with a value.  *)
LEMMA ConstFacts ==
  ASSUME NEW v \in Ints
  PROVE  /\ Const(v) \in Expressions /\ Const(v).type # "col" /\ Const(v).table = NoName
         /\ Const(v).val = v /\ (Const(v).type = "NULL" <=> v = Null)
BY DEF Const, Expressions

(* What a query consists of: QueriesAssumption, part by part.               *)
LEMMA QueryFacts ==
  ASSUME NEW q \in Queries
  PROVE  /\ q.from \in Seq(Tables) /\ Len(q.from) \in Nat /\ Len(q.from) >= 1 /\ IsInjective(q.from)
         /\ Head(q.from) = q.from[1] /\ q.from[1] \in ToSet(q.from)
         /\ ToSet(q.from) \subseteq Tables
         /\ q.where \in Seq(Conditions) /\ Len(q.where) \in Nat /\ DOMAIN q.where = 1 .. Len(q.where)
         /\ Len(q.from) = 1 => ToSet(q.from) = {q.from[1]}
<1>1. q.from \in Seq(Tables) /\ q.from # <<>> /\ IsInjective(q.from) /\ q.where \in Seq(Conditions)
  BY QueriesAssumption
<1>2. Len(q.from) \in Nat /\ Len(q.from) >= 1 /\ Head(q.from) = q.from[1] /\ DOMAIN q.from = 1 .. Len(q.from)
  BY <1>1, EmptySeq
<1>3. q.from[1] \in ToSet(q.from) /\ ToSet(q.from) \subseteq Tables
  BY <1>1, <1>2 DEF ToSet
<1>4. Len(q.from) = 1 => ToSet(q.from) = {q.from[1]}
  BY <1>2 DEF ToSet
<1> QED BY <1>1, <1>2, <1>3, <1>4

(* Names of one query.                                                      *)
LEMMA HomeFacts ==
  ASSUME NEW q \in Queries, NEW name, NEW col, Exists(q, name, col)
  PROVE  /\ Home(q, name) \in ToSet(q.from) /\ Home(q, name) \in Tables
         /\ col \in 1 .. ColsOf[Home(q, name)] /\ ColsOf[Home(q, name)] \in Nat
         /\ Len(q.from) > 1 => name = Home(q, name)
         /\ name # NoName => name = Home(q, name)
         /\ name = NoName => Home(q, name) = q.from[1] /\ Len(q.from) = 1
<1>1. Home(q, name) \in ToSet(q.from) /\ col \in 1 .. ColsOf[Home(q, name)]
  BY DEF Exists
<1>2. Home(q, name) \in Tables /\ ColsOf[Home(q, name)] \in Nat
  BY <1>1, QueryFacts, NamesAssumption
<1>3. Len(q.from) > 1 => name # NoName
  BY DEF Exists
<1>4. /\ name # NoName => name = Home(q, name)
      /\ name = NoName => Home(q, name) = Head(q.from)
  BY DEF Home, TableOf
<1>5. Head(q.from) = q.from[1] /\ Len(q.from) \in Nat /\ Len(q.from) >= 1
  BY QueryFacts
<1>6. name = NoName => Len(q.from) = 1
  <2> DEFINE n == Len(q.from)
  <2>1. n \in Nat /\ n >= 1 /\ (n > 1 => name # NoName)
    BY <1>3, <1>5
  <2> HIDE DEF n
  <2>2. n > 1 \/ n = 1
    BY <2>1
  <2> QED BY <2>1, <2>2 DEF n
<1> QED BY <1>1, <1>2, <1>3, <1>4, <1>5, <1>6

(* Conditions of one query.                                                 *)
LEMMA ConditionFacts ==
  ASSUME NEW q \in Queries, NEW c \in ToSet(q.where)
  PROVE  /\ c \in Conditions /\ Exists(q, c.table, c.col)
         /\ c.rhs.type = "col" => Exists(q, c.rhs.table, c.rhs.col) /\ c.op \in Comparisons
         /\ c.rhs.type # "col" =>
              c.rhs = Const(c.rhs.val) /\ c.rhs.table = NoName /\ (c.rhs.type = "NULL" <=> c.rhs.val = Null)
         /\ c.op \notin Comparisons => c.rhs.type = "NULL" /\ c.op \in {"isnull", "isnotnull"}
         /\ c.rhs.val \in Ints
<1>1. Known(q, c) /\ c \in Conditions
  BY QueriesAssumption DEF ToSet, Known
<1>2. c.rhs \in Expressions /\ c.rhs.val \in Ints /\ c.op \in Comparisons \cup {"isnull", "isnotnull"}
  BY <1>1 DEF Conditions, Expressions
<1>3. CASE c.rhs = Const(c.rhs.val)
  <2>1. /\ c.rhs.type # "col" /\ c.rhs.table = NoName
        /\ c.rhs.type = "NULL" <=> c.rhs.val = Null
    BY <1>2, <1>3, ConstFacts
  <2>2. c.op \notin Comparisons => c.rhs.type = "NULL"
    <3>1. Null \in Ints
      BY DEF Ints
    <3> QED BY <1>1, <3>1, ConstFacts DEF Known
  <2> QED BY <1>1, <1>2, <1>3, <2>1, <2>2 DEF Known
<1>4. CASE ~ (c.rhs = Const(c.rhs.val))
  <2>1. c.rhs = Column(c.rhs.table, c.rhs.col) /\ Exists(q, c.rhs.table, c.rhs.col)
    BY <1>1, <1>4 DEF Known
  <2>2. c.rhs.type = "col"
    BY <2>1 DEF Column
  <2>3. c.op \in Comparisons
    <3>1. ASSUME c.op \notin Comparisons PROVE FALSE
      <4>1. Null \in Ints /\ c.rhs = Const(Null)
        BY <1>1, <3>1 DEF Ints, Known
      <4> QED BY <2>2, <4>1, ConstFacts
    <3> QED BY <3>1
  <2> QED BY <1>1, <1>2, <2>1, <2>2, <2>3 DEF Known
<1> QED BY <1>3, <1>4

(* Values in the rows chosen.                                               *)
LEMMA ValueFacts ==
  ASSUME NEW q \in Queries, NEW t \in Tables, NEW i \in DOMAIN q.data[t]
  PROVE  /\ i \in Nat
         /\ q.data[t][i] \in [1 .. ColsOf[t] -> Ints]
         /\ ColsOf[t] \in Nat
         /\ \A c \in 1 .. ColsOf[t] : q.data[t][i][c] \in Ints
<1>1. q.data[t] \in Seq([1 .. ColsOf[t] -> Ints]) /\ ColsOf[t] \in Nat
  BY QueriesAssumption, NamesAssumption
<1>2. i \in Nat /\ q.data[t][i] \in [1 .. ColsOf[t] -> Ints]
  BY <1>1
<1> QED BY <1>1, <1>2

(* Exchanging the sides of a comparison keeps what it says.                 *)
LEMMA FlippedFacts ==
  ASSUME NEW op \in Comparisons
  PROVE  /\ Flipped(op) \in Comparisons
         /\ Flipped(op) = "=" <=> op = "="
         /\ \A a \in Int, b \in Int : Compares(Flipped(op), b, a) <=> Compares(op, a, b)
<1>1. Flipped(op) \in Comparisons /\ (Flipped(op) = "=" <=> op = "=")
  BY DEF Flipped, Comparisons
<1>2. ASSUME NEW a \in Int, NEW b \in Int
      PROVE  Compares(Flipped(op), b, a) <=> Compares(op, a, b)
  <2>1. CASE op = "="
    BY <2>1 DEF Flipped, Compares
  <2>2. CASE op = "<"
    BY <2>2 DEF Flipped, Compares
  <2>3. CASE op = ">"
    BY <2>3 DEF Flipped, Compares
  <2>4. CASE op = "<>"
    BY <2>4 DEF Flipped, Compares
  <2>5. CASE op = "<="
    BY <2>5 DEF Flipped, Compares
  <2>6. CASE op = ">="
    BY <2>6 DEF Flipped, Compares
  <2> QED BY <2>1, <2>2, <2>3, <2>4, <2>5, <2>6 DEF Comparisons
<1> QED BY <1>1, <1>2

-----------------------------------------------------------------------------
(* What assign makes of the conditions *)

(* The value a condition finds in the rows chosen.                          *)
LEMMA ChosenValue ==
  ASSUME NEW q \in Queries, NEW D \in SUBSET ToSet(q.from), NEW of \in Partial(q, D),
         NEW name, NEW col, Exists(q, name, col), Home(q, name) \in D
  PROVE  q.data[Home(q, name)][of[Home(q, name)]][col] \in Ints
<1>1. Home(q, name) \in Tables /\ of[Home(q, name)] \in DOMAIN q.data[Home(q, name)]
  BY HomeFacts DEF Partial
<1> QED BY <1>1, HomeFacts, ValueFacts

(* A condition once the rows of its tables are put into it.                 *)
LEMMA BoundFacts ==
  ASSUME NEW q \in Queries, NEW c \in ToSet(q.where),
         NEW D \in SUBSET ToSet(q.from), NEW of \in Partial(q, D),
         NEW t, t = Home(q, c.table), NEW u, u = Home(q, c.rhs.table),
         NEW b, b = Bound(q, c, of)
  PROVE  /\ b \in Conditions
         /\ t \in D => /\ q.data[t][of[t]][c.col] \in Ints
                       /\ b.table = c.rhs.table /\ b.col = c.rhs.col /\ b.op = Flipped(c.op)
                       /\ b.rhs = Const(q.data[t][of[t]][c.col])
         /\ t \notin D /\ c.rhs.type = "col" /\ u \in D =>
              /\ q.data[u][of[u]][c.rhs.col] \in Ints
              /\ b.table = c.table /\ b.col = c.col /\ b.op = c.op
              /\ b.rhs = Const(q.data[u][of[u]][c.rhs.col])
         /\ t \notin D /\ ~ (c.rhs.type = "col" /\ u \in D) => b = c
<1>1. DOMAIN of = D
  BY DEF Partial
<1>2. /\ c \in Conditions /\ Exists(q, c.table, c.col)
      /\ c.rhs.type = "col" => Exists(q, c.rhs.table, c.rhs.col)
  BY ConditionFacts
<1>3. CASE t \in D
  <2> DEFINE v == q.data[t][of[t]][c.col]
  <2>1. v \in Ints
    BY <1>2, <1>3, ChosenValue
  <2>2. b = [table |-> c.rhs.table, col |-> c.rhs.col, op |-> Flipped(c.op), rhs |-> Const(v)]
    BY <1>1, <1>3 DEF Bound
  <2> HIDE DEF v
  <2>3. Const(v) \in Expressions
    BY <2>1, ConstFacts
  <2>4. Flipped(c.op) \in Comparisons \cup {"isnull", "isnotnull"}
    <3>1. c.op \in Comparisons \/ Flipped(c.op) = c.op
      BY DEF Flipped, Comparisons
    <3>2. c.op \in Comparisons \cup {"isnull", "isnotnull"}
      BY <1>2 DEF Conditions
    <3> QED BY <3>1, <3>2, FlippedFacts
  <2>5. c.rhs.table \in Tables \cup {NoName} /\ c.rhs.col \in Nat
    BY <1>2 DEF Conditions, Expressions
  <2>6. b \in Conditions
    BY <2>2, <2>3, <2>4, <2>5 DEF Conditions
  <2>7. b.table = c.rhs.table /\ b.col = c.rhs.col /\ b.op = Flipped(c.op) /\ b.rhs = Const(v)
    BY <2>2
  <2> QED BY <1>3, <2>1, <2>6, <2>7 DEF v
<1>4. CASE t \notin D /\ c.rhs.type = "col" /\ u \in D
  <2> DEFINE v == q.data[u][of[u]][c.rhs.col]
  <2>1. v \in Ints
    BY <1>2, <1>4, ChosenValue
  <2>2. b = [c EXCEPT !.rhs = Const(v)]
    BY <1>1, <1>4 DEF Bound
  <2> HIDE DEF v
  <2>3. Const(v) \in Expressions
    BY <2>1, ConstFacts
  <2>4. /\ b \in Conditions /\ b.table = c.table /\ b.col = c.col /\ b.op = c.op
        /\ b.rhs = Const(v)
    BY <1>2, <2>2, <2>3 DEF Conditions
  <2> QED BY <1>4, <2>1, <2>4 DEF v
<1>5. CASE t \notin D /\ ~ (c.rhs.type = "col" /\ u \in D)
  <2>1. b = c
    BY <1>1, <1>5 DEF Bound
  <2> QED BY <1>2, <1>5, <2>1
<1> QED BY <1>3, <1>4, <1>5

(* The rows chosen with that of one more table.                             *)
More(of, D, t, i) == [u \in D \cup {t} |-> IF u = t THEN i ELSE of[u]]

(* A row of one more table is a choice for one table more.                  *)
LEMMA MoreFacts ==
  ASSUME NEW q \in Queries, NEW D \in SUBSET ToSet(q.from), NEW of \in Partial(q, D),
         NEW t \in ToSet(q.from) \ D, NEW i \in DOMAIN q.data[t]
  PROVE  /\ More(of, D, t, i) \in Partial(q, D \cup {t})
         /\ More(of, D, t, i)[t] = i
         /\ \A u \in D : More(of, D, t, i)[u] = of[u]
         /\ \A u \in D : of[u] \in Nat
<1>1. t \in Tables /\ i \in Nat
  BY QueryFacts, ValueFacts
<1> QED BY <1>1 DEF More, Partial

(* The next row puts a condition to what all the rows together make of it.  *)
LEMMA TurnedBound ==
  ASSUME NEW q \in Queries, Len(q.from) > 1, NEW c \in ToSet(q.where),
         NEW D \in SUBSET ToSet(q.from), NEW of \in Partial(q, D), ~ Done(q, c, D),
         NEW t \in ToSet(q.from) \ D, NEW i \in DOMAIN q.data[t]
  PROVE  /\ Settled(Bound(q, c, of), t) <=> Done(q, c, D \cup {t})
         /\ ~ Settled(Bound(q, c, of), t) =>
              Turned(Bound(q, c, of), t, q.data[t][i]) = Bound(q, c, More(of, D, t, i))
<1> DEFINE x == Home(q, c.table)
           y == Home(q, c.rhs.table)
           b == Bound(q, c, of)
           m == More(of, D, t, i)
<1>1. /\ c \in Conditions /\ Exists(q, c.table, c.col)
      /\ c.rhs.type = "col" => Exists(q, c.rhs.table, c.rhs.col)
  BY ConditionFacts
<1>2. /\ x = c.table /\ x # NoName
      /\ c.rhs.type = "col" => y = c.rhs.table /\ y # NoName
  BY <1>1, HomeFacts, NamesAssumption
<1>3. m \in Partial(q, D \cup {t}) /\ DOMAIN m = D \cup {t} /\ m[t] = i /\ \A u \in D : m[u] = of[u]
  <2>1. m \in Partial(q, D \cup {t}) /\ m[t] = i /\ \A u \in D : m[u] = of[u]
    BY MoreFacts
  <2>2. DOMAIN m = D \cup {t}
    BY DEF More
  <2> QED BY <2>1, <2>2
<1>4. (D \cup {t}) \in SUBSET ToSet(q.from)
  OBVIOUS
<1>5. DOMAIN of = D
  BY DEF Partial
<1> HIDE DEF m
<1>6. Bound(q, c, m) =
        IF x \in D \cup {t}
          THEN [table |-> c.rhs.table, col |-> c.rhs.col, op |-> Flipped(c.op),
                rhs |-> Const(q.data[x][m[x]][c.col])]
        ELSE IF c.rhs.type = "col" /\ y \in D \cup {t}
          THEN [c EXCEPT !.rhs = Const(q.data[y][m[y]][c.rhs.col])]
        ELSE c
  BY <1>3 DEF Bound
<1>7. b = IF x \in D
          THEN [table |-> c.rhs.table, col |-> c.rhs.col, op |-> Flipped(c.op),
                rhs |-> Const(q.data[x][of[x]][c.col])]
        ELSE IF c.rhs.type = "col" /\ y \in D
          THEN [c EXCEPT !.rhs = Const(q.data[y][of[y]][c.rhs.col])]
        ELSE c
  BY <1>5 DEF Bound
<1>8. \A e : e \in D \cup {t} /\ e # t => e \in D
  OBVIOUS
<1>9. \A v : Const(v).type # "col"
  BY DEF Const
<1>10. CASE x \in D
  <2>1. c.rhs.type = "col" /\ y \notin D
    BY <1>10 DEF Done
  <2>2. b.table = y /\ b.rhs.type # "col"
    BY <1>2, <1>7, <1>9, <1>10, <2>1
  <2>3. Settled(b, t) <=> y = t
    BY <1>2, <2>1, <2>2 DEF Settled, TableOf
  <2>4. Done(q, c, D \cup {t}) <=> y = t
    BY <1>10, <2>1 DEF Done
  <2>5. ASSUME y # t PROVE Turned(b, t, q.data[t][i]) = Bound(q, c, m)
    <3>1. Turned(b, t, q.data[t][i]) = b
      BY <1>2, <2>1, <2>2, <2>5 DEF Turned, TableOf
    <3>2. Bound(q, c, m) = b
      BY <1>3, <1>6, <1>7, <1>10
    <3> QED BY <3>1, <3>2
  <2> QED BY <2>3, <2>4, <2>5 DEF b, m
<1>11. CASE x \notin D /\ c.rhs.type = "col" /\ y \in D
  <2>1. b = [c EXCEPT !.rhs = Const(q.data[y][of[y]][c.rhs.col])]
    BY <1>7, <1>11
  <2>2. b.table = x /\ b.rhs.type # "col" /\ b.op = c.op /\ b.col = c.col
    BY <1>1, <1>2, <1>9, <2>1 DEF Conditions
  <2>3. Settled(b, t) <=> x = t
    BY <1>2, <2>2 DEF Settled, TableOf
  <2>4. Done(q, c, D \cup {t}) <=> x = t
    BY <1>11 DEF Done
  <2>5. ASSUME x # t PROVE Turned(b, t, q.data[t][i]) = Bound(q, c, m)
    <3>1. Turned(b, t, q.data[t][i]) = b
      BY <1>2, <2>2, <2>5 DEF Turned, TableOf
    <3>2. Bound(q, c, m) = b
      BY <1>3, <1>6, <1>11, <2>1, <2>5
    <3> QED BY <3>1, <3>2
  <2> QED BY <2>3, <2>4, <2>5 DEF b, m
<1>12. CASE x \notin D /\ ~ (c.rhs.type = "col" /\ y \in D)
  <2>1. b = c
    BY <1>7, <1>12
  <2>2. Settled(c, t) <=> x = t /\ (c.rhs.type = "col" => y = t)
    BY <1>2 DEF Settled, TableOf
  <2>3. Done(q, c, D \cup {t}) <=> x = t /\ (c.rhs.type = "col" => y = t)
    BY <1>12 DEF Done
  <2>4. ASSUME ~ Settled(c, t) PROVE Turned(c, t, q.data[t][i]) = Bound(q, c, m)
    <3>1. CASE x = t
      <4>1. c.rhs.type = "col" /\ y # t
        BY <2>2, <2>4, <3>1
      <4>2. Turned(c, t, q.data[t][i]) =
              [table |-> c.rhs.table, col |-> c.rhs.col, op |-> Flipped(c.op), rhs |-> Const(q.data[t][i][c.col])]
        BY <1>2, <3>1 DEF Turned, TableOf
      <4> QED BY <1>3, <1>6, <3>1, <4>2
    <3>2. CASE x # t /\ c.rhs.type = "col" /\ y = t
      <4>1. Turned(c, t, q.data[t][i]) = [c EXCEPT !.rhs = Const(q.data[t][i][c.rhs.col])]
        BY <1>2, <3>2 DEF Turned, TableOf
      <4> QED BY <1>3, <1>6, <1>12, <3>2, <4>1
    <3>3. CASE x # t /\ ~ (c.rhs.type = "col" /\ y = t)
      <4>1. Turned(c, t, q.data[t][i]) = c
        BY <1>2, <3>3 DEF Turned, TableOf
      <4>2. x \notin D \cup {t} /\ ~ (c.rhs.type = "col" /\ y \in D \cup {t})
        BY <1>12, <3>3
      <4> QED BY <1>6, <4>1, <4>2
    <3> QED BY <3>1, <3>2, <3>3
  <2> QED BY <2>1, <2>2, <2>3, <2>4 DEF b, m
<1> QED BY <1>10, <1>11, <1>12

(* The conditions of a call, condition by condition.                        *)
LEMMA CondsFacts ==
  ASSUME NEW q \in Queries, NEW D \in SUBSET ToSet(q.from), NEW of \in Partial(q, D),
         NEW w, w = Conds(q, of)
  PROVE  /\ w \in Seq(Conditions) /\ DOMAIN w = 1 .. Len(w) /\ Len(w) \in Nat
         /\ \E place \in [DOMAIN w -> OpenAt(q, D)] :
              /\ IsInjective(place)
              /\ \A i \in OpenAt(q, D) : \E j \in DOMAIN w : place[j] = i
              /\ \A j \in DOMAIN w : w[j] = Bound(q, q.where[place[j]], of)
              /\ place = Ordered(OpenAt(q, D))
<1> DEFINE list == [i \in DOMAIN q.where |-> Bound(q, q.where[i], of)]
           K == OpenAt(q, D)
           place == Ordered(K)
<1>1. q.where \in Seq(Conditions) /\ Len(q.where) \in Nat /\ DOMAIN q.where = 1 .. Len(q.where)
  BY QueryFacts
<1>2. \A i \in DOMAIN q.where : Bound(q, q.where[i], of) \in Conditions
  <2> TAKE i \in DOMAIN q.where
  <2>1. q.where[i] \in ToSet(q.where)
    BY <1>1 DEF ToSet
  <2> QED BY <2>1, BoundFacts
<1>3. list \in Seq(Conditions) /\ DOMAIN list = DOMAIN q.where
  BY <1>1, <1>2
<1>4. K \in SUBSET DOMAIN list /\ DOMAIN of = D /\ w = ElementsAt(list, K)
  BY <1>3 DEF OpenAt, Partial, Conds
<1>5. K \in SUBSET Nat /\ IsFiniteSet(K)
  <2>1. IsFiniteSet(1 .. Len(q.where))
    BY <1>1, FS_Interval
  <2>2. IsFiniteSet(K)
    BY <1>1, <1>3, <1>4, <2>1, FS_Subset
  <2> QED BY <1>1, <1>3, <1>4, <2>2
<1>6. \A i \in DOMAIN list : list[i] = Bound(q, q.where[i], of)
  OBVIOUS
<1> HIDE DEF list, K
<1>7. place \in [1 .. Cardinality(K) -> K] /\ IsInjective(place) /\ ToSet(place) = K
  BY <1>5, OrderedFacts
<1> HIDE DEF place
<1>8. w \in Seq(Conditions)
  BY <1>3, <1>4, ElementsAtFacts
<1>9. DOMAIN w = DOMAIN place /\ \A j \in DOMAIN place : w[j] = list[place[j]]
  BY <1>4 DEF ElementsAt, place
<1>10. place \in [DOMAIN w -> K]
  BY <1>7, <1>9
<1>11. \A i \in K : \E j \in DOMAIN w : place[j] = i
  BY <1>7, <1>9 DEF ToSet
<1>12. \A j \in DOMAIN w : w[j] = Bound(q, q.where[place[j]], of)
  BY <1>4, <1>6, <1>9, <1>10
<1>13. DOMAIN w = 1 .. Len(w) /\ Len(w) \in Nat
  BY <1>8
<1> QED BY <1>7, <1>8, <1>10, <1>11, <1>12, <1>13 DEF K, place

(* Before any row is chosen the conditions are those of the clause.         *)
LEMMA CondsStart ==
  ASSUME NEW q \in Queries
  PROVE  /\ <<>> \in Partial(q, {}) /\ DOMAIN <<>> = {}
         /\ Conds(q, <<>>) = q.where
<1>1. <<>> \in Partial(q, {}) /\ DOMAIN <<>> = {}
  BY DEF Partial
<1>2. q.where \in Seq(Conditions)
  BY QueryFacts
<1>3. OpenAt(q, {}) = DOMAIN q.where
  BY DEF OpenAt, Done
<1>4. \A i \in DOMAIN q.where : Bound(q, q.where[i], <<>>) = q.where[i]
  BY <1>1 DEF Bound
<1>5. [i \in DOMAIN q.where |-> Bound(q, q.where[i], <<>>)] = q.where
  <2>1. [i \in DOMAIN q.where |-> Bound(q, q.where[i], <<>>)] = [i \in DOMAIN q.where |-> q.where[i]]
    BY <1>4
  <2>2. q.where = [i \in DOMAIN q.where |-> q.where[i]]
    BY <1>2
  <2> QED BY <2>1, <2>2
<1>6. Conds(q, <<>>) = ElementsAt(q.where, DOMAIN q.where)
  BY <1>1, <1>3, <1>5 DEF Conds
<1> QED BY <1>1, <1>2, <1>6, ElementsAtAll

(* assign keeps the conditions of a call what the rows chosen make of them. *)
LEMMA CondsStep ==
  ASSUME NEW q \in Queries, Len(q.from) > 1,
         NEW D \in SUBSET ToSet(q.from), NEW of \in Partial(q, D),
         NEW t \in ToSet(q.from) \ D, NEW i \in DOMAIN q.data[t]
  PROVE  Assign(Conds(q, of), t, q.data[t][i]) = Conds(q, More(of, D, t, i))
<1> DEFINE list == [k \in DOMAIN q.where |-> Bound(q, q.where[k], of)]
           K == OpenAt(q, D)
           w == Conds(q, of)
           m == More(of, D, t, i)
           after == [k \in DOMAIN q.where |-> Bound(q, q.where[k], m)]
           M == OpenAt(q, D \cup {t})
           L == {j \in DOMAIN w : ~Settled(w[j], t)}
           changed == [j \in DOMAIN w |-> IF j \in L THEN Turned(w[j], t, q.data[t][i]) ELSE w[j]]
<1>1. q.where \in Seq(Conditions) /\ Len(q.where) \in Nat /\ DOMAIN q.where = 1 .. Len(q.where)
  BY QueryFacts
<1>2. \A k \in DOMAIN q.where : q.where[k] \in ToSet(q.where) /\ Bound(q, q.where[k], of) \in Conditions
  <2> TAKE k \in DOMAIN q.where
  <2>1. q.where[k] \in ToSet(q.where)
    BY <1>1 DEF ToSet
  <2> QED BY <2>1, BoundFacts
<1>3. list \in Seq(Conditions) /\ DOMAIN list = DOMAIN q.where /\ DOMAIN after = DOMAIN list
  BY <1>1, <1>2
<1>4. K \in SUBSET DOMAIN list /\ w = ElementsAt(list, K)
  BY <1>3 DEF OpenAt, Partial, Conds
<1>5. M \in SUBSET K
  BY DEF OpenAt, Done
<1>6. DOMAIN m = D \cup {t}
  BY DEF More
<1>7. \A k \in DOMAIN q.where : list[k] = Bound(q, q.where[k], of) /\ after[k] = Bound(q, q.where[k], m)
  OBVIOUS
<1>8. Conds(q, m) = ElementsAt(after, M)
  BY <1>6 DEF Conds
<1>9. Assign(w, t, q.data[t][i]) = ElementsAt(changed, L)
  BY Zenon DEF Assign
<1>10. ASSUME NEW j \in DOMAIN w, NEW k \in K, w[j] = list[k]
       PROVE  /\ j \in L <=> k \in M
              /\ j \in L => changed[j] = after[k]
  <2>1. k \in DOMAIN q.where /\ ~ Done(q, q.where[k], D)
    BY DEF OpenAt
  <2>2. w[j] = Bound(q, q.where[k], of)
    BY <1>7, <1>10, <2>1
  <2>3. /\ Settled(w[j], t) <=> Done(q, q.where[k], D \cup {t})
        /\ ~ Settled(w[j], t) => Turned(w[j], t, q.data[t][i]) = Bound(q, q.where[k], m)
    BY <1>2, <2>1, <2>2, TurnedBound
  <2>4. j \in L <=> k \in M
    BY <2>1, <2>3 DEF OpenAt
  <2>5. j \in L => changed[j] = Turned(w[j], t, q.data[t][i])
    OBVIOUS
  <2>6. after[k] = Bound(q, q.where[k], m)
    BY <1>7, <2>1
  <2>7. j \in L => ~Settled(w[j], t)
    OBVIOUS
  <2> HIDE DEF L, M, changed, after, m, w
  <2> QED BY <2>3, <2>4, <2>5, <2>6, <2>7
<1>11. L \in SUBSET DOMAIN w
  OBVIOUS
<1> HIDE DEF list, K, w, m, after, M, L, changed
<1>12. ElementsAt(changed, L) = ElementsAt(after, M)
  BY <1>3, <1>4, <1>5, <1>10, <1>11, ElementsAtTwice
<1> QED BY <1>8, <1>9, <1>12 DEF w, m

-----------------------------------------------------------------------------
(* The tables left *)

(* The tables left are those of FROM that are not taken.                    *)
LEMMA TablesFacts ==
  ASSUME NEW q \in Queries, NEW D \in SUBSET ToSet(q.from), NEW tables, tables = TablesLeft(q, D)
  PROVE  /\ tables \in Seq(Tables) /\ Len(tables) \in Nat /\ DOMAIN tables = 1 .. Len(tables)
         /\ IsInjective(tables) /\ ToSet(tables) = ToSet(q.from) \ D
<1> DEFINE K == {n \in DOMAIN q.from : q.from[n] \notin D}
<1>1. q.from \in Seq(Tables) /\ IsInjective(q.from) /\ K \in SUBSET DOMAIN q.from
  BY QueryFacts
<1>2. \A k \in K : q.from[k] \in ToSet(q.from) \ D
  BY <1>1 DEF ToSet
<1>3. \A e \in ToSet(q.from) \ D : \E k \in K : q.from[k] = e
  BY <1>1 DEF ToSet
<1>4. tables = ElementsAt(q.from, K)
  BY DEF TablesLeft
<1> HIDE DEF K
<1>5. /\ tables \in Seq(Tables) /\ ToSet(tables) = {q.from[k] : k \in K}
      /\ \E place : Selects(tables, q.from, K, place)
  BY <1>1, <1>4, ElementsAtFacts
<1>6. PICK place : Selects(tables, q.from, K, place)
  BY <1>5
<1>7. DOMAIN tables = 1 .. Len(tables) /\ Len(tables) \in Nat
  BY <1>5
<1>8. ASSUME NEW i \in DOMAIN tables, NEW j \in DOMAIN tables, tables[i] = tables[j] PROVE i = j
  <2>1. /\ place[i] \in K /\ place[j] \in K /\ q.from[place[i]] = q.from[place[j]]
        /\ DOMAIN place = 1 .. Len(tables)
    BY <1>6, <1>7, <1>8 DEF Selects
  <2>2. place[i] = place[j]
    BY <1>1, <2>1 DEF IsInjective
  <2> QED BY <1>6, <1>7, <2>1, <2>2 DEF Selects, IsInjective
<1>9. ToSet(tables) = ToSet(q.from) \ D
  BY <1>2, <1>3, <1>5
<1>10. IsInjective(tables)
  BY <1>8 DEF IsInjective
<1> QED BY <1>5, <1>7, <1>9, <1>10

(* At first all of them.                                                    *)
LEMMA TablesStart ==
  ASSUME NEW q \in Queries
  PROVE  TablesLeft(q, {}) = q.from
<1>1. {n \in DOMAIN q.from : q.from[n] \notin {}} = DOMAIN q.from
  OBVIOUS
<1> QED BY <1>1, QueryFacts, ElementsAtAll DEF TablesLeft

(* Rest, for any list of tables.                                            *)
Without(tables, t) == ElementsAt(tables, {n \in DOMAIN tables : tables[n] # t})

(* Erasing the table just taken leaves those not taken.                     *)
LEMMA TablesStep ==
  ASSUME NEW q \in Queries, NEW D \in SUBSET ToSet(q.from), NEW tables, tables = TablesLeft(q, D),
         NEW t \in ToSet(tables)
  PROVE  /\ Without(tables, t) = TablesLeft(q, D \cup {t})
         /\ Len(Without(tables, t)) = Len(tables) - 1
<1> DEFINE rest == Without(tables, t)
<1> DEFINE K == {n \in DOMAIN q.from : q.from[n] \notin D}
           M == {n \in DOMAIN q.from : q.from[n] \notin D \cup {t}}
           L == {n \in DOMAIN tables : tables[n] # t}
<1>1. q.from \in Seq(Tables) /\ IsInjective(q.from)
  BY QueryFacts
<1>2. /\ tables \in Seq(Tables) /\ Len(tables) \in Nat /\ DOMAIN tables = 1 .. Len(tables)
      /\ IsInjective(tables)
  BY TablesFacts
<1>3. tables = ElementsAt(q.from, K) /\ TablesLeft(q, D \cup {t}) = ElementsAt(q.from, M)
  BY DEF TablesLeft
<1>4. /\ K \in SUBSET DOMAIN q.from /\ M \in SUBSET K /\ L \in SUBSET DOMAIN tables
      /\ \A k \in K : k \in M <=> q.from[k] # t
      /\ \A i \in DOMAIN tables : i \in L <=> tables[i] # t
  OBVIOUS
<1>5. rest = ElementsAt(tables, L)
  BY DEF Without
<1> HIDE DEF rest
<1>6. Len(rest) = Len(tables) - 1
  <2>1. PICK n \in DOMAIN tables : tables[n] = t
    BY DEF ToSet
  <2>2. L = DOMAIN tables \ {n}
    BY <1>2, <2>1 DEF IsInjective
  <2>3. IsFiniteSet(DOMAIN tables) /\ Cardinality(DOMAIN tables) = Len(tables)
    <3> DEFINE l == Len(tables)
    <3>1. l \in Nat /\ DOMAIN tables = 1 .. l
      BY <1>2
    <3> HIDE DEF l
    <3>2. IsFiniteSet(1 .. l) /\ Cardinality(1 .. l) = l
      BY <3>1, FS_Interval
    <3> QED BY <3>1, <3>2 DEF l
  <2>4. Cardinality(DOMAIN tables \ {n}) = Cardinality(DOMAIN tables) - 1
    BY <2>3, FS_RemoveElement
  <2> HIDE DEF L
  <2>5. Len(rest) = Cardinality(L)
    BY <1>2, <1>4, <1>5, ElementsAtFacts
  <2> QED BY <2>2, <2>3, <2>4, <2>5
<1> HIDE DEF K, M, L
<1>7. \A i \in DOMAIN tables : \A k \in K : tables[i] = q.from[k] /\ Ordered(K)[i] = k =>
        /\ i \in L <=> k \in M
        /\ i \in L => tables[i] = q.from[k]
  BY <1>4
<1>8. ElementsAt(tables, L) = ElementsAt(q.from, M)
  BY <1>1, <1>3, <1>4, <1>7, ElementsAtTwice
<1> QED BY <1>3, <1>5, <1>6, <1>8 DEF rest

-----------------------------------------------------------------------------
(* The next table *)

(* A condition has the same form whatever rows were chosen.                 *)
LEMMA BoundAlike ==
  ASSUME NEW q \in Queries, NEW c \in ToSet(q.where), NEW D \in SUBSET ToSet(q.from),
         NEW of \in Partial(q, D), NEW other \in Partial(q, D),
         NEW a, a = Bound(q, c, of), NEW b, b = Bound(q, c, other)
  PROVE  /\ a.table = b.table /\ a.col = b.col /\ a.op = b.op
         /\ a.rhs.type = "col" <=> b.rhs.type = "col"
         /\ a.rhs.type = "col" => a.rhs = b.rhs
<1> DEFINE t == Home(q, c.table)
           u == Home(q, c.rhs.table)
<1>1. \A v : Const(v).type # "col"
  BY DEF Const
<1>2. CASE t \in D
  BY <1>1, <1>2, BoundFacts
<1>3. CASE t \notin D /\ c.rhs.type = "col" /\ u \in D
  BY <1>1, <1>3, BoundFacts
<1>4. CASE t \notin D /\ ~ (c.rhs.type = "col" /\ u \in D)
  BY <1>4, BoundFacts
<1> QED BY <1>2, <1>3, <1>4

(* A table that is left, with a column only if an equation of the clause    *)
(* gives its value.                                                         *)
GoesOn(w, tables, next) ==
  /\ next.table \in ToSet(tables)
  /\ next.col # 0 =>
       \E j \in DOMAIN w :
         /\ w[j].op = "=" /\ w[j].rhs.type # "col"
         /\ TableOf(w[j].table, Head(tables)) = next.table
         /\ w[j].col = next.col /\ w[j].rhs.val = next.val

(* That is what getNextAssignTableName answers.                             *)
LEMMA NextFacts ==
  ASSUME NEW q \in Queries, NEW w \in Seq(Conditions),
         NEW tables \in Seq(Tables), tables # <<>>
  PROVE  GoesOn(w, tables, NextTable(q, w, tables))
<1> USE DEF GoesOn
<1> DEFINE next == NextTable(q, w, tables)
           default == Head(tables)
           byIndex == {n \in DOMAIN tables : Indexable(q, w, tables[n], default) # {}}
           enabling == {n \in DOMAIN tables : Enables(q, w, tables[n], default)}
<1>1. /\ Len(tables) \in Nat /\ DOMAIN tables = 1 .. Len(tables) /\ default = tables[1]
      /\ 1 \in DOMAIN tables
      /\ Len(w) \in Nat /\ DOMAIN w = 1 .. Len(w)
  BY EmptySeq
<1>2. CASE byIndex # {}
  <2> DEFINE t == tables[Min(byIndex)]
             on == Indexable(q, w, t, default)
  <2>1. Min(byIndex) \in byIndex
    <3>1. byIndex \in SUBSET Nat
      BY <1>1
    <3> HIDE DEF byIndex
    <3> QED BY <1>2, <3>1, MinIsLeast
  <2>2. t \in ToSet(tables) /\ on # {}
    BY <2>1 DEF ToSet
  <2>3. next = [table |-> t, col |-> w[Min(on)].col, val |-> w[Min(on)].rhs.val]
    BY <1>2 DEF NextTable
  <2> HIDE DEF t, default, next
  <2>4. Min(on) \in on
    <3>1. on \in SUBSET Nat
      BY <1>1 DEF Indexable
    <3> HIDE DEF on
    <3> QED BY <2>2, <3>1, MinIsLeast
  <2>5. /\ Min(on) \in DOMAIN w /\ w[Min(on)].op = "=" /\ w[Min(on)].rhs.type # "col"
        /\ TableOf(w[Min(on)].table, default) = t
    BY <2>4 DEF Indexable
  <2> HIDE DEF on
  <2>6. /\ next.table \in ToSet(tables)
        /\ next.col # 0 => \E j \in DOMAIN w :
             /\ w[j].op = "=" /\ w[j].rhs.type # "col"
             /\ TableOf(w[j].table, default) = next.table
             /\ w[j].col = next.col /\ w[j].rhs.val = next.val
    BY <2>2, <2>3, <2>5
  <2> QED BY <2>6 DEF default, next
<1>3. CASE byIndex = {}
  <2>1. /\ next.table = IF enabling # {} THEN tables[Max(enabling)] ELSE default
        /\ next.col = 0
    BY <1>3 DEF NextTable
  <2>2. CASE enabling # {}
    <3>1. Max(enabling) \in enabling
      <4>1. enabling \in SUBSET (1 .. Len(tables))
        BY <1>1
      <4> HIDE DEF enabling
      <4> QED BY <1>1, <2>2, <4>1, MaxIsGreatest
    <3>2. tables[Max(enabling)] \in ToSet(tables)
      BY <3>1 DEF ToSet
    <3> HIDE DEF enabling
    <3> QED BY <2>1, <2>2, <3>2
  <2>3. CASE enabling = {}
    BY <1>1, <2>1, <2>3 DEF ToSet
  <2> QED BY <2>2, <2>3
<1> QED BY <1>2, <1>3

(* Which table is next does not depend on the rows chosen.                  *)
LEMMA SameNext ==
  ASSUME NEW q \in Queries, NEW D \in SUBSET ToSet(q.from), NEW tables,
         NEW of \in Partial(q, D), NEW other \in Partial(q, D)
  PROVE  NextTable(q, Conds(q, of), tables).table = NextTable(q, Conds(q, other), tables).table
<1> DEFINE v == Conds(q, of)
           w == Conds(q, other)
           default == Head(tables)
<1>1. /\ DOMAIN v = DOMAIN w
      /\ \A j \in DOMAIN v :
           /\ v[j].table = w[j].table /\ v[j].col = w[j].col /\ v[j].op = w[j].op
           /\ v[j].rhs.type = "col" <=> w[j].rhs.type = "col"
           /\ v[j].rhs.type = "col" => v[j].rhs = w[j].rhs
  <2>1. PICK p \in [DOMAIN v -> OpenAt(q, D)] :
          p = Ordered(OpenAt(q, D)) /\ \A j \in DOMAIN v : v[j] = Bound(q, q.where[p[j]], of)
    BY CondsFacts
  <2>2. PICK r \in [DOMAIN w -> OpenAt(q, D)] :
          r = Ordered(OpenAt(q, D)) /\ \A j \in DOMAIN w : w[j] = Bound(q, q.where[r[j]], other)
    BY CondsFacts
  <2> HIDE DEF v, w
  <2>3. p = r /\ DOMAIN v = DOMAIN w
    BY <2>1, <2>2
  <2>4. ASSUME NEW j \in DOMAIN v
        PROVE  /\ v[j].table = w[j].table /\ v[j].col = w[j].col /\ v[j].op = w[j].op
               /\ v[j].rhs.type = "col" <=> w[j].rhs.type = "col"
               /\ v[j].rhs.type = "col" => v[j].rhs = w[j].rhs
    <3>1. q.where[p[j]] \in ToSet(q.where)
      <4>1. p[j] \in DOMAIN q.where
        BY <2>1 DEF OpenAt
      <4> QED BY <4>1 DEF ToSet
    <3>2. v[j] = Bound(q, q.where[p[j]], of) /\ w[j] = Bound(q, q.where[p[j]], other)
      BY <2>1, <2>2, <2>3
    <3> QED BY <3>1, <3>2, BoundAlike
  <2> QED BY <2>3, <2>4
<1>2. ToSet(v) = {v[j] : j \in DOMAIN v} /\ ToSet(w) = {w[j] : j \in DOMAIN w}
  BY DEF ToSet
<1> HIDE DEF v, w
<1>3. ASSUME NEW t PROVE Indexable(q, v, t, default) = Indexable(q, w, t, default)
  BY <1>1 DEF Indexable
<1>4. ASSUME NEW t PROVE Enables(q, v, t, default) <=> Enables(q, w, t, default)
  <2> DEFINE On(c) == /\ c.op = "=" /\ c.rhs.type = "col"
                      /\ \/ /\ TableOf(c.table, default) = t
                            /\ TableOf(c.rhs.table, default) # t
                            /\ c.rhs.col \in q.indexed[TableOf(c.rhs.table, default)]
                         \/ /\ TableOf(c.rhs.table, default) = t
                            /\ TableOf(c.table, default) # t
                            /\ c.col \in q.indexed[TableOf(c.table, default)]
  <2>1. \A j \in DOMAIN v : On(v[j]) <=> On(w[j])
    BY <1>1
  <2>2. /\ Enables(q, v, t, default) <=> \E j \in DOMAIN v : On(v[j])
        /\ Enables(q, w, t, default) <=> \E j \in DOMAIN w : On(w[j])
    BY <1>2 DEF Enables
  <2> HIDE DEF On
  <2> QED BY <1>1, <2>1, <2>2
<1>5. /\ {n \in DOMAIN tables : Indexable(q, v, tables[n], default) # {}}
           = {n \in DOMAIN tables : Indexable(q, w, tables[n], default) # {}}
      /\ {n \in DOMAIN tables : Enables(q, v, tables[n], default)}
           = {n \in DOMAIN tables : Enables(q, w, tables[n], default)}
  BY <1>3, <1>4
<1> DEFINE byIndex == {n \in DOMAIN tables : Indexable(q, v, tables[n], default) # {}}
           enabling == {n \in DOMAIN tables : Enables(q, v, tables[n], default)}
           next == IF byIndex # {} THEN tables[Min(byIndex)]
                   ELSE IF enabling # {} THEN tables[Max(enabling)] ELSE default
<1>6. NextTable(q, v, tables).table = next
  BY DEF NextTable
<1>7. NextTable(q, w, tables).table = next
  BY <1>5 DEF NextTable
<1> QED BY <1>6, <1>7 DEF v, w

-----------------------------------------------------------------------------
(* What the conditions of a call say *)

(* One condition of a call: it names columns of tables that are left, and   *)
(* is about table t alone when what it was made from says nothing more of   *)
(* tables other than t and those taken.                                     *)
LEMMA BoundNames ==
  ASSUME NEW q \in Queries, NEW c \in ToSet(q.where), NEW D \in SUBSET ToSet(q.from),
         NEW of \in Partial(q, D), ~ Done(q, c, D), NEW b, b = Bound(q, c, of)
  PROVE  /\ Exists(q, b.table, b.col) /\ Home(q, b.table) \notin D
         /\ b.rhs.type = "col" =>
              Exists(q, b.rhs.table, b.rhs.col) /\ Home(q, b.rhs.table) \notin D /\ b.op \in Comparisons
         /\ b.rhs.type # "col" => b.rhs.val \in Ints /\ (b.rhs.type = "NULL" <=> b.rhs.val = Null)
         /\ b.op \notin Comparisons => b.op \in {"isnull", "isnotnull"}
         /\ \A t : t \notin D =>
              (Done(q, c, D \cup {t}) <=> /\ Home(q, b.table) = t
                                          /\ b.rhs.type = "col" => Home(q, b.rhs.table) = t)
         /\ Named(q) => \A t \in ToSet(q.from) : <<t, b.table>> \notin EndsWith
<1> DEFINE x == Home(q, c.table)
           y == Home(q, c.rhs.table)
<1>1. /\ Exists(q, c.table, c.col)
      /\ c.rhs.type = "col" => Exists(q, c.rhs.table, c.rhs.col) /\ c.op \in Comparisons
      /\ c.rhs.type # "col" => c.rhs.val \in Ints /\ (c.rhs.type = "NULL" <=> c.rhs.val = Null)
      /\ c.op \notin Comparisons => c.op \in {"isnull", "isnotnull"}
  BY ConditionFacts
<1>2. \A v \in Ints : Const(v).type # "col" /\ Const(v).val = v /\ (Const(v).type = "NULL" <=> v = Null)
  BY ConstFacts
<1>3. Named(q) => \A t \in ToSet(q.from) :
        <<t, c.table>> \notin EndsWith /\ <<t, c.rhs.table>> \notin EndsWith
  BY DEF Named
<1>4. \A t : Done(q, c, D \cup {t}) <=> /\ x \in D \/ x = t
                                        /\ c.rhs.type = "col" => y \in D \/ y = t
  BY DEF Done
<1>5. ~ (x \in D /\ (c.rhs.type = "col" => y \in D))
  BY DEF Done
<1>6. CASE x \in D
  <2>1. /\ b.table = c.rhs.table /\ b.col = c.rhs.col /\ b.op = Flipped(c.op)
        /\ c.rhs.type = "col" /\ y \notin D
        /\ b.rhs.type # "col" /\ b.rhs.val \in Ints /\ (b.rhs.type = "NULL" <=> b.rhs.val = Null)
    BY <1>2, <1>5, <1>6, BoundFacts
  <2>2. b.op \in Comparisons
    BY <1>1, <2>1, FlippedFacts
  <2> QED BY <1>1, <1>3, <1>4, <1>6, <2>1, <2>2
<1>7. CASE x \notin D /\ c.rhs.type = "col" /\ y \in D
  <2>1. /\ b.table = c.table /\ b.col = c.col /\ b.op = c.op
        /\ b.rhs.type # "col" /\ b.rhs.val \in Ints /\ (b.rhs.type = "NULL" <=> b.rhs.val = Null)
    BY <1>2, <1>7, BoundFacts
  <2> QED BY <1>1, <1>3, <1>4, <1>7, <2>1
<1>8. CASE x \notin D /\ ~ (c.rhs.type = "col" /\ y \in D)
  <2>1. b = c
    BY <1>8, BoundFacts
  <2> QED BY <1>1, <1>3, <1>4, <1>8, <2>1
<1> QED BY <1>6, <1>7, <1>8

(* getChecker applies just those to the rows of t.                          *)
LEMMA AppliesIfDone ==
  ASSUME NEW q \in Queries, NEW c \in ToSet(q.where), NEW D \in SUBSET ToSet(q.from),
         NEW of \in Partial(q, D), ~ Done(q, c, D), NEW b, b = Bound(q, c, of),
         NEW t \in ToSet(q.from) \ D
  PROVE  /\ Done(q, c, D \cup {t}) => Applies(t, b)
         /\ Named(q) /\ Applies(t, b) => Done(q, c, D \cup {t})
<1>1. /\ Exists(q, b.table, b.col)
      /\ b.rhs.type = "col" => Exists(q, b.rhs.table, b.rhs.col)
      /\ Done(q, c, D \cup {t}) <=> /\ Home(q, b.table) = t
                                    /\ b.rhs.type = "col" => Home(q, b.rhs.table) = t
      /\ Named(q) => <<t, b.table>> \notin EndsWith
  BY BoundNames
<1>2. ASSUME NEW name, NEW col, Exists(q, name, col)
      PROVE  name \in {NoName, t} <=> Home(q, name) = t
  <2>1. CASE name = NoName
    <3>1. Home(q, name) = q.from[1] /\ Len(q.from) = 1
      BY <1>2, <2>1, HomeFacts
    <3>2. t = q.from[1]
      BY <3>1, QueryFacts
    <3> QED BY <2>1, <3>1, <3>2
  <2>2. CASE name # NoName
    BY <1>2, <2>2, HomeFacts
  <2> QED BY <2>1, <2>2
<1>3. /\ b.table \in {NoName, t} <=> Home(q, b.table) = t
      /\ b.rhs.type = "col" => (b.rhs.table \in {NoName, t} <=> Home(q, b.rhs.table) = t)
  BY <1>1, <1>2
<1> QED BY <1>1, <1>3 DEF Applies

(* A condition is true in a row of a table.                                 *)
Holds(item, c) ==
  LET a == item[c.col]
      b == IF c.rhs.type = "col" THEN item[c.rhs.col] ELSE c.rhs.val
  IN  \/ c.op = "isnull" /\ a = Null
      \/ c.op = "isnotnull" /\ a # Null
      \/ c.op \in Comparisons /\ a # Null /\ b # Null /\ Compares(c.op, a, b)

(* getChecker lets pass what holds, and no more if it compares with no      *)
(* NULL.                                                                    *)
LEMMA PassesIfHolds ==
  ASSUME NEW item, NEW c
  PROVE  /\ Holds(item, c) => Passes(item, c)
         /\ Passes(item, c) /\ (c.rhs.type = "NULL" => c.op \in {"isnull", "isnotnull"}) => Holds(item, c)
<1>1. "isnull" \notin Comparisons /\ "isnotnull" \notin Comparisons
  BY DEF Comparisons
<1> DEFINE a == item[c.col]
           b == IF c.rhs.type = "col" THEN item[c.rhs.col] ELSE c.rhs.val
           Both == a # Null /\ b # Null /\ Compares(c.op, a, b)
<1>2. Holds(item, c) <=> \/ c.op = "isnull" /\ a = Null
                         \/ c.op = "isnotnull" /\ a # Null
                         \/ c.op \in Comparisons /\ Both
  BY DEF Holds
<1>3. Passes(item, c) <=> \/ c.op = "isnull" /\ a = Null
                          \/ c.op = "isnotnull" /\ a # Null
                          \/ c.op \in Comparisons /\ (c.rhs.type = "NULL" \/ Both)
  BY DEF Passes
<1> HIDE DEF Both, a
<1> QED BY <1>1, <1>2, <1>3

(* When all tables of a condition have a row, it says of them what its form *)
(* in the call says of the row of the last.                                 *)
LEMMA BoundHolds ==
  ASSUME NEW q \in Queries, NEW c \in ToSet(q.where), NEW D \in SUBSET ToSet(q.from),
         NEW of \in Partial(q, D), ~ Done(q, c, D), NEW b, b = Bound(q, c, of),
         NEW t \in ToSet(q.from) \ D, Done(q, c, D \cup {t}),
         NEW f \in Combinations(q), Agrees(f, of)
  PROVE  True(q, f, c) <=> Holds(q.data[t][f[t]], b)
<1> DEFINE x == Home(q, c.table)
           y == Home(q, c.rhs.table)
           v == q.data[x][f[x]][c.col]
           w == q.data[y][f[y]][c.rhs.col]
           r == IF c.rhs.type = "col" THEN w ELSE c.rhs.val
<1>1. DOMAIN of = D /\ \A e \in D : f[e] = of[e]
  BY DEF Partial, Agrees
<1>2. /\ Exists(q, c.table, c.col)
      /\ c.rhs.type = "col" => Exists(q, c.rhs.table, c.rhs.col) /\ c.op \in Comparisons
      /\ "isnull" \notin Comparisons /\ "isnotnull" \notin Comparisons
  BY ConditionFacts DEF Comparisons
<1>3. ASSUME NEW name, NEW col, Exists(q, name, col)
      PROVE  q.data[Home(q, name)][f[Home(q, name)]][col] \in Ints
  <2>1. f[Home(q, name)] \in DOMAIN q.data[Home(q, name)]
    BY <1>3, HomeFacts DEF Combinations
  <2> QED BY <1>3, <2>1, HomeFacts, ValueFacts
<1>4. True(q, f, c) <=> \/ c.op = "isnull" /\ v = Null
                        \/ c.op = "isnotnull" /\ v # Null
                        \/ c.op \in Comparisons /\ v # Null /\ r # Null /\ Compares(c.op, v, r)
  BY DEF True
<1>5. /\ x \in D \/ x = t
      /\ c.rhs.type = "col" => y \in D \/ y = t
      /\ ~ (x \in D /\ (c.rhs.type = "col" => y \in D))
  BY DEF Done
<1>6. \A z \in Ints : Const(z).type # "col" /\ Const(z).val = z
  BY ConstFacts
<1>7. v \in Ints /\ (c.rhs.type = "col" => w \in Ints)
  BY <1>2, <1>3
<1>8. CASE x \in D
  <2>1. c.rhs.type = "col" /\ y = t /\ c.op \in Comparisons
    BY <1>2, <1>5, <1>8
  <2>2. q.data[x][of[x]][c.col] = v
    BY <1>1, <1>8
  <2>3. b.col = c.rhs.col /\ b.op = Flipped(c.op) /\ b.rhs = Const(v)
    <3>1. b.col = c.rhs.col /\ b.op = Flipped(c.op) /\ b.rhs = Const(q.data[x][of[x]][c.col])
      <4>1. x = Home(q, c.table) /\ y = Home(q, c.rhs.table)
        OBVIOUS
      <4> HIDE DEF v, w, x, y, r
      <4> QED BY <1>8, <4>1, BoundFacts
    <3> HIDE DEF v, x
    <3> QED BY <2>2, <3>1
  <2>4. w = q.data[t][f[t]][b.col]
    BY <2>1, <2>3
  <2>5. v \in Ints /\ w \in Ints /\ r = w
    BY <1>7, <2>1
  <2> HIDE DEF v, w, r
  <2>6. b.rhs.type # "col" /\ b.rhs.val = v /\ b.op \in Comparisons
    BY <1>6, <2>1, <2>3, <2>5, FlippedFacts
  <2>7. Holds(q.data[t][f[t]], b) <=> w # Null /\ v # Null /\ Compares(b.op, w, v)
    BY <1>2, <2>4, <2>6 DEF Holds
  <2>8. True(q, f, c) <=> v # Null /\ w # Null /\ Compares(c.op, v, w)
    BY <1>2, <1>4, <2>1, <2>5
  <2>9. v # Null /\ w # Null => (Compares(b.op, w, v) <=> Compares(c.op, v, w))
    BY <2>1, <2>3, <2>5, FlippedFacts DEF Ints
  <2> QED BY <2>7, <2>8, <2>9
<1>9. CASE x \notin D /\ c.rhs.type = "col" /\ y \in D
  <2>1. x = t /\ c.op \in Comparisons
    BY <1>2, <1>5, <1>9
  <2>2. q.data[y][of[y]][c.rhs.col] = w
    BY <1>1, <1>9
  <2>3. b.col = c.col /\ b.op = c.op /\ b.rhs = Const(w)
    <3>1. b.col = c.col /\ b.op = c.op /\ b.rhs = Const(q.data[y][of[y]][c.rhs.col])
      <4>1. x = Home(q, c.table) /\ y = Home(q, c.rhs.table)
        OBVIOUS
      <4> HIDE DEF v, w, x, y, r
      <4>2. b = [c EXCEPT !.rhs = Const(q.data[y][of[y]][c.rhs.col])]
        BY <1>1, <1>9, <4>1 DEF Bound
      <4>3. c \in Conditions
        BY ConditionFacts
      <4>4. c = [table |-> c.table, col |-> c.col, op |-> c.op, rhs |-> c.rhs]
        BY <4>3 DEF Conditions
      <4> QED BY <4>2, <4>4
    <3> HIDE DEF w, y
    <3> QED BY <2>2, <3>1
  <2>4. v = q.data[t][f[t]][b.col]
    BY <2>1, <2>3
  <2>5. w \in Ints /\ r = w
    BY <1>7, <1>9
  <2> HIDE DEF v, w, r
  <2>6. b.rhs.type # "col" /\ b.rhs.val = w
    BY <1>6, <2>3, <2>5
  <2> QED BY <1>4, <2>3, <2>4, <2>5, <2>6 DEF Holds
<1>10. CASE x \notin D /\ ~ (c.rhs.type = "col" /\ y \in D)
  <2>1. b = c /\ x = t /\ (c.rhs.type = "col" => y = t)
    BY <1>1, <1>5, <1>10 DEF Bound
  <2>2. v = q.data[t][f[t]][c.col] /\ (c.rhs.type = "col" => w = q.data[t][f[t]][c.rhs.col])
    BY <2>1
  <2> HIDE DEF v, w
  <2> QED BY <1>4, <2>1, <2>2 DEF Holds
<1> QED BY <1>8, <1>9, <1>10

(* In a clause the code understands, what a condition has become is still   *)
(* on a column of its own, and compares with no NULL.                       *)
LEMMA BoundSimple ==
  ASSUME NEW q \in Queries, NEW c \in ToSet(q.where),
         NEW D \in SUBSET ToSet(q.from),
         NEW of \in Partial(q, D), ~ Done(q, c, D), NEW b, b = Bound(q, c, of)
  PROVE  /\ <<Home(q, b.table), b.col>> \in Touched(q, c)
         /\ Simple(q, q.where) /\ b.rhs.type = "NULL" => b.op \in {"isnull", "isnotnull"}
<1> DEFINE x == Home(q, c.table)
           y == Home(q, c.rhs.table)
<1>1. /\ Exists(q, c.table, c.col)
      /\ c.rhs.type = "col" => Exists(q, c.rhs.table, c.rhs.col) /\ c.op \in Comparisons
  BY ConditionFacts
<1>2. ~ (x \in D /\ (c.rhs.type = "col" => y \in D))
  BY DEF Done
<1>3. \A e \in D : of[e] \in DOMAIN q.data[e]
  BY DEF Partial
<1>4. ASSUME c.rhs.type = "col", x # y PROVE c.rhs.table = y
  <2>1. x \in ToSet(q.from) /\ y \in ToSet(q.from)
    BY <1>1, <1>4, HomeFacts
  <2>2. Len(q.from) # 1
    <3>1. SUFFICES ASSUME Len(q.from) = 1 PROVE FALSE
      OBVIOUS
    <3>2. ToSet(q.from) = {q.from[1]}
      BY <3>1, QueryFacts
    <3> HIDE DEF x, y
    <3> QED BY <1>4, <2>1, <3>2
  <2> QED BY <1>1, <1>4, <2>2, HomeFacts
<1>5. \A v \in Ints : Const(v).type = "NULL" <=> v = Null
  BY ConstFacts
<1>6. ASSUME Simple(q, q.where)
      PROVE  /\ c.rhs.type = "NULL" => c.op \in {"isnull", "isnotnull"}
             /\ IsJoin(q, c) => \A p \in Touched(q, c) :
                                  \A n \in DOMAIN q.data[p[1]] : q.data[p[1]][n][p[2]] # Null
  <2>1. PICK k \in DOMAIN q.where : c = q.where[k]
    BY DEF ToSet
  <2> QED BY <1>6, <2>1 DEF Simple
<1>7. CASE x \in D
  <2>1. /\ b.table = c.rhs.table /\ b.col = c.rhs.col /\ q.data[x][of[x]][c.col] \in Ints
        /\ c.rhs.type = "col" /\ y \notin D /\ b.rhs = Const(q.data[x][of[x]][c.col])
    BY <1>2, <1>7, BoundFacts
  <2>2. IsJoin(q, c) /\ c.rhs.table = y
    BY <1>4, <1>7, <2>1 DEF IsJoin
  <2>3. /\ <<Home(q, b.table), b.col>> \in Touched(q, c)
        /\ <<x, c.col>> \in Touched(q, c)
    BY <2>1, <2>2 DEF Touched
  <2>4. Simple(q, q.where) => b.rhs.type # "NULL"
    <3>1. SUFFICES ASSUME Simple(q, q.where) PROVE q.data[x][of[x]][c.col] # Null
      BY <1>5, <2>1
    <3> DEFINE p == <<x, c.col>>
    <3>2. p[1] = x /\ p[2] = c.col /\ p \in Touched(q, c)
      BY <2>3
    <3> HIDE DEF p, x
    <3> QED BY <1>3, <1>6, <1>7, <2>2, <3>1, <3>2
  <2> QED BY <2>3, <2>4
<1>8. CASE x \notin D /\ c.rhs.type = "col" /\ y \in D
  <2>1. /\ b.table = c.table /\ b.col = c.col /\ q.data[y][of[y]][c.rhs.col] \in Ints
        /\ b.rhs = Const(q.data[y][of[y]][c.rhs.col])
    <3>1. q.data[y][of[y]][c.rhs.col] \in Ints
      BY <1>1, <1>8, ChosenValue
    <3>2. b.table = c.table /\ b.col = c.col /\ b.rhs = Const(q.data[y][of[y]][c.rhs.col])
      BY <1>8, BoundFacts
    <3> QED BY <3>1, <3>2
  <2>2. IsJoin(q, c) /\ c.rhs.table = y
    BY <1>4, <1>8, <2>1 DEF IsJoin
  <2>3. /\ <<Home(q, b.table), b.col>> \in Touched(q, c)
        /\ <<y, c.rhs.col>> \in Touched(q, c)
    BY <2>1, <2>2 DEF Touched
  <2>4. Simple(q, q.where) => b.rhs.type # "NULL"
    <3>1. SUFFICES ASSUME Simple(q, q.where) PROVE q.data[y][of[y]][c.rhs.col] # Null
      BY <1>5, <2>1
    <3> DEFINE p == <<y, c.rhs.col>>
    <3>2. p[1] = y /\ p[2] = c.rhs.col /\ p \in Touched(q, c)
      BY <2>3
    <3> HIDE DEF p, y
    <3> QED BY <1>3, <1>6, <1>8, <2>2, <3>1, <3>2
  <2> QED BY <2>3, <2>4
<1>9. CASE x \notin D /\ ~ (c.rhs.type = "col" /\ y \in D)
  <2>1. b = c
    BY <1>9, BoundFacts
  <2> QED BY <1>6, <2>1 DEF Touched
<1> QED BY <1>7, <1>8, <1>9

(* The last condition on each column is enough if there is but one.         *)
LEMMA CheckerFacts ==
  ASSUME NEW t, NEW w \in Seq(Conditions), NEW item
  PROVE  /\ (\A j \in DOMAIN w : Applies(t, w[j]) => Passes(item, w[j])) => Checker(t, w, item)
         /\ \A j \in DOMAIN w :
              /\ Checker(t, w, item) /\ Applies(t, w[j]) /\ w[j].col \in 1 .. ColsOf[t]
              /\ \A k \in DOMAIN w : Applies(t, w[k]) /\ w[k].col = w[j].col => k = j
              => Passes(item, w[j])
<1> DEFINE On(col) == {i \in DOMAIN w : Applies(t, w[i]) /\ w[i].col = col}
<1>1. Len(w) \in Nat /\ DOMAIN w = 1 .. Len(w)
  OBVIOUS
<1>2. ASSUME NEW col, On(col) # {} PROVE Max(On(col)) \in On(col)
  <2>1. On(col) \in SUBSET (1 .. Len(w))
    BY <1>1
  <2> HIDE DEF On
  <2> QED BY <1>1, <1>2, <2>1, MaxIsGreatest
<1>3. Checker(t, w, item) <=> \A col \in 1 .. ColsOf[t] : On(col) # {} => Passes(item, w[Max(On(col))])
  BY DEF Checker
<1>4. ASSUME \A j \in DOMAIN w : Applies(t, w[j]) => Passes(item, w[j])
      PROVE  Checker(t, w, item)
  <2>1. ASSUME NEW col, On(col) # {} PROVE Passes(item, w[Max(On(col))])
    <3>1. Max(On(col)) \in On(col)
      BY <1>2, <2>1
    <3>2. \A i \in On(col) : i \in DOMAIN w /\ Applies(t, w[i])
      OBVIOUS
    <3> HIDE DEF On
    <3> QED BY <1>4, <3>1, <3>2
  <2> HIDE DEF On
  <2> QED BY <1>3, <2>1
<1>5. ASSUME NEW j \in DOMAIN w, Checker(t, w, item), Applies(t, w[j]), w[j].col \in 1 .. ColsOf[t],
             \A k \in DOMAIN w : Applies(t, w[k]) /\ w[k].col = w[j].col => k = j
      PROVE  Passes(item, w[j])
  <2> DEFINE on == On(w[j].col)
  <2>1. on = {j}
    BY <1>5
  <2>2. Max(on) = j
    <3>1. Max(on) \in on
      <4>1. on # {}
        BY <2>1
      <4> HIDE DEF On
      <4> QED BY <1>2, <4>1
    <3> HIDE DEF on
    <3> QED BY <2>1, <3>1
  <2> HIDE DEF On
  <2> QED BY <1>3, <1>5, <2>1, <2>2
<1> QED BY <1>4, <1>5

(* A call of dfs, with the rows of for the tables D, chooses table t and    *)
(* lists its rows.                                                          *)
Chooses(q, D, of, w, next, t, list) ==
  /\ D \in SUBSET ToSet(q.from) /\ D # ToSet(q.from) /\ of \in Partial(q, D)
  /\ w = Conds(q, of) /\ next = NextTable(q, w, TablesLeft(q, D))
  /\ t = next.table /\ list = Selected(q, w, next)

(* What it will go through: the rows of one more table.                     *)
LEMMA SelectedFacts ==
  ASSUME NEW q \in Queries, NEW D, NEW of, NEW w, NEW next, NEW t, NEW list,
         Chooses(q, D, of, w, next, t, list)
  PROVE  /\ t \in ToSet(q.from) \ D
         /\ list \in Seq(DOMAIN q.data[t]) /\ IsInjective(list)
         /\ Named(q) => ~ NoThisColumn(t, w)
         /\ Named(q) => \A f \in Meaning(q) : Agrees(f, of) => f[t] \in ToSet(list)
         /\ Plain(q) => \A f \in Combinations(q) : Agrees(f, of) /\ f[t] \in ToSet(list) =>
              \A c \in ToSet(q.where) : ~ Done(q, c, D) /\ Done(q, c, D \cup {t}) => True(q, f, c)
<1> USE DEF Chooses
<1> DEFINE tables == TablesLeft(q, D)
           rows == q.data[t]
           Selects1(i) == /\ next.col # 0 => next.val # Null /\ rows[i][next.col] = next.val
                          /\ Checker(t, w, rows[i])
           S == {i \in DOMAIN rows : Selects1(i)}
<1>1. /\ tables \in Seq(Tables) /\ ToSet(tables) = ToSet(q.from) \ D
      /\ DOMAIN tables = 1 .. Len(tables) /\ Len(tables) \in Nat
  BY TablesFacts
<1>2. tables # <<>>
  <2>1. PICK e \in ToSet(q.from) : e \notin D
    OBVIOUS
  <2>2. e \in ToSet(tables)
    BY <1>1, <2>1
  <2> QED BY <2>2 DEF ToSet
<1>3. w \in Seq(Conditions) /\ DOMAIN w = 1 .. Len(w)
  BY CondsFacts
<1>4. PICK place \in [DOMAIN w -> OpenAt(q, D)] :
        /\ IsInjective(place)
        /\ \A i \in OpenAt(q, D) : \E j \in DOMAIN w : place[j] = i
        /\ \A j \in DOMAIN w : w[j] = Bound(q, q.where[place[j]], of)
  BY CondsFacts
<1>5. \A j \in DOMAIN w : /\ place[j] \in DOMAIN q.where /\ ~ Done(q, q.where[place[j]], D)
                          /\ q.where[place[j]] \in ToSet(q.where)
  BY <1>4 DEF OpenAt, ToSet
<1> HIDE DEF tables
<1>6. /\ t \in ToSet(tables)
      /\ next.col # 0 => \E j \in DOMAIN w :
           /\ w[j].op = "=" /\ w[j].rhs.type # "col" /\ TableOf(w[j].table, Head(tables)) = t
           /\ w[j].col = next.col /\ w[j].rhs.val = next.val
  <2>1. next = NextTable(q, w, tables)
    BY DEF tables
  <2>2. GoesOn(w, tables, next)
    <3>1. tables \in Seq(Tables)
      BY <1>1
    <3>2. w \in Seq(Conditions)
      BY <1>3
    <3> HIDE DEF Chooses
    <3> QED BY <1>2, <2>1, <3>1, <3>2, NextFacts
  <2> QED BY <2>2 DEF GoesOn
<1>7. t \in ToSet(q.from) \ D /\ t \in Tables
  BY <1>1, <1>6, QueryFacts
<1>8. /\ rows \in Seq([1 .. ColsOf[t] -> Ints]) /\ DOMAIN rows \in SUBSET Nat /\ IsFiniteSet(DOMAIN rows)
  <2>1. rows \in Seq([1 .. ColsOf[t] -> Ints])
    BY <1>7, QueriesAssumption
  <2> DEFINE n == Len(rows)
  <2>2. n \in Nat /\ DOMAIN rows = 1 .. n
    BY <2>1
  <2> HIDE DEF n, rows
  <2>3. IsFiniteSet(1 .. n)
    BY <2>2, FS_Interval
  <2> QED BY <2>1, <2>2, <2>3
<1>9. list = Ordered(S)
  BY DEF Selected
<1>10. S \in SUBSET Nat /\ IsFiniteSet(S) /\ S \subseteq DOMAIN rows
  <2>1. S \subseteq DOMAIN rows
    OBVIOUS
  <2> HIDE DEF S
  <2>2. IsFiniteSet(S)
    BY <1>8, <2>1, FS_Subset
  <2> QED BY <1>8, <2>1, <2>2
<1>11. \A i : i \in S <=> i \in DOMAIN rows /\ Selects1(i)
  OBVIOUS
<1> HIDE DEF S, Selects1
<1>12. list \in Seq(S) /\ IsInjective(list) /\ ToSet(list) = S
  BY <1>9, <1>10, OrderedFacts
<1>13. list \in Seq(DOMAIN rows)
  <2> DEFINE R == DOMAIN rows
  <2>1. S \subseteq R
    BY <1>10
  <2> HIDE DEF R, rows
  <2>2. list \in Seq(R)
    BY <1>12, <2>1
  <2> QED BY <2>2 DEF R
<1>14. ASSUME Named(q) PROVE ~ NoThisColumn(t, w)
  <2> SUFFICES ASSUME NEW j \in DOMAIN w, Applies(t, w[j]),
                      w[j].col > ColsOf[t] \/ (w[j].rhs.type = "col" /\ w[j].rhs.col > ColsOf[t])
               PROVE  FALSE
    BY DEF NoThisColumn, ToSet
  <2> DEFINE c == q.where[place[j]]
             b == w[j]
  <2>1. c \in ToSet(q.where) /\ ~ Done(q, c, D) /\ b = Bound(q, c, of)
    BY <1>4, <1>5
  <2> HIDE DEF c, b
  <2>2. Done(q, c, D \cup {t})
    BY <1>7, <1>14, <2>1, AppliesIfDone DEF b
  <2>3. /\ Home(q, b.table) = t /\ (b.rhs.type = "col" => Home(q, b.rhs.table) = t)
        /\ Exists(q, b.table, b.col) /\ (b.rhs.type = "col" => Exists(q, b.rhs.table, b.rhs.col))
    BY <1>7, <2>1, <2>2, BoundNames
  <2>4. /\ b.col \in 1 .. ColsOf[t] /\ ColsOf[t] \in Nat
        /\ b.rhs.type = "col" => b.rhs.col \in 1 .. ColsOf[t]
    BY <2>3, HomeFacts
  <2>5. b.col > ColsOf[t] \/ (b.rhs.type = "col" /\ b.rhs.col > ColsOf[t])
    BY DEF b
  <2> QED BY <2>4, <2>5
<1>15. ASSUME Named(q), NEW f \in Meaning(q), Agrees(f, of) PROVE f[t] \in S
  <2>1. f \in Combinations(q) /\ \A c \in ToSet(q.where) : True(q, f, c)
    BY DEF Meaning
  <2>2. f[t] \in DOMAIN rows
    BY <1>7, <2>1 DEF Combinations
  <2>3. ASSUME NEW j \in DOMAIN w, Done(q, q.where[place[j]], D \cup {t}) PROVE Holds(rows[f[t]], w[j])
    <3> DEFINE c == q.where[place[j]]
    <3>1. /\ c \in ToSet(q.where) /\ ~ Done(q, c, D) /\ w[j] = Bound(q, c, of)
          /\ Done(q, c, D \cup {t}) /\ True(q, f, c)
      BY <1>4, <1>5, <2>1, <2>3
    <3> HIDE DEF c
    <3> QED BY <1>7, <1>15, <2>1, <3>1, BoundHolds
  <2>4. \A j \in DOMAIN w : Applies(t, w[j]) => Passes(rows[f[t]], w[j])
    <3> TAKE j \in DOMAIN w
    <3> SUFFICES ASSUME Applies(t, w[j]) PROVE Passes(rows[f[t]], w[j])
      OBVIOUS
    <3>1. Done(q, q.where[place[j]], D \cup {t})
      BY <1>4, <1>5, <1>7, <1>15, AppliesIfDone
    <3> QED BY <2>3, <3>1, PassesIfHolds
  <2>5. Checker(t, w, rows[f[t]])
    BY <1>3, <2>4, CheckerFacts
  <2>6. ASSUME next.col # 0 PROVE next.val # Null /\ rows[f[t]][next.col] = next.val
    <3>1. PICK j \in DOMAIN w :
            /\ w[j].op = "=" /\ w[j].rhs.type # "col" /\ TableOf(w[j].table, Head(tables)) = t
            /\ w[j].col = next.col /\ w[j].rhs.val = next.val
      BY <1>6, <2>6
    <3> DEFINE c == q.where[place[j]]
               b == w[j]
    <3>2. c \in ToSet(q.where) /\ ~ Done(q, c, D) /\ b = Bound(q, c, of)
      BY <1>4, <1>5
    <3>3. b.op = "=" /\ b.rhs.type # "col" /\ TableOf(b.table, Head(tables)) = t
      BY <3>1
    <3> HIDE DEF c, b
    <3>4. Home(q, b.table) = t
      <4>1. Exists(q, b.table, b.col)
        BY <3>2, BoundNames
      <4>2. CASE b.table = NoName
        <5>1. Home(q, b.table) = q.from[1] /\ Len(q.from) = 1
          BY <4>1, <4>2, HomeFacts
        <5>2. t = q.from[1]
          BY <1>7, <5>1, QueryFacts
        <5> QED BY <5>1, <5>2
      <4>3. CASE b.table # NoName
        BY <3>3, <4>1, <4>3, HomeFacts DEF TableOf
      <4> QED BY <4>2, <4>3
    <3>5. Done(q, c, D \cup {t})
      BY <1>7, <3>2, <3>3, <3>4, BoundNames
    <3>6. Holds(rows[f[t]], b)
      BY <2>3, <3>5 DEF b, c
    <3>7. b.rhs.val # Null /\ rows[f[t]][b.col] # Null /\ Compares("=", rows[f[t]][b.col], b.rhs.val)
      BY <3>3, <3>6 DEF Holds
    <3>8. rows[f[t]][b.col] = b.rhs.val
      BY <3>7 DEF Compares
    <3> QED BY <3>1, <3>7, <3>8 DEF b
  <2> QED BY <1>11, <2>2, <2>5, <2>6 DEF Selects1
<1>16. ASSUME Plain(q), NEW f \in Combinations(q), Agrees(f, of), f[t] \in S,
              NEW c \in ToSet(q.where), ~ Done(q, c, D), Done(q, c, D \cup {t})
       PROVE  True(q, f, c)
  <2>1. Named(q) /\ Simple(q, q.where)
    BY <1>16 DEF Plain
  <2>2. PICK k \in DOMAIN q.where : q.where[k] = c
    BY DEF ToSet
  <2>3. PICK j \in DOMAIN w : place[j] = k
    BY <1>4, <1>16, <2>2 DEF OpenAt
  <2> DEFINE b == w[j]
  <2>4. b = Bound(q, c, of)
    BY <1>4, <2>2, <2>3
  <2>5. Applies(t, b)
    BY <1>7, <1>16, <2>4, AppliesIfDone
  <2>6. b.col \in 1 .. ColsOf[t] /\ Home(q, b.table) = t
    <3>1. Home(q, b.table) = t /\ Exists(q, b.table, b.col)
      BY <1>7, <1>16, <2>4, BoundNames
    <3> QED BY <3>1, HomeFacts
  <2>7. ASSUME NEW i \in DOMAIN w, Applies(t, w[i]), w[i].col = w[j].col PROVE i = j
    <3> DEFINE d == q.where[place[i]]
    <3>1. d \in ToSet(q.where) /\ ~ Done(q, d, D) /\ w[i] = Bound(q, d, of) /\ place[i] \in DOMAIN q.where
      BY <1>4, <1>5
    <3>2. Done(q, d, D \cup {t})
      BY <1>7, <2>1, <2>7, <3>1, AppliesIfDone
    <3>3. Home(q, w[i].table) = t
      BY <1>7, <3>1, <3>2, BoundNames
    <3>4. <<t, b.col>> \in Touched(q, d)
      BY <2>7, <3>1, <3>3, BoundSimple
    <3>5. <<t, b.col>> \in Touched(q, c)
      BY <1>16, <2>2, <2>4, <2>6, BoundSimple
    <3>6. place[i] = k
      <4>1. Touched(q, q.where[place[i]]) \cap Touched(q, q.where[k]) # {}
        BY <2>2, <3>4, <3>5
      <4> QED BY <2>1, <3>1, <4>1 DEF Simple
    <3> QED BY <1>4, <2>3, <3>6 DEF IsInjective
  <2>8. Checker(t, w, rows[f[t]])
    BY <1>11, <1>16 DEF Selects1
  <2>9. Passes(rows[f[t]], b)
    BY <1>3, <2>5, <2>6, <2>7, <2>8, CheckerFacts
  <2>10. b.rhs.type = "NULL" => b.op \in {"isnull", "isnotnull"}
    BY <1>16, <2>1, <2>2, <2>4, BoundSimple
  <2>11. Holds(rows[f[t]], b)
    BY <2>9, <2>10, PassesIfHolds
  <2> QED BY <1>7, <1>16, <2>4, <2>11, BoundHolds
<1> QED BY <1>7, <1>12, <1>13, <1>14, <1>15, <1>16

-----------------------------------------------------------------------------
(* Labels *)

(* Names of columns, with or without a table.                               *)
Names == [table : Tables \cup {NoName}, col : Nat]

(* A row of a table has a value for each label, from the first on.          *)
LEMMA LabelsOfFacts ==
  ASSUME NEW q \in Queries, NEW t \in ToSet(q.from), NEW i \in DOMAIN q.data[t],
         NEW item, item = q.data[t][i], NEW l, l = LabelsOf(q, t), NEW v, v = Values(q, t, item)
  PROVE  /\ l \in Seq(Names) /\ v \in Seq(Ints) /\ Len(v) = Len(l)
         /\ \A n \in 1 .. Len(l) : /\ Home(q, l[n].table) = t /\ v[n] = item[n]
                                   /\ FirstColumns(q) => l[n].col = n
<1> DEFINE m == ColsOf[t]
<1>1. /\ t \in Tables /\ t # NoName /\ m \in Nat
      /\ item \in [1 .. m -> Ints] /\ item \in Seq(Ints) /\ Len(item) = m
  <2>1. t \in Tables /\ t # NoName
    BY QueryFacts, NamesAssumption
  <2>2. item \in [1 .. m -> Ints] /\ m \in Nat
    BY <2>1, ValueFacts
  <2> HIDE DEF m
  <2> QED BY <2>1, <2>2
<1> HIDE DEF m
<1>2. CASE q.cols = <<>>
  <2>1. l = [c \in 1 .. m |-> [table |-> t, col |-> c]] /\ v = item
    BY <1>2 DEF LabelsOf, Values, m
  <2>2. \A c \in 1 .. m : l[c] = [table |-> t, col |-> c] /\ l[c] \in Names
    BY <1>1, <2>1 DEF Names
  <2>3. l \in Seq(Names) /\ Len(l) = m
    BY <1>1, <2>1, <2>2
  <2>4. \A c \in 1 .. m : l[c].table = t /\ l[c].col = c
    <3> TAKE c \in 1 .. m
    <3>1. l[c] = [table |-> t, col |-> c]
      BY <2>2
    <3> QED BY <3>1
  <2>5. Home(q, t) = t
    BY <1>1 DEF Home, TableOf
  <2> QED BY <1>1, <2>1, <2>3, <2>4, <2>5
<1>3. CASE q.cols # <<>>
  <2> DEFINE K == {n \in DOMAIN q.cols : Home(q, q.cols[n].table) = t}
  <2>1. /\ q.cols \in Seq(Names)
        /\ \A n \in DOMAIN q.cols : Exists(q, q.cols[n].table, q.cols[n].col)
    BY QueriesAssumption DEF Names
  <2>2. ASSUME NEW n \in DOMAIN q.cols
        PROVE  Home(q, q.cols[n].table) = t <=> TableOf(q.cols[n].table, t) = t
    <3> DEFINE name == q.cols[n].table
    <3>1. Exists(q, name, q.cols[n].col)
      BY <2>1
    <3> HIDE DEF name
    <3>2. CASE name = NoName
      <4>1. Home(q, name) = q.from[1] /\ Len(q.from) = 1
        BY <3>1, <3>2, HomeFacts
      <4>2. t = q.from[1]
        BY <4>1, QueryFacts
      <4> QED BY <3>2, <4>1, <4>2 DEF TableOf, name
    <3>3. CASE name # NoName
      BY <3>1, <3>3, HomeFacts DEF TableOf, name
    <3> QED BY <3>2, <3>3
  <2>3. Chosen(q, t) = K
    BY <2>2 DEF Chosen
  <2>4. /\ l = ElementsAt(q.cols, K) /\ v = SubSeq(item, 1, Cardinality(K))
        /\ Cardinality(K) <= m
    <3>1. Cardinality(Chosen(q, t)) <= ColsOf[t]
      BY QueriesAssumption
    <3> QED BY <1>3, <2>3, <3>1 DEF LabelsOf, Values, m
  <2>5. /\ l \in Seq(Names) /\ Len(l) = Cardinality(K) /\ Cardinality(K) \in Nat
        /\ ToSet(l) = {q.cols[k] : k \in K}
    <3>1. K \in SUBSET DOMAIN q.cols
      OBVIOUS
    <3> HIDE DEF K
    <3> QED BY <2>1, <2>4, <3>1, ElementsAtFacts
  <2>6. ASSUME NEW n \in 1 .. Len(l)
        PROVE  Home(q, l[n].table) = t /\ (FirstColumns(q) => l[n].col = n)
    <3>1. DOMAIN l = 1 .. Len(l)
      BY <2>5
    <3>2. l[n] \in ToSet(l)
      BY <3>1 DEF ToSet
    <3>3. PICK k \in K : l[n] = q.cols[k]
      BY <2>5, <3>2
    <3>4. Home(q, l[n].table) = t
      BY <3>3
    <3> QED BY <3>1, <3>4 DEF FirstColumns
  <2> DEFINE j == Len(l)
  <2>7. j \in Nat /\ j <= m /\ v = SubSeq(item, 1, j)
    BY <2>4, <2>5
  <2>8. v \in Seq(Ints) /\ Len(v) = j /\ \A n \in 1 .. j : v[n] = item[n]
    <3> HIDE DEF j, K
    <3> QED BY <1>1, <2>7
  <2> QED BY <2>5, <2>6, <2>8
<1> QED BY <1>2, <1>3

(* A row fits the labels of one table more when that table's are added.     *)
LEMMA FitsMerged ==
  ASSUME NEW q \in Queries, NEW D \in SUBSET ToSet(q.from), NEW row, row.of \in Partial(q, D),
         NEW labels \in Seq(Names), Fits(q, row, labels),
         NEW t \in ToSet(q.from) \ D, NEW i \in DOMAIN q.data[t]
  PROVE  Fits(q, Merged(q, row, t, i), labels \o LabelsOf(q, t))
<1> DEFINE item == q.data[t][i]
           v == Values(q, t, item)
           l == LabelsOf(q, t)
           r == Merged(q, row, t, i)
           a == row.values
           both == labels \o l
<1>1. DOMAIN row.of = D
  BY DEF Partial
<1>2. /\ r.values = a \o v /\ DOMAIN r.of = D \cup {t} /\ r.of[t] = i
      /\ \A u \in D : r.of[u] = row.of[u]
  BY <1>1 DEF Merged
<1>3. /\ l \in Seq(Names) /\ v \in Seq(Ints) /\ Len(v) = Len(l)
      /\ \A n \in 1 .. Len(l) : /\ Home(q, l[n].table) = t /\ v[n] = item[n]
                                /\ FirstColumns(q) => l[n].col = n
  BY LabelsOfFacts
<1>4. /\ a \in Seq(Ints) /\ Len(a) = Len(labels)
      /\ \A n \in 1 .. Len(labels) :
           /\ Home(q, labels[n].table) \in D
           /\ a[n] = q.data[Home(q, labels[n].table)][row.of[Home(q, labels[n].table)]][PlaceOf(q, labels, n)]
           /\ FirstColumns(q) => labels[n].col = PlaceOf(q, labels, n)
  <2>1. DOMAIN labels = 1 .. Len(labels)
    OBVIOUS
  <2> QED BY <1>1, <2>1 DEF Fits
<1> DEFINE m == Len(labels)
           k == Len(l)
<1>5. m \in Nat /\ k \in Nat
  BY <1>3
<1> HIDE DEF v, l, a, r
<1>6. /\ a \o v \in Seq(Ints) /\ Len(a \o v) = m + k /\ Len(both) = m + k /\ DOMAIN both = 1 .. m + k
      /\ \A n \in 1 .. m + k : (a \o v)[n] = IF n <= m THEN a[n] ELSE v[n - m]
      /\ \A n \in 1 .. m + k : both[n] = IF n <= m THEN labels[n] ELSE l[n - m]
  <2>1. /\ a \o v \in Seq(Ints) /\ Len(a \o v) = m + k
        /\ \A n \in 1 .. m + k : (a \o v)[n] = IF n <= m THEN a[n] ELSE v[n - m]
    <3>1. a \in Seq(Ints) /\ v \in Seq(Ints) /\ Len(a) = m /\ Len(v) = k
      BY <1>3, <1>4 DEF m, k
    <3>2. /\ a \o v \in Seq(Ints) /\ Len(a \o v) = Len(a) + Len(v)
          /\ \A n \in 1 .. Len(a) + Len(v) : (a \o v)[n] = IF n <= Len(a) THEN a[n] ELSE v[n - Len(a)]
      BY <3>1, ConcatProperties, ZenonT(40)
    <3> HIDE DEF m, k
    <3> QED BY <3>1, <3>2
  <2>2. /\ Len(both) = m + k /\ DOMAIN both = 1 .. m + k
        /\ \A n \in 1 .. m + k : both[n] = IF n <= m THEN labels[n] ELSE l[n - m]
    <3>1. labels \in Seq(Names) /\ l \in Seq(Names) /\ Len(labels) = m /\ Len(l) = k
      BY <1>3 DEF m, k
    <3>2. /\ both \in Seq(Names) /\ Len(both) = m + k
          /\ \A n \in 1 .. m + k : both[n] = IF n <= m THEN labels[n] ELSE l[n - m]
      BY <3>1, ConcatProperties
    <3>3. DOMAIN both = 1 .. Len(both)
      BY <3>2
    <3> HIDE DEF m, k, both
    <3> QED BY <3>2, <3>3
  <2> QED BY <2>1, <2>2
<1>12. \A n \in 1 .. k : /\ Home(q, l[n].table) = t /\ v[n] = item[n]
                         /\ FirstColumns(q) => l[n].col = n
  BY <1>3
<1>14. \A n \in 1 .. m :
         /\ Home(q, labels[n].table) \in D
         /\ a[n] = q.data[Home(q, labels[n].table)][row.of[Home(q, labels[n].table)]][PlaceOf(q, labels, n)]
         /\ FirstColumns(q) => labels[n].col = PlaceOf(q, labels, n)
  BY <1>4
<1> HIDE DEF both, m, k
<1>10. ASSUME NEW n \in 1 .. m
      PROVE  PlaceOf(q, both, n) = PlaceOf(q, labels, n)
  <2>1. /\ n <= m /\ n \in 1 .. m + k
        /\ \A x \in 1 .. n : x <= m /\ x \in 1 .. m + k
    BY <1>5
  <2>2. \A x \in 1 .. n : both[x] = labels[x]
    BY <1>6, <2>1
  <2>3. n \in 1 .. n /\ both[n] = labels[n]
    BY <1>6, <2>1
  <2>4. {x \in 1 .. n : Home(q, both[x].table) = Home(q, both[n].table)}
          = {x \in 1 .. n : Home(q, labels[x].table) = Home(q, labels[n].table)}
    BY <2>2, <2>3
  <2> QED BY <2>4 DEF PlaceOf
<1>13. ASSUME NEW n \in 1 .. m + k, ~ (n <= m)
       PROVE  /\ n - m \in 1 .. k /\ both[n] = l[n - m] /\ Home(q, both[n].table) = t
              /\ r.values[n] = item[n - m]
              /\ FirstColumns(q) => both[n].col = n - m
  <2>1. n - m \in 1 .. k
    BY <1>5, <1>13
  <2>2. both[n] = l[n - m] /\ r.values[n] = v[n - m]
    BY <1>2, <1>6, <1>13
  <2>3. /\ Home(q, l[n - m].table) = t /\ v[n - m] = item[n - m]
        /\ FirstColumns(q) => l[n - m].col = n - m
    BY <1>12, <2>1
  <2> QED BY <2>1, <2>2, <2>3
<1>11. ASSUME NEW n \in 1 .. k
      PROVE  PlaceOf(q, both, m + n) = n
  <2>1. m + n \in 1 .. m + k /\ ~ (m + n <= m) /\ (m + n) - m = n
    BY <1>5
  <2>2. Home(q, both[m + n].table) = t
    BY <1>13, <2>1
  <2>3. ASSUME NEW x \in 1 .. m + n
        PROVE  Home(q, both[x].table) = t <=> x \in m + 1 .. m + n
    <3>1. CASE x <= m
      <4>1. x \in 1 .. m /\ x \in 1 .. m + k /\ x \notin m + 1 .. m + n
        BY <1>5, <3>1
      <4>2. Home(q, both[x].table) \in D
        BY <1>14, <1>6, <3>1, <4>1
      <4> QED BY <4>1, <4>2
    <3>2. CASE ~ (x <= m)
      <4>1. x - m \in 1 .. k /\ x \in 1 .. m + k /\ x \in m + 1 .. m + n
        BY <1>5, <3>2
      <4>2. Home(q, both[x].table) = t
        BY <1>13, <3>2, <4>1
      <4> QED BY <4>1, <4>2
    <3> QED BY <3>1, <3>2
  <2>4. m + 1 .. m + n \subseteq 1 .. m + n
    BY <1>5
  <2>5. {x \in 1 .. m + n : Home(q, both[x].table) = Home(q, both[m + n].table)} = m + 1 .. m + n
    BY <2>2, <2>3, <2>4
  <2>6. Cardinality(m + 1 .. m + n) = n
    <3>1. m \in Nat /\ n \in Nat /\ n >= 1 /\ m + 1 \in Int /\ m + n \in Int
      BY <1>5
    <3>2. Cardinality(m + 1 .. m + n) = IF m + 1 > m + n THEN 0 ELSE (m + n) - (m + 1) + 1
      BY <3>1, FS_Interval
    <3> QED BY <3>1, <3>2
  <2> QED BY <2>5, <2>6 DEF PlaceOf
<1>7. ASSUME NEW n \in 1 .. m + k
      PROVE  LET u == Home(q, both[n].table)
                 c == PlaceOf(q, both, n)
             IN  /\ u \in DOMAIN r.of /\ r.values[n] = q.data[u][r.of[u]][c]
                 /\ FirstColumns(q) => both[n].col = c
  <2>1. CASE n <= m
    <3> DEFINE u == Home(q, both[n].table)
               c == PlaceOf(q, both, n)
    <3>1. n \in 1 .. m /\ both[n] = labels[n] /\ r.values[n] = a[n]
      BY <1>2, <1>5, <1>6, <2>1
    <3>2. c = PlaceOf(q, labels, n)
      BY <1>10, <3>1
    <3> HIDE DEF c
    <3>3. /\ u \in D /\ r.values[n] = q.data[u][row.of[u]][c]
          /\ FirstColumns(q) => both[n].col = c
      BY <1>14, <3>1, <3>2
    <3> HIDE DEF u
    <3>4. /\ u \in DOMAIN r.of /\ r.values[n] = q.data[u][r.of[u]][c]
          /\ FirstColumns(q) => both[n].col = c
      BY <1>2, <3>3
    <3> QED BY <3>4 DEF u, c
  <2>2. CASE ~ (n <= m)
    <3>1. n - m \in 1 .. k /\ m + (n - m) = n
      BY <1>5, <2>2
    <3>2. PlaceOf(q, both, n) = n - m
      <4> DEFINE x == n - m
      <4>1. x \in 1 .. k /\ m + x = n
        BY <3>1
      <4> HIDE DEF x
      <4>2. PlaceOf(q, both, m + x) = x
        BY <1>11, <4>1
      <4> QED BY <4>1, <4>2 DEF x
    <3>3. /\ Home(q, both[n].table) = t /\ r.values[n] = item[n - m]
          /\ FirstColumns(q) => both[n].col = n - m
      BY <1>13, <2>2
    <3> QED BY <1>2, <3>2, <3>3
  <2> QED BY <2>1, <2>2
<1>8. r.values \in Seq(Ints) /\ Len(r.values) = Len(both)
  BY <1>2, <1>6
<1>9. Fits(q, r, both)
  <2>1. DOMAIN both = 1 .. m + k
    BY <1>6
  <2> QED BY <1>7, <1>8, <2>1 DEF Fits
<1> QED BY <1>9 DEF r, l, both

(* The labels of the tables taken, one table more at a time.                *)
LEMMA LabelsToFacts ==
  ASSUME NEW q \in Queries, NEW at \in Seq(Tables \cup {NoName}), NEW k \in Nat, k < Len(at),
         \A n \in 1 .. k + 1 : at[Len(at) + 1 - n] \in ToSet(q.from),
         \A t \in ToSet(q.from) : LabelsOf(q, t) \in Seq(Names)
  PROVE  /\ LabelsTo(q, at, k) \in Seq(Names)
         /\ LabelsTo(q, at, k + 1) = LabelsTo(q, at, k) \o LabelsOf(q, at[Len(at) - k])
         /\ k = 0 => LabelsTo(q, at, k) = <<>>
<1> DEFINE tt == [n \in 1 .. k |-> LabelsOf(q, at[Len(at) + 1 - n])]
           ss == [n \in 1 .. k + 1 |-> LabelsOf(q, at[Len(at) + 1 - n])]
<1>1. Len(at) \in Nat /\ \A n \in 1 .. k : n \in 1 .. k + 1
  OBVIOUS
<1>2. ss \in [1 .. k + 1 -> Seq(Names)]
  OBVIOUS
<1>3. tt \in [1 .. k -> Seq(Names)] /\ \A n \in 1 .. k : ss[n] = tt[n]
  BY <1>1
<1>4. ss[k + 1] = LabelsOf(q, at[Len(at) - k])
  <2>1. k + 1 \in 1 .. k + 1 /\ Len(at) + 1 - (k + 1) = Len(at) - k
    BY <1>1
  <2> QED BY <2>1
<1>5. LabelsTo(q, at, k) = FlattenSeq(tt) /\ LabelsTo(q, at, k + 1) = FlattenSeq(ss)
  BY DEF LabelsTo
<1> HIDE DEF tt, ss
<1>6. /\ FlattenSeq(tt) \in Seq(Names)
      /\ FlattenSeq(ss) = FlattenSeq(tt) \o ss[k + 1]
      /\ k = 0 => FlattenSeq(tt) = <<>>
  <2>1. \A n \in 1 .. k : ss[n] = tt[n]
    BY <1>3
  <2>2. tt \in [1 .. k -> Seq(Names)]
    BY <1>3
  <2> QED BY <1>2, <2>1, <2>2, FlattenFacts, ZenonT(40)
<1> QED BY <1>4, <1>5, <1>6

(* They depend on those tables only, and are the labels of the answer when  *)
(* all tables are taken.                                                    *)
LEMMA LabelsToSame ==
  ASSUME NEW q, NEW at, NEW other, NEW k, Len(at) = Len(other),
         \A n \in 1 .. k : at[Len(at) + 1 - n] = other[Len(at) + 1 - n]
  PROVE  LabelsTo(q, at, k) = LabelsTo(q, other, k)
<1>1. [n \in 1 .. k |-> LabelsOf(q, at[Len(at) + 1 - n])]
        = [n \in 1 .. k |-> LabelsOf(q, other[Len(other) + 1 - n])]
  OBVIOUS
<1> QED BY <1>1 DEF LabelsTo

(* All tables taken: the labels of the answer.                              *)
LEMMA LabelsToAll ==
  ASSUME NEW q, NEW S, NEW at \in Seq(S)
  PROVE  Labels(q, at) = LabelsTo(q, at, Len(at))
<1>1. DOMAIN at = 1 .. Len(at)
  OBVIOUS
<1> QED BY <1>1 DEF Labels, LabelsTo

-----------------------------------------------------------------------------
(* The stack and assigned_table *)

(* One element more.                                                        *)
LEMMA AppendFacts ==
  ASSUME NEW s, s \in Seq(ToSet(s)), NEW e
  PROVE  /\ Append(s, e) \in Seq(ToSet(Append(s, e)))
         /\ Len(s) \in Nat /\ Len(Append(s, e)) = Len(s) + 1
         /\ DOMAIN s = 1 .. Len(s) /\ DOMAIN Append(s, e) = 1 .. Len(s) + 1
         /\ \A i \in 1 .. Len(s) : Append(s, e)[i] = s[i]
         /\ Append(s, e)[Len(s) + 1] = e
<1> DEFINE r == Append(s, e)
           S == ToSet(s) \cup {e}
           n == Len(s)
<1>1. s \in Seq(S) /\ e \in S
  <2>1. \A i \in 1 .. n : s[i] \in S
    BY DEF ToSet
  <2> QED BY <2>1
<1> HIDE DEF S
<1>2. /\ r \in Seq(S) /\ n \in Nat /\ Len(r) = n + 1 /\ DOMAIN s = 1 .. n /\ DOMAIN r = 1 .. n + 1
      /\ \A i \in 1 .. n : r[i] = s[i]
      /\ r[n + 1] = e
  BY <1>1
<1>3. r \in Seq(ToSet(r))
  <2>1. \A i \in 1 .. Len(r) : r[i] \in ToSet(r)
    BY <1>2 DEF ToSet
  <2> QED BY <1>2, <2>1
<1> QED BY <1>2, <1>3

(* The call has gone into its next row.                                     *)
Taken(call) == [call EXCEPT !.left = Tail(@)]

(* Only the rows still to be taken are fewer.                               *)
LEMMA TakenFacts ==
  ASSUME NEW call,
         call = [where |-> call.where, tables |-> call.tables, row |-> call.row,
                 table |-> call.table, left |-> call.left]
  PROVE  /\ Taken(call).where = call.where /\ Taken(call).tables = call.tables
         /\ Taken(call).row = call.row /\ Taken(call).table = call.table
         /\ Taken(call).left = Tail(call.left)
         /\ Taken(call) = [where |-> call.where, tables |-> call.tables, row |-> call.row,
                           table |-> call.table, left |-> Tail(call.left)]
<1>1. ASSUME NEW w, NEW a, NEW r, NEW t, NEW l, NEW c, NEW rest,
             c = [where |-> w, tables |-> a, row |-> r, table |-> t, left |-> l]
      PROVE  [c EXCEPT !.left = rest]
               = [where |-> w, tables |-> a, row |-> r, table |-> t, left |-> rest]
  BY <1>1
<1> DEFINE rest == Tail(call.left)
<1> HIDE DEF rest
<1>2. [call EXCEPT !.left = rest] = [where |-> call.where, tables |-> call.tables, row |-> call.row,
                                     table |-> call.table, left |-> rest]
  BY <1>1
<1>3. Taken(call) = [call EXCEPT !.left = rest]
  BY DEF Taken, rest
<1> QED BY <1>2, <1>3 DEF rest

(* A list of its own elements.                                              *)
LEMMA OfItsRange ==
  ASSUME NEW n \in Nat, NEW v, v = [k \in 1 .. n |-> v[k]]
  PROVE  v \in Seq(ToSet(v)) /\ Len(v) = n
<1> DEFINE T == ToSet(v)
<1>1. \A k \in 1 .. n : v[k] \in T
  <2>1. DOMAIN v = 1 .. n
    OBVIOUS
  <2> QED BY <2>1 DEF ToSet
<1> HIDE DEF T
<1>2. v \in [1 .. n -> T]
  BY <1>1
<1>3. v \in Seq(T) /\ Len(v) = n
  BY <1>2
<1> QED BY <1>3 DEF T

(* The stack when its innermost call has gone into its next row.            *)
Visit(s) == [s EXCEPT ![Len(s)] = Taken(s[Len(s)])]

(* Visit changes the innermost call alone.                                  *)
LEMMA VisitedFacts ==
  ASSUME NEW s, s \in Seq(ToSet(s)), s # <<>>
  PROVE  /\ Len(s) \in Nat /\ Len(s) >= 1 /\ DOMAIN s = 1 .. Len(s)
         /\ Visit(s) \in Seq(ToSet(Visit(s)))
         /\ Len(Visit(s)) = Len(s) /\ DOMAIN Visit(s) = DOMAIN s
         /\ \A k \in 1 .. Len(s) - 1 : Visit(s)[k] = s[k]
         /\ Visit(s)[Len(s)] = Taken(s[Len(s)])
<1> DEFINE n == Len(s)
           v == Visit(s)
           e == Taken(s[Len(s)])
<1>1. n \in Nat /\ n >= 1 /\ DOMAIN s = 1 .. n
  BY EmptySeq
<1> HIDE DEF n, e, v
<1>2. v = [k \in 1 .. n |-> IF k = n THEN e ELSE s[k]]
  BY <1>1 DEF n, e, v, Visit
<1>3. n \in 1 .. n /\ \A k \in 1 .. n - 1 : k \in 1 .. n /\ k # n
  BY <1>1
<1>4. DOMAIN v = 1 .. n /\ v[n] = e /\ \A k \in 1 .. n - 1 : v[k] = s[k]
  BY <1>2, <1>3
<1>5. v \in Seq(ToSet(v)) /\ Len(v) = n
  <2>1. n \in Nat
    BY <1>1
  <2>2. v = [k \in 1 .. n |-> v[k]]
    BY <1>2
  <2> QED BY <2>1, <2>2, OfItsRange
<1> QED BY <1>1, <1>4, <1>5 DEF n, e, v

(* The tables behind one in assigned_table.                                 *)
LEMMA BeforeFacts ==
  ASSUME NEW at, NEW S, at \in Seq(S), NEW n \in DOMAIN at
  PROVE  /\ Len(at) \in Nat /\ DOMAIN at = 1 .. Len(at) /\ n \in Nat /\ n >= 1
         /\ Before(at, n - 1) = Before(at, n) \cup {at[n]}
         /\ Before(at, 0) = ToSet(at)
         /\ Before(at, Len(at)) = {}
<1>1. Len(at) \in Nat /\ DOMAIN at = 1 .. Len(at) /\ n \in Nat /\ n >= 1 /\ n <= Len(at)
  OBVIOUS
<1>2. n - 1 + 1 .. Len(at) = (n + 1 .. Len(at)) \cup {n}
  BY <1>1
<1>3. Len(at) + 1 .. Len(at) = {} /\ 0 + 1 .. Len(at) = DOMAIN at
  BY <1>1
<1> QED BY <1>1, <1>2, <1>3 DEF Before, ToSet

(* A table chosen has only tables of FROM behind it.                        *)
LEMMA OrderFacts ==
  ASSUME NEW q \in Queries, NEW at, OrderKept(q, at), NEW n \in Nat, n <= Len(at),
         NoName \notin Before(at, n)
  PROVE  /\ Before(at, n) \subseteq ToSet(q.from)
         /\ \A m \in n + 1 .. Len(at) : m \in DOMAIN at /\ at[m] \in ToSet(q.from) /\ at[m] # NoName
<1>1. DOMAIN at = 1 .. Len(at) /\ Len(at) \in Nat
  BY DEF OrderKept
<1>2. ASSUME NEW m \in n + 1 .. Len(at)
      PROVE  m \in DOMAIN at /\ at[m] \in ToSet(q.from) /\ at[m] # NoName
  <2>1. m \in DOMAIN at
    BY <1>1
  <2>2. at[m] # NoName
    BY DEF Before
  <2> QED BY <2>1, <2>2 DEF OrderKept
<1> QED BY <1>2 DEF Before

(* assigned_table when a call has chosen table t, with n tables left.       *)
Takes(q, at, n, D, of, t, other) ==
  /\ OrderKept(q, at) /\ n \in DOMAIN at /\ D = Before(at, n) /\ NoName \notin D
  /\ of \in Partial(q, D) /\ t \in ToSet(q.from) \ D
  /\ t = NextTable(q, Conds(q, of), TablesLeft(q, D)).table
  /\ other = [at EXCEPT ![n] = IF @ = NoName THEN t ELSE @]

(* The order of the tables is kept, and what is behind table n unchanged.   *)
LEMMA OrderStep ==
  ASSUME NEW q \in Queries, NEW at, NEW n, NEW D, NEW of, NEW t, NEW other,
         Takes(q, at, n, D, of, t, other)
  PROVE  /\ OrderKept(q, other) /\ Len(other) = Len(at) /\ DOMAIN other = DOMAIN at
         /\ other[n] = t /\ \A m \in DOMAIN at : m # n => other[m] = at[m]
         /\ \A m \in Nat : n <= m => Before(other, m) = Before(at, m)
         /\ NoName \notin ToSet(at) => other = at
<1> USE DEF Takes
<1>1. /\ Len(at) \in Nat /\ DOMAIN at = 1 .. Len(at) /\ at \in Seq(Tables \cup {NoName})
      /\ t \in Tables /\ t # NoName /\ D \subseteq ToSet(q.from) /\ Len(at) = Len(q.from)
  <2>1. t \in Tables /\ t # NoName
    BY QueryFacts, NamesAssumption
  <2>2. Len(at) \in Nat /\ DOMAIN at = 1 .. Len(at) /\ at \in Seq(Tables \cup {NoName})
    BY DEF OrderKept
  <2>3. D \subseteq ToSet(q.from)
    BY <2>2, OrderFacts
  <2> QED BY <2>1, <2>2, <2>3 DEF OrderKept
<1>2. /\ DOMAIN other = DOMAIN at
      /\ other[n] = IF at[n] = NoName THEN t ELSE at[n]
      /\ \A m \in DOMAIN at : m # n => other[m] = at[m]
  OBVIOUS
<1>3. other \in Seq(Tables \cup {NoName}) /\ Len(other) = Len(at)
  BY <1>1
<1>4. at[n] # NoName => at[n] = t
  BY DEF OrderKept
<1>5. other[n] = t
  BY <1>2, <1>4
<1>6. ASSUME NEW m \in Nat, n <= m
      PROVE  Before(other, m) = Before(at, m)
  <2>1. \A j \in m + 1 .. Len(at) : other[j] = at[j]
    BY <1>1, <1>2, <1>6
  <2> QED BY <1>3, <2>1 DEF Before
<1>7. at[n] # NoName => other = at
  <2>1. at[n] # NoName => \A m \in DOMAIN at : other[m] = at[m]
    BY <1>2
  <2>2. other = [m \in DOMAIN at |-> other[m]]
    BY <1>2
  <2>3. at = [m \in DOMAIN at |-> at[m]]
    BY <1>1
  <2> QED BY <2>1, <2>2, <2>3
<1>8. NoName \notin ToSet(at) => other = at
  BY <1>7 DEF ToSet
<1>9. OrderKept(q, other)
  <2>1. CASE at[n] # NoName
    BY <1>7, <2>1
  <2>2. CASE at[n] = NoName
    <3>1. ASSUME NEW m \in DOMAIN other, other[m] # NoName
          PROVE  /\ NoName \notin Before(other, m) /\ other[m] \in ToSet(q.from) \ Before(other, m)
                 /\ \A row \in Partial(q, Before(other, m)) :
                      NextTable(q, Conds(q, row), TablesLeft(q, Before(other, m))).table = other[m]
      <4>1. m \in DOMAIN at /\ m \in Nat /\ n \in Nat
        BY <1>1, <1>2
      <4>2. CASE m < n
        <5>1. at[m] # NoName
          BY <1>2, <3>1, <4>1, <4>2
        <5>2. NoName \in Before(at, m)
          <6>1. n \in m + 1 .. Len(at)
            BY <1>1, <4>1, <4>2
          <6> QED BY <2>2, <6>1 DEF Before
        <5> QED BY <4>1, <5>1, <5>2 DEF OrderKept
      <4>3. CASE m = n
        <5> DEFINE B == Before(other, m)
        <5>1. B = D /\ other[m] = t
          <6>1. n \in Nat /\ n <= n
            BY <4>1
          <6>2. Before(other, n) = Before(at, n)
            BY <1>6, <6>1
          <6> QED BY <1>5, <4>3, <6>2
        <5>2. ASSUME NEW row \in Partial(q, D)
              PROVE  NextTable(q, Conds(q, row), TablesLeft(q, D)).table = t
          <6> DEFINE tables == TablesLeft(q, D)
          <6> HIDE DEF tables
          <6>1. NextTable(q, Conds(q, row), tables).table = NextTable(q, Conds(q, of), tables).table
            BY <1>1, SameNext
          <6> QED BY <6>1 DEF tables
        <5> HIDE DEF B
        <5>3. /\ NoName \notin B /\ other[m] \in ToSet(q.from) \ B
              /\ \A row \in Partial(q, B) :
                   NextTable(q, Conds(q, row), TablesLeft(q, B)).table = other[m]
          BY <5>1, <5>2
        <5> QED BY <5>3 DEF B
      <4>4. CASE m > n
        <5> DEFINE B == Before(other, m)
        <5>1. B = Before(at, m) /\ other[m] = at[m]
          <6>1. m \in Nat /\ n <= m /\ m # n
            BY <4>1, <4>4
          <6>2. Before(other, m) = Before(at, m)
            BY <1>6, <6>1
          <6> QED BY <1>2, <4>1, <6>1, <6>2
        <5>2. /\ NoName \notin Before(at, m) /\ at[m] \in ToSet(q.from) \ Before(at, m)
              /\ \A row \in Partial(q, Before(at, m)) :
                   NextTable(q, Conds(q, row), TablesLeft(q, Before(at, m))).table = at[m]
          BY <3>1, <4>1, <5>1 DEF OrderKept
        <5> HIDE DEF B
        <5>3. /\ NoName \notin B /\ other[m] \in ToSet(q.from) \ B
              /\ \A row \in Partial(q, B) :
                   NextTable(q, Conds(q, row), TablesLeft(q, B)).table = other[m]
          BY <5>1, <5>2
        <5> QED BY <5>3 DEF B
      <4>5. m < n \/ m = n \/ m > n
        BY <4>1
      <4> QED BY <4>2, <4>3, <4>4, <4>5, Zenon
    <3> QED BY <1>1, <1>3, <3>1 DEF OrderKept
  <2> QED BY <2>1, <2>2
<1> QED BY <1>2, <1>3, <1>5, <1>6, <1>8, <1>9

-----------------------------------------------------------------------------
(* Calls *)

(* A call of dfs for this row can begin: its row is new, and is meant as    *)
(* far as it goes; what the clause means is found, waits in a call or is    *)
(* what this row begins.                                                    *)
Ready(q, at, rows, s, row, n) ==
  /\ n \in Nat /\ Len(s) + n = Len(at)
  /\ CallsOK(q, at, rows, s)
  /\ NoName \notin Before(at, n)
  /\ row.of \in Partial(q, Before(at, n)) /\ Len(TablesLeft(q, Before(at, n))) = n
  /\ \A j \in DOMAIN s : Within(row.of, s[j])
  /\ Plain(q) => \A f \in Combinations(q) : Agrees(f, row.of) => Meant(q, f, DOMAIN row.of)
  /\ \A j \in DOMAIN rows : ~ Agrees(rows[j].of, row.of)
  /\ Named(q) => \A f \in Meaning(q) : Held(rows, s, f) \/ Agrees(f, row.of)
  /\ Fits(q, row, LabelsTo(q, at, Len(s)))

(* Before any table is taken there are no labels.                           *)
LEMMA LabelsToNone ==
  ASSUME NEW q, NEW at
  PROVE  LabelsTo(q, at, 0) = <<>>
<1> DEFINE tt == [n \in 1 .. 0 |-> LabelsOf(q, at[Len(at) + 1 - n])]
           ss == [n \in 1 .. 0 + 1 |-> <<>>]
<1>1. tt \in [1 .. 0 -> Seq({})]
  OBVIOUS
<1>2. ss \in [1 .. 0 + 1 -> Seq({})]
  OBVIOUS
<1>3. LabelsTo(q, at, 0) = FlattenSeq(tt)
  BY DEF LabelsTo
<1> HIDE DEF tt, ss
<1>4. \A n \in 1 .. 0 : ss[n] = tt[n]
  OBVIOUS
<1>5. FlattenSeq(tt) = <<>>
  BY <1>1, <1>2, <1>4, FlattenFacts
<1> QED BY <1>3, <1>5

(* The labels of a table are columns.                                       *)
LEMMA LabelsAreNames ==
  ASSUME NEW q \in Queries, NEW t \in ToSet(q.from)
  PROVE  LabelsOf(q, t) \in Seq(Names)
<1>1. t \in Tables /\ ColsOf[t] \in Nat
  BY QueryFacts, NamesAssumption
<1>2. CASE q.cols = <<>>
  <2> DEFINE m == ColsOf[t]
             l == [c \in 1 .. m |-> [table |-> t, col |-> c]]
  <2>1. \A c \in 1 .. m : l[c] \in Names
    BY <1>1 DEF Names
  <2>2. l \in [1 .. m -> Names]
    BY <2>1
  <2>3. LabelsOf(q, t) = l
    BY <1>2 DEF LabelsOf
  <2>4. m \in Nat
    BY <1>1
  <2> HIDE DEF m, l
  <2> QED BY <2>2, <2>3, <2>4
<1>3. CASE q.cols # <<>>
  <2> DEFINE K == {n \in DOMAIN q.cols : Home(q, q.cols[n].table) = t}
  <2>1. q.cols \in Seq(Names)
    BY QueriesAssumption DEF Names
  <2>2. K \in SUBSET DOMAIN q.cols /\ LabelsOf(q, t) = ElementsAt(q.cols, K)
    BY <1>3 DEF LabelsOf
  <2> HIDE DEF K
  <2> QED BY <2>1, <2>2, ElementsAtFacts
<1> QED BY <1>2, <1>3

(* The outermost call can begin.                                            *)
LEMMA BeginReady ==
  ASSUME NEW q \in Queries, NEW at, OrderKept(q, at)
  PROVE  /\ Ready(q, at, <<>>, <<>>, [of |-> <<>>, values |-> <<>>], Len(at))
         /\ Conds(q, <<>>) = q.where
         /\ TablesLeft(q, Before(at, Len(at))) = q.from
<1> DEFINE row == [of |-> <<>>, values |-> <<>>]
           n == Len(at)
<1>1. row.of = <<>> /\ row.values = <<>> /\ DOMAIN <<>> = {} /\ Len(<<>>) = 0
  OBVIOUS
<1>2. at \in Seq(Tables \cup {NoName}) /\ n \in Nat /\ n = Len(q.from)
  BY DEF OrderKept
<1>3. Before(at, n) = {}
  <2>1. n + 1 .. n = {}
    BY <1>2
  <2> QED BY <2>1 DEF Before
<1> HIDE DEF row, n
<1>4. /\ row.of \in Partial(q, Before(at, n)) /\ Conds(q, <<>>) = q.where
      /\ TablesLeft(q, Before(at, n)) = q.from
  BY <1>1, <1>3, CondsStart, TablesStart
<1>5. Len(<<>>) + n = n /\ Len(TablesLeft(q, Before(at, n))) = n
  BY <1>1, <1>2, <1>4
<1>6. CallsOK(q, at, <<>>, <<>>)
  BY <1>1 DEF CallsOK
<1>7. \A f : Meant(q, f, DOMAIN row.of)
  BY <1>1 DEF Meant, Done
<1>8. \A f : Agrees(f, row.of)
  BY <1>1 DEF Agrees
<1>9. Fits(q, row, LabelsTo(q, at, Len(<<>>)))
  BY <1>1, LabelsToNone DEF Fits
<1>10. \A j \in DOMAIN <<>> : FALSE
  BY <1>1
<1>11. Ready(q, at, <<>>, <<>>, row, n)
  <2>1. n = Len(at)
    BY DEF n
  <2>2. NoName \notin Before(at, n)
    BY <1>3
  <2> QED BY <1>2, <1>4, <1>5, <1>6, <1>7, <1>8, <1>9, <1>10, <2>1, <2>2 DEF Ready
<1> QED BY <1>4, <1>11 DEF row, n

(* The innermost call top, with n tables to go after its own table t and    *)
(* those of D before it.                                                    *)
TopOK(q, at, rows, s, top, n, D, t) ==
  /\ n \in Nat /\ Len(s) + n = Len(at) /\ n + 1 \in DOMAIN at /\ Left(at, Len(s)) = n + 1
  /\ Len(s) \in DOMAIN s /\ CallOK(q, at, rows, top, Len(s))
  /\ at[n + 1] = t /\ t \in ToSet(q.from) \ D
  /\ NoName \notin D /\ D \subseteq ToSet(q.from)
  /\ Before(at, n) = D \cup {t} /\ NoName \notin Before(at, n)
  /\ top.row.of \in Partial(q, D) /\ DOMAIN top.row.of = D
  /\ top.tables = TablesLeft(q, D) /\ Len(top.tables) = n + 1

(* It is, in a stack in which all is in order.                              *)
LEMMA TopFacts ==
  ASSUME NEW q \in Queries, NEW at, OrderKept(q, at), NEW rows, NEW s,
         CallsOK(q, at, rows, s), s # <<>>, NEW top, top = s[Len(s)],
         NEW n, n = Len(at) - Len(s), NEW D, D = Before(at, n + 1), NEW t, t = top.table
  PROVE  TopOK(q, at, rows, s, top, n, D, t)
<1> USE DEF TopOK
<1>1. /\ Len(s) \in Nat /\ Len(s) \in DOMAIN s /\ s \in Seq(ToSet(s))
  <2>1. s \in Seq(ToSet(s))
    BY DEF CallsOK
  <2>2. \A T : s \in Seq(T) => Len(s) \in Nat /\ Len(s) \in DOMAIN s
    BY EmptySeq
  <2> QED BY <2>1, <2>2
<1>2. CallOK(q, at, rows, top, Len(s))
  BY <1>1 DEF CallsOK
<1>3. at \in Seq(Tables \cup {NoName}) /\ Len(at) \in Nat
  BY DEF OrderKept
<1>4. Left(at, Len(s)) = n + 1
  BY <1>1, <1>3 DEF Left
<1>5. /\ n + 1 \in DOMAIN at /\ at[n + 1] = t /\ t # NoName
      /\ top.row.of \in Partial(q, D) /\ top.tables = TablesLeft(q, D) /\ Len(top.tables) = n + 1
  BY <1>2, <1>4 DEF CallOK
<1>6. NoName \notin D /\ t \in ToSet(q.from) \ D
  BY <1>5 DEF OrderKept
<1>7. n \in Nat /\ n + 1 \in Nat /\ n + 1 <= Len(at) /\ n + 1 - 1 = n /\ Len(s) + n = Len(at)
  BY <1>1, <1>3, <1>5
<1>8. D \subseteq ToSet(q.from)
  BY <1>6, <1>7, OrderFacts
<1>9. Before(at, n) = D \cup {t}
  <2> DEFINE m == n + 1
  <2>1. m \in DOMAIN at /\ m - 1 = n /\ at[m] = t /\ D = Before(at, m)
    BY <1>5, <1>7
  <2> HIDE DEF m
  <2>2. Before(at, m - 1) = Before(at, m) \cup {at[m]}
    BY <1>3, <2>1, BeforeFacts
  <2> QED BY <2>1, <2>2
<1>10. DOMAIN top.row.of = D
  BY <1>5 DEF Partial
<1> QED BY <1>1, <1>2, <1>4, <1>5, <1>6, <1>7, <1>8, <1>9, <1>10

(* Going into the next row of the innermost call.                           *)
Visits(q, at, rows, s, v, top, row, i) ==
  /\ CallsOK(q, at, rows, s) /\ s # <<>>
  /\ Named(q) => \A f \in Meaning(q) : Held(rows, s, f)
  /\ top = s[Len(s)] /\ top.left # <<>> /\ i = Head(top.left)
  /\ v = Visit(s)
  /\ row = Merged(q, top.row, top.table, i)

(* A call for the row just gone into can begin.                             *)
LEMMA VisitedReady ==
  ASSUME NEW q \in Queries, NEW at, OrderKept(q, at), NEW rows, NEW s, NEW v, NEW top, NEW row,
         NEW i, Visits(q, at, rows, s, v, top, row, i), NEW n, n = Len(at) - Len(s)
  PROVE  /\ Ready(q, at, rows, v, row, n) /\ Len(top.tables) = n + 1
         /\ TablesLeft(q, Before(at, n)) = Without(top.tables, top.table)
         /\ Len(q.from) > 1 =>
              Assign(top.where, top.table, q.data[top.table][i]) = Conds(q, row.of)
<1> DEFINE t == top.table
           D == Before(at, n + 1)
           last == Len(s)
           of == top.row.of
<1>0. t = top.table /\ D = Before(at, n + 1) /\ last = Len(s) /\ of = top.row.of
  OBVIOUS
<1> HIDE DEF t, D, last, of
<1>1. /\ n \in Nat /\ last + n = Len(at) /\ n + 1 \in DOMAIN at /\ Left(at, last) = n + 1
      /\ last \in DOMAIN s /\ CallOK(q, at, rows, top, last)
      /\ at[n + 1] = t /\ t \in ToSet(q.from) \ D
      /\ NoName \notin D /\ D \subseteq ToSet(q.from)
      /\ Before(at, n) = D \cup {t} /\ NoName \notin Before(at, n)
      /\ top.row.of \in Partial(q, D) /\ DOMAIN top.row.of = D
      /\ top.tables = TablesLeft(q, D) /\ Len(top.tables) = n + 1
      /\ of \in Partial(q, D) /\ D \in SUBSET ToSet(q.from)
  <2>1. CallsOK(q, at, rows, s) /\ s # <<>> /\ top = s[Len(s)]
    BY DEF Visits
  <2>2. TopOK(q, at, rows, s, top, n, D, t)
    BY <1>0, <2>1, TopFacts
  <2> QED BY <1>0, <2>2 DEF TopOK
<1>2. /\ last \in Nat /\ last >= 1 /\ DOMAIN s = 1 .. last
      /\ v \in Seq(ToSet(v)) /\ Len(v) = last /\ DOMAIN v = 1 .. last
      /\ \A k \in 1 .. last - 1 : v[k] = s[k]
      /\ v[last] = Taken(top)
  <2>1. /\ s \in Seq(ToSet(s)) /\ s # <<>> /\ v = Visit(s)
        /\ top = s[Len(s)]
    BY DEF CallsOK, Visits
  <2>2. /\ Len(s) \in Nat /\ Len(s) >= 1 /\ DOMAIN s = 1 .. Len(s)
        /\ v \in Seq(ToSet(v)) /\ Len(v) = Len(s) /\ DOMAIN v = DOMAIN s
        /\ \A k \in 1 .. Len(s) - 1 : v[k] = s[k]
        /\ v[Len(s)] = Taken(s[Len(s)])
    BY <2>1, VisitedFacts
  <2> QED BY <1>0, <2>1, <2>2
<1>3. /\ top = [where |-> top.where, tables |-> top.tables, row |-> top.row,
                table |-> t, left |-> top.left]
      /\ top.where = Conds(q, top.row.of)
      /\ top.left \in Seq(DOMAIN q.data[t]) /\ IsInjective(top.left)
      /\ \A j \in DOMAIN rows : ~ Pending(rows[j].of, top)
  BY <1>1 DEF CallOK
<1>4. /\ i \in DOMAIN q.data[t] /\ i \in ToSet(top.left)
      /\ Tail(top.left) \in Seq(DOMAIN q.data[t]) /\ IsInjective(Tail(top.left))
      /\ ToSet(Tail(top.left)) = ToSet(top.left) \ {i}
  <2>1. top.left # <<>> /\ i = Head(top.left)
    BY DEF Visits
  <2> QED BY <1>3, <2>1, TailOfList
<1> DEFINE e == Taken(top)
<1>5. /\ e.where = top.where /\ e.tables = top.tables /\ e.row = top.row /\ e.table = t
      /\ e.left = Tail(top.left)
      /\ e = [where |-> e.where, tables |-> e.tables, row |-> e.row, table |-> e.table, left |-> e.left]
  <2>1. /\ e.where = top.where /\ e.tables = top.tables /\ e.row = top.row /\ e.table = top.table
        /\ e.left = Tail(top.left)
        /\ e = [where |-> top.where, tables |-> top.tables, row |-> top.row,
                table |-> top.table, left |-> Tail(top.left)]
    <3>1. top = [where |-> top.where, tables |-> top.tables, row |-> top.row,
                 table |-> top.table, left |-> top.left]
      BY <1>3 DEF t
    <3> QED BY <3>1, TakenFacts
  <2> QED BY <2>1 DEF t
<1> HIDE DEF e
<1>6. /\ row.of = More(of, D, t, i)
      /\ row.of \in Partial(q, D \cup {t}) /\ DOMAIN row.of = D \cup {t}
      /\ row.of[t] = i /\ \A u \in D : row.of[u] = top.row.of[u]
  <2>1. row.of = More(of, D, t, i)
    BY <1>0, <1>1 DEF Visits, Merged, More
  <2>2. /\ More(of, D, t, i) \in Partial(q, D \cup {t})
        /\ More(of, D, t, i)[t] = i
        /\ \A u \in D : More(of, D, t, i)[u] = of[u]
    <3>1. /\ D \in SUBSET ToSet(q.from) /\ of \in Partial(q, D)
          /\ t \in ToSet(q.from) \ D /\ i \in DOMAIN q.data[t]
      BY <1>1, <1>4
    <3>2. More(of, D, t, i) \in Partial(q, D \cup {t})
      BY <3>1, MoreFacts
    <3> QED BY <3>1, <3>2, MoreFacts
  <2>3. row.of \in Partial(q, D \cup {t})
    BY <2>1, <2>2
  <2>4. DOMAIN row.of = D \cup {t}
    BY <2>3 DEF Partial
  <2> QED BY <1>0, <2>1, <2>2, <2>3, <2>4
<1>7. ASSUME NEW f
      PROVE  /\ Pending(f, e) => Pending(f, top)
             /\ Agrees(f, row.of) => Pending(f, top)
             /\ Pending(f, top) => Pending(f, e) \/ Agrees(f, row.of)
  <2>1. Agrees(f, row.of) <=> Agrees(f, top.row.of) /\ f[t] = i
    <3>1. Agrees(f, row.of) <=> \A u \in D \cup {t} : f[u] = row.of[u]
      BY <1>6 DEF Agrees
    <3>2. Agrees(f, top.row.of) <=> \A u \in D : f[u] = top.row.of[u]
      BY <1>1 DEF Agrees
    <3>3. row.of[t] = i /\ \A u \in D : row.of[u] = top.row.of[u]
      BY <1>6
    <3> QED BY <3>1, <3>2, <3>3
  <2>2. Pending(f, top) <=> Agrees(f, top.row.of) /\ f[t] \in ToSet(top.left)
    BY DEF Pending, t
  <2>3. Pending(f, e) <=> Agrees(f, top.row.of) /\ f[t] \in ToSet(top.left) \ {i}
    BY <1>4, <1>5 DEF Pending
  <2> QED BY <1>4, <2>1, <2>2, <2>3
<1>8. CallOK(q, at, rows, e, last)
  <2>1. Plain(q) => \A f \in Combinations(q) :
                      Pending(f, e) => Meant(q, f, DOMAIN e.row.of \cup {e.table})
    BY <1>1, <1>5, <1>7 DEF CallOK
  <2>2. \A j \in DOMAIN rows : ~ Pending(rows[j].of, e)
    BY <1>3, <1>7
  <2>3. Fits(q, e.row, LabelsTo(q, at, last - 1))
    BY <1>1, <1>5 DEF CallOK
  <2>4. /\ Left(at, last) \in DOMAIN at /\ at[Left(at, last)] = e.table /\ e.table # NoName
        /\ e.row.of \in Partial(q, Before(at, Left(at, last)))
        /\ e.where = Conds(q, e.row.of)
        /\ e.tables = TablesLeft(q, Before(at, Left(at, last))) /\ Len(e.tables) = Left(at, last)
    BY <1>1, <1>5 DEF CallOK
  <2>5. e.left \in Seq(DOMAIN q.data[e.table]) /\ IsInjective(e.left)
    BY <1>4, <1>5
  <2> QED BY <1>5, <2>1, <2>2, <2>3, <2>4, <2>5 DEF CallOK
<1>9. CallsOK(q, at, rows, v)
  <2>1. ASSUME NEW k \in 1 .. last
        PROVE  CallOK(q, at, rows, v[k], k) /\ \A j \in 1 .. k - 1 : Within(v[k].row.of, v[j])
    <3>1. /\ CallOK(q, at, rows, s[k], k)
          /\ \A j \in 1 .. k - 1 : Within(s[k].row.of, s[j])
      BY <1>2 DEF CallsOK, Visits
    <3>2. \A j \in 1 .. k - 1 : v[j] = s[j]
      BY <1>2
    <3>3. v[k].row = s[k].row /\ CallOK(q, at, rows, v[k], k)
      <4>1. CASE k = last
        BY <1>0, <1>2, <1>5, <1>8, <4>1 DEF e, Visits
      <4>2. CASE k # last
        <5>1. k \in 1 .. last - 1
          BY <1>2, <4>2
        <5> QED BY <1>2, <3>1, <5>1
      <4> QED BY <4>1, <4>2
    <3> QED BY <3>1, <3>2, <3>3
  <2> QED BY <1>2, <2>1 DEF CallsOK
<1>10. ASSUME NEW j \in DOMAIN v
       PROVE  Within(row.of, v[j])
  <2>1. CASE j = last
    <3>1. v[j].row.of = top.row.of /\ v[j].table = t /\ ToSet(v[j].left) = ToSet(top.left) \ {i}
      BY <1>2, <1>4, <1>5, <2>1 DEF e
    <3>2. \A u \in D : row.of[u] = top.row.of[u]
      BY <1>6
    <3>3. row.of[t] \notin ToSet(v[j].left)
      BY <1>6, <3>1
    <3>4. DOMAIN v[j].row.of = D /\ D \cup {t} \subseteq DOMAIN row.of
      BY <1>1, <1>6, <3>1
    <3>5. Agrees(row.of, v[j].row.of)
      BY <3>1, <3>2, <3>4 DEF Agrees
    <3> QED BY <3>1, <3>3, <3>4, <3>5 DEF Within
  <2>2. CASE j # last
    <3>1. j \in 1 .. last - 1 /\ v[j] = s[j]
      BY <1>2, <2>2
    <3>2. Within(top.row.of, s[j])
      BY <1>0, <1>1, <3>1 DEF CallsOK, Visits
    <3>3. /\ DOMAIN s[j].row.of \subseteq D /\ s[j].table \in D
          /\ \A u \in DOMAIN s[j].row.of : top.row.of[u] = s[j].row.of[u]
          /\ top.row.of[s[j].table] \notin ToSet(s[j].left)
      BY <1>1, <3>2 DEF Within, Agrees
    <3>4. Agrees(row.of, s[j].row.of) /\ row.of[s[j].table] \notin ToSet(s[j].left)
      BY <1>6, <3>3 DEF Agrees
    <3>5. DOMAIN s[j].row.of \cup {s[j].table} \subseteq DOMAIN row.of
      BY <1>6, <3>3
    <3> QED BY <3>1, <3>4, <3>5 DEF Within
  <2> QED BY <2>1, <2>2
<1>11. Plain(q) => \A f \in Combinations(q) : Agrees(f, row.of) => Meant(q, f, DOMAIN row.of)
  <2>1. Plain(q) => \A f \in Combinations(q) : Pending(f, top) => Meant(q, f, DOMAIN row.of)
    <3>1. DOMAIN row.of = DOMAIN top.row.of \cup {top.table}
      BY <1>0, <1>1, <1>6
    <3> QED BY <1>1, <3>1 DEF CallOK
  <2> QED BY <1>7, <2>1
<1>12. \A j \in DOMAIN rows : ~ Agrees(rows[j].of, row.of)
  BY <1>3, <1>7
<1>13. ASSUME Named(q), NEW f \in Meaning(q)
       PROVE  Held(rows, v, f) \/ Agrees(f, row.of)
  <2>1. CASE \E j \in DOMAIN rows : rows[j].of = f
    BY <2>1 DEF Held
  <2>2. CASE \E k \in DOMAIN s : Pending(f, s[k])
    <3>1. PICK k \in DOMAIN s : Pending(f, s[k])
      BY <2>2
    <3>2. CASE k = last
      <4>1. Pending(f, e) \/ Agrees(f, row.of)
        BY <1>0, <1>7, <3>1, <3>2 DEF Visits
      <4>2. v[k] = e /\ k \in DOMAIN v
        BY <1>2, <3>2 DEF e
      <4> QED BY <4>1, <4>2 DEF Held
    <3>3. CASE k # last
      <4>1. k \in DOMAIN v /\ v[k] = s[k]
        BY <1>2, <3>3
      <4> QED BY <3>1, <4>1 DEF Held
    <3> QED BY <3>2, <3>3
  <2>3. Held(rows, s, f)
    BY <1>13 DEF Visits
  <2> QED BY <2>1, <2>2, <2>3 DEF Held
<1>14. Fits(q, row, LabelsTo(q, at, last))
  <2> DEFINE k == last - 1
             labels == LabelsTo(q, at, k)
  <2>1. k \in Nat /\ k < Len(at) /\ k + 1 = last /\ Len(at) - k = n + 1 /\ Len(at) \in Nat
    BY <1>1, <1>2
  <2>2. Fits(q, top.row, labels)
    BY <1>1 DEF CallOK
  <2>3. at \in Seq(Tables \cup {NoName})
    BY DEF OrderKept
  <2>4. \A m \in 1 .. k + 1 : at[Len(at) + 1 - m] \in ToSet(q.from)
    <3>1. \A m \in n + 1 .. Len(at) : at[m] \in ToSet(q.from)
      <4>1. n <= Len(at)
        BY <2>1
      <4> QED BY <1>1, <4>1, OrderFacts
    <3>2. \A m \in 1 .. k + 1 : Len(at) + 1 - m \in n + 1 .. Len(at)
      <4> DEFINE l == Len(at)
      <4>1. n \in Nat /\ k \in Nat /\ l = k + 1 + n
        BY <1>1, <1>2, <2>1
      <4> HIDE DEF l
      <4>2. \A m \in 1 .. k + 1 : l + 1 - m \in n + 1 .. l
        BY <4>1
      <4> QED BY <4>2 DEF l
    <3> QED BY <3>1, <3>2
  <2> HIDE DEF k
  <2>5. /\ labels \in Seq(Names)
        /\ LabelsTo(q, at, k + 1) = labels \o LabelsOf(q, at[Len(at) - k])
    BY <2>1, <2>3, <2>4, LabelsAreNames, LabelsToFacts
  <2>6. LabelsTo(q, at, last) = labels \o LabelsOf(q, t)
    BY <1>1, <2>1, <2>5
  <2> HIDE DEF labels
  <2>7. Fits(q, Merged(q, top.row, t, i), labels \o LabelsOf(q, t))
    BY <1>1, <1>4, <2>2, <2>5, FitsMerged
  <2> QED BY <1>0, <2>6, <2>7 DEF Visits
<1>15. /\ TablesLeft(q, Before(at, n)) = Without(top.tables, t)
       /\ Len(TablesLeft(q, Before(at, n))) = n
  <2> DEFINE tables == top.tables
             rest == Without(tables, t)
  <2>1. tables = TablesLeft(q, D) /\ Len(tables) = n + 1
    BY <1>1
  <2> HIDE DEF tables
  <2>2. t \in ToSet(tables)
    BY <1>1, <2>1, TablesFacts
  <2>3. rest = TablesLeft(q, D \cup {t}) /\ Len(rest) = Len(tables) - 1
    <3>1. D \in SUBSET ToSet(q.from) /\ tables = TablesLeft(q, D) /\ t \in ToSet(tables)
      BY <1>1, <2>1, <2>2
    <3> QED BY <3>1, TablesStep
  <2> HIDE DEF rest
  <2>4. Len(rest) = n
    BY <1>1, <2>1, <2>3, SMTT(30)
  <2> QED BY <1>1, <2>3, <2>4 DEF rest, tables
<1>16. Len(q.from) > 1 => Assign(top.where, t, q.data[t][i]) = Conds(q, row.of)
  <2>1. Len(q.from) > 1 => Assign(Conds(q, of), t, q.data[t][i]) = Conds(q, More(of, D, t, i))
    BY <1>1, <1>4, CondsStep
  <2> QED BY <1>0, <1>3, <1>6, <2>1
<1>17. Ready(q, at, rows, v, row, n)
  <2>1. Len(v) + n = Len(at) /\ Len(v) = last
    BY <1>1, <1>2
  <2>2. row.of \in Partial(q, Before(at, n))
    BY <1>1, <1>6
  <2> QED BY <1>1, <1>9, <1>10, <1>11, <1>12, <1>13, <1>14, <1>15, <2>1, <2>2 DEF Ready
<1> QED BY <1>1, <1>15, <1>16, <1>17 DEF t

(* What a call does first: it chooses a table and lists its rows.           *)
Enters(q, at, s, row, n, next, other, call) ==
  /\ next = NextTable(q, Conds(q, row.of), TablesLeft(q, Before(at, n)))
  /\ other = [at EXCEPT ![n] = IF @ = NoName THEN next.table ELSE @]
  /\ call = [where |-> Conds(q, row.of), tables |-> TablesLeft(q, Before(at, n)), row |-> row,
             table |-> next.table, left |-> Selected(q, Conds(q, row.of), next)]

(* The invariant's parts about the stack survive the beginning of a call.   *)
LEMMA CallKeeps ==
  ASSUME NEW q \in Queries, NEW at, OrderKept(q, at), NEW rows, RowsOK(q, at, rows),
         NEW s, NEW row, NEW n, Ready(q, at, rows, s, row, n), n # 0,
         NEW next, NEW other, NEW call, Enters(q, at, s, row, n, next, other, call)
  PROVE  /\ OrderKept(q, other) /\ RowsOK(q, other, rows)
         /\ CallsOK(q, other, rows, Append(s, call))
         /\ Named(q) => \A f \in Meaning(q) : Held(rows, Append(s, call), f)
         /\ Named(q) => ~ NoThisColumn(next.table, Conds(q, row.of))
<1> DEFINE D == Before(at, n)
           of == row.of
           t == next.table
           w == Conds(q, of)
           tables == TablesLeft(q, D)
           list == Selected(q, w, next)
           k == Len(s) + 1
           more == Append(s, call)
<1>0. /\ D = Before(at, n) /\ of = row.of /\ t = next.table /\ w = Conds(q, of)
      /\ tables = TablesLeft(q, D) /\ list = Selected(q, w, next) /\ k = Len(s) + 1
      /\ more = Append(s, call)
  OBVIOUS
<1> HIDE DEF D, of, t, w, tables, list, k, more
<1>1. /\ next = NextTable(q, w, tables)
      /\ other = [at EXCEPT ![n] = IF @ = NoName THEN t ELSE @]
      /\ call = [where |-> w, tables |-> tables, row |-> row, table |-> t, left |-> list]
  BY <1>0 DEF Enters
<1>2. /\ n \in Nat /\ Len(s) + n = Len(at) /\ CallsOK(q, at, rows, s) /\ NoName \notin D
      /\ of \in Partial(q, D) /\ DOMAIN of = D /\ Len(tables) = n
  BY <1>0 DEF Ready, Partial
<1>3. /\ at \in Seq(Tables \cup {NoName}) /\ Len(at) \in Nat /\ DOMAIN at = 1 .. Len(at)
      /\ s \in Seq(ToSet(s))
  BY <1>2 DEF OrderKept, CallsOK
<1>4. /\ Len(s) \in Nat /\ k \in Nat /\ DOMAIN s = 1 .. Len(s)
      /\ more \in Seq(ToSet(more)) /\ DOMAIN more = 1 .. k
      /\ \A j \in 1 .. Len(s) : more[j] = s[j]
      /\ more[k] = call
  <2>1. /\ Len(s) \in Nat /\ DOMAIN s = 1 .. Len(s)
        /\ more \in Seq(ToSet(more)) /\ DOMAIN more = 1 .. Len(s) + 1
        /\ \A j \in 1 .. Len(s) : more[j] = s[j]
        /\ more[Len(s) + 1] = call
    BY <1>0, <1>3, AppendFacts
  <2> QED BY <1>0, <2>1
<1>5. n \in DOMAIN at /\ n <= Len(at) /\ Left(at, k) = n
  BY <1>0, <1>2, <1>3, <1>4 DEF Left
<1>6. D \subseteq ToSet(q.from)
  BY <1>0, <1>2, <1>5, OrderFacts
<1>7. D # ToSet(q.from)
  <2>1. ToSet(tables) = ToSet(q.from) \ D /\ tables \in Seq(Tables) /\ DOMAIN tables = 1 .. Len(tables)
    BY <1>0, <1>6, TablesFacts
  <2>2. tables[1] \in ToSet(tables)
    BY <1>2, <2>1 DEF ToSet
  <2> QED BY <2>1, <2>2
<1>8. /\ t \in ToSet(q.from) \ D
      /\ list \in Seq(DOMAIN q.data[t]) /\ IsInjective(list)
      /\ Named(q) => ~ NoThisColumn(t, w)
      /\ Named(q) => \A f \in Meaning(q) : Agrees(f, of) => f[t] \in ToSet(list)
      /\ Plain(q) => \A f \in Combinations(q) : Agrees(f, of) /\ f[t] \in ToSet(list) =>
           \A c \in ToSet(q.where) : ~ Done(q, c, D) /\ Done(q, c, D \cup {t}) => True(q, f, c)
  <2>1. D \in SUBSET ToSet(q.from) /\ next = NextTable(q, w, TablesLeft(q, D))
    BY <1>0, <1>1, <1>6
  <2>2. Chooses(q, D, of, w, next, t, list)
    BY <1>0, <1>2, <1>7, <2>1 DEF Chooses
  <2> QED BY <2>2, SelectedFacts
<1>9. /\ OrderKept(q, other) /\ Len(other) = Len(at) /\ DOMAIN other = DOMAIN at
      /\ other[n] = t /\ \A m \in DOMAIN at : m # n => other[m] = at[m]
      /\ \A m \in Nat : n <= m => Before(other, m) = Before(at, m)
      /\ NoName \notin ToSet(at) => other = at
  <2>1. t = NextTable(q, Conds(q, of), TablesLeft(q, D)).table
    BY <1>0, <1>1
  <2>2. Takes(q, at, n, D, of, t, other)
    BY <1>0, <1>1, <1>2, <1>5, <1>8, <2>1 DEF Takes
  <2> QED BY <2>2, OrderStep
<1>10. RowsOK(q, other, rows)
  <2>1. CASE rows = <<>>
    <3>1. DOMAIN <<>> = {} /\ <<>> \in Seq(ToSet(<<>>))
      OBVIOUS
    <3> QED BY <2>1, <3>1 DEF RowsOK
  <2>2. CASE rows # <<>>
    <3>1. other = at
      BY <1>9, <2>2 DEF RowsOK
    <3> QED BY <3>1
  <2> QED BY <2>1, <2>2
<1>11. \A j \in Nat : j < k => LabelsTo(q, other, j) = LabelsTo(q, at, j)
  <2> TAKE j \in Nat
  <2> HAVE j < k
  <2>1. \A m \in 1 .. j : at[Len(at) + 1 - m] = other[Len(at) + 1 - m]
    <3> TAKE m \in 1 .. j
    <3> DEFINE l == Len(at)
    <3>1. l \in Nat /\ Len(s) + n = l /\ Len(s) \in Nat /\ n \in Nat /\ k = Len(s) + 1 /\ k \in Nat
      BY <1>0, <1>2, <1>3, <1>4
    <3> HIDE DEF l
    <3>2. l + 1 - m \in 1 .. l /\ l + 1 - m # n
      BY <3>1
    <3> QED BY <1>3, <1>9, <3>2 DEF l
  <2> QED BY <1>9, <2>1, LabelsToSame
<1>12. ASSUME NEW j \in 1 .. Len(s)
       PROVE  CallOK(q, other, rows, s[j], j)
  <2> DEFINE old == s[j]
             m == Left(at, j)
  <2>1. CallOK(q, at, rows, old, j)
    BY <1>2, <1>4 DEF CallsOK
  <2>2. m \in Nat /\ n < m /\ Left(other, j) = m /\ j - 1 \in Nat /\ j - 1 < k
    BY <1>0, <1>2, <1>3, <1>4, <1>9 DEF Left
  <2>3. m \in DOMAIN at
    BY <2>1 DEF CallOK
  <2> HIDE DEF m, old
  <2>4. other[m] = at[m] /\ Before(other, m) = Before(at, m)
    <3>1. m # n /\ n <= m
      BY <1>2, <2>2
    <3>2. Before(other, m) = Before(at, m)
      BY <1>9, <2>2, <3>1
    <3> QED BY <1>9, <2>3, <3>1, <3>2
  <2>5. LabelsTo(q, other, j - 1) = LabelsTo(q, at, j - 1)
    BY <1>11, <2>2
  <2>6. Left(at, j) = m
    BY DEF m
  <2>7. CallOK(q, other, rows, old, j)
    BY <1>9, <2>1, <2>2, <2>4, <2>5, <2>6 DEF CallOK
  <2> QED BY <2>7 DEF old
<1>13. /\ call.where = w /\ call.tables = tables /\ call.row = row /\ call.table = t /\ call.left = list
  BY <1>1
<1>14. CallOK(q, other, rows, call, k)
  <2>1. Left(other, k) = n /\ Before(other, n) = D /\ n \in DOMAIN other /\ other[n] = t
    <3>1. Before(other, n) = Before(at, n)
      BY <1>2, <1>9
    <3> QED BY <1>0, <1>5, <1>9, <3>1 DEF Left
  <2>2. t # NoName
    BY <1>8, QueryFacts, NamesAssumption
  <2>3. ASSUME Plain(q), NEW f \in Combinations(q), Pending(f, call)
        PROVE  Meant(q, f, DOMAIN call.row.of \cup {call.table})
    <3>1. Agrees(f, of) /\ f[t] \in ToSet(list)
      BY <1>0, <1>13, <2>3 DEF Pending
    <3>2. Meant(q, f, D)
      BY <1>0, <1>2, <2>3, <3>1 DEF Ready
    <3>3. Meant(q, f, D \cup {t})
      BY <1>8, <2>3, <3>1, <3>2 DEF Meant
    <3> QED BY <1>0, <1>2, <1>13, <3>3
  <2>4. \A j \in DOMAIN rows : ~ Pending(rows[j].of, call)
    BY <1>13 DEF Ready, Pending
  <2>5. Fits(q, call.row, LabelsTo(q, other, k - 1))
    <3>1. k - 1 = Len(s) /\ LabelsTo(q, other, Len(s)) = LabelsTo(q, at, Len(s))
      BY <1>0, <1>4, <1>11
    <3> QED BY <1>13, <3>1 DEF Ready
  <2>6. call.row.of \in Partial(q, D) /\ call.where = Conds(q, call.row.of)
    BY <1>0, <1>2, <1>13
  <2>7. call.tables = TablesLeft(q, D) /\ Len(call.tables) = n
    BY <1>0, <1>2, <1>13
  <2>8. call.left \in Seq(DOMAIN q.data[call.table]) /\ IsInjective(call.left)
    BY <1>8, <1>13
  <2> QED BY <1>1, <1>13, <2>1, <2>2, <2>3, <2>4, <2>5, <2>6, <2>7, <2>8 DEF CallOK
<1>15. CallsOK(q, other, rows, more)
  <2>1. ASSUME NEW j \in DOMAIN more
        PROVE  CallOK(q, other, rows, more[j], j) /\ \A m \in 1 .. j - 1 : Within(more[j].row.of, more[m])
    <3>1. CASE j = k
      <4>1. \A m \in 1 .. j - 1 : m \in DOMAIN s /\ more[m] = s[m]
        BY <1>0, <1>4, <3>1
      <4>2. \A m \in DOMAIN s : Within(row.of, s[m])
        BY DEF Ready
      <4> QED BY <1>4, <1>13, <1>14, <3>1, <4>1, <4>2
    <3>2. CASE j # k
      <4>1. j \in DOMAIN s /\ more[j] = s[j] /\ \A m \in 1 .. j - 1 : more[m] = s[m]
        BY <1>0, <1>4, <3>2
      <4>2. \A m \in 1 .. j - 1 : Within(s[j].row.of, s[m])
        BY <1>2, <4>1 DEF CallsOK
      <4> QED BY <1>4, <1>12, <4>1, <4>2
    <3> QED BY <3>1, <3>2
  <2> QED BY <1>4, <2>1 DEF CallsOK
<1>16. ASSUME Named(q), NEW f \in Meaning(q)
       PROVE  Held(rows, more, f)
  <2>1. CASE Agrees(f, of)
    <3>1. Pending(f, call)
      BY <1>0, <1>8, <1>13, <1>16, <2>1 DEF Pending
    <3>2. k \in DOMAIN more /\ more[k] = call
      BY <1>0, <1>4
    <3> QED BY <3>1, <3>2 DEF Held
  <2>2. CASE Held(rows, s, f)
    <3>1. \A j \in DOMAIN s : j \in DOMAIN more /\ more[j] = s[j]
      BY <1>0, <1>4
    <3> QED BY <2>2, <3>1 DEF Held
  <2> QED BY <1>0, <1>16, <2>1, <2>2 DEF Ready
<1> QED BY <1>0, <1>8, <1>9, <1>10, <1>15, <1>16

(* One row more in the answer.                                              *)
LEMMA AddRowKeeps ==
  ASSUME NEW q \in Queries, NEW at, OrderKept(q, at), NEW rows, RowsOK(q, at, rows),
         NEW s, NEW row, Ready(q, at, rows, s, row, 0)
  PROVE  /\ RowsOK(q, at, Append(rows, row))
         /\ CallsOK(q, at, Append(rows, row), s)
         /\ Named(q) => \A f \in Meaning(q) : Held(Append(rows, row), s, f)
<1> DEFINE more == Append(rows, row)
           D == Before(at, 0)
           n == Len(rows)
<1>1. /\ n \in Nat /\ more \in Seq(ToSet(more))
      /\ DOMAIN rows = 1 .. n /\ DOMAIN more = 1 .. n + 1
      /\ \A i \in 1 .. n : more[i] = rows[i]
      /\ more[n + 1] = row
  <2>1. rows \in Seq(ToSet(rows))
    BY DEF RowsOK
  <2> QED BY <2>1, AppendFacts
<1>2. /\ Len(s) + 0 = Len(at) /\ CallsOK(q, at, rows, s) /\ NoName \notin D
      /\ row.of \in Partial(q, D) /\ Len(TablesLeft(q, D)) = 0
  BY DEF Ready
<1> HIDE DEF more, n
<1>3. \A j \in DOMAIN more : (j \in DOMAIN rows /\ more[j] = rows[j]) \/ (j = n + 1 /\ more[j] = row)
  <2> TAKE j \in DOMAIN more
  <2>1. j \in 1 .. n \/ j = n + 1
    BY <1>1
  <2>2. CASE j \in 1 .. n
    <3>1. j \in DOMAIN rows
      BY <1>1, <2>2
    <3>2. more[j] = rows[j]
      BY <1>1, <2>2
    <3> QED BY <3>1, <3>2
  <2>3. CASE j = n + 1
    BY <1>1, <2>3
  <2> QED BY <2>1, <2>2, <2>3
<1>4. at \in Seq(Tables \cup {NoName}) /\ Len(at) \in Nat /\ Len(at) >= 1 /\ Len(s) \in Nat
  <2>1. at \in Seq(Tables \cup {NoName}) /\ Len(at) = Len(q.from) /\ s \in Seq(ToSet(s))
    BY <1>2 DEF OrderKept, CallsOK
  <2>2. Len(s) \in Nat
    BY <2>1, AppendFacts
  <2> QED BY <2>1, <2>2, QueryFacts
<1>5. D = ToSet(at)
  BY <1>4, BeforeFacts
<1>6. D = ToSet(q.from)
  <2>1. D \subseteq ToSet(q.from)
    BY <1>2, <1>4, OrderFacts
  <2> DEFINE tables == TablesLeft(q, D)
  <2>2. /\ tables \in Seq(Tables) /\ DOMAIN tables = 1 .. Len(tables)
        /\ ToSet(tables) = ToSet(q.from) \ D
    BY <2>1, TablesFacts
  <2> HIDE DEF tables
  <2>3. DOMAIN tables = {}
    BY <1>2, <2>2 DEF tables
  <2> QED BY <2>1, <2>2, <2>3 DEF ToSet
<1> HIDE DEF D
<1>7. row.of \in Combinations(q) /\ DOMAIN row.of = ToSet(q.from) /\ Agrees(row.of, row.of)
  <2>1. row.of \in [ToSet(q.from) -> Nat] /\ \A t \in ToSet(q.from) : row.of[t] \in DOMAIN q.data[t]
    BY <1>2, <1>6 DEF Partial
  <2> QED BY <2>1 DEF Combinations, Agrees
<1>8. ASSUME Plain(q)
      PROVE  row.of \in Meaning(q)
  <2>1. Meant(q, row.of, ToSet(q.from))
    BY <1>7, <1>8 DEF Ready
  <2>2. \A c \in ToSet(q.where) : Done(q, c, ToSet(q.from))
    BY ConditionFacts, HomeFacts DEF Done
  <2> QED BY <1>7, <2>1, <2>2 DEF Meaning, Meant
<1>9. Fits(q, row, LabelsTo(q, at, Len(at)))
  <2>1. Len(s) = Len(at)
    BY <1>2, <1>4
  <2> QED BY <2>1 DEF Ready
<1>10. \A j \in DOMAIN rows : rows[j].of # row.of
  BY <1>7 DEF Ready
<1>11. RowsOK(q, at, more)
  <2>1. \A i, j \in DOMAIN more : more[i].of = more[j].of => i = j
    BY <1>3, <1>10 DEF RowsOK
  <2>2. NoName \notin ToSet(at)
    BY <1>2, <1>5
  <2>3. ASSUME NEW i \in DOMAIN more
        PROVE  /\ more[i].of \in Combinations(q)
               /\ Plain(q) => more[i].of \in Meaning(q)
               /\ Fits(q, more[i], LabelsTo(q, at, Len(at)))
    BY <1>3, <1>7, <1>8, <1>9 DEF RowsOK
  <2> QED BY <1>1, <2>1, <2>2, <2>3 DEF RowsOK
<1>12. CallsOK(q, at, more, s)
  <2>1. ASSUME NEW k \in DOMAIN s
        PROVE  CallOK(q, at, more, s[k], k)
    <3>1. CallOK(q, at, rows, s[k], k)
      BY <1>2 DEF CallsOK
    <3>2. ~ Pending(row.of, s[k])
      BY DEF Ready, Within, Pending
    <3>3. \A j \in DOMAIN rows : ~ Pending(rows[j].of, s[k])
      BY <3>1 DEF CallOK
    <3>4. \A j \in DOMAIN more : ~ Pending(more[j].of, s[k])
      BY <1>3, <3>2, <3>3
    <3> QED BY <3>1, <3>4 DEF CallOK
  <2> QED BY <1>2, <2>1 DEF CallsOK
<1>13. ASSUME Named(q), NEW f \in Meaning(q)
       PROVE  Held(more, s, f)
  <2>1. CASE Agrees(f, row.of)
    <3>1. f = row.of
      <4>1. f \in [ToSet(q.from) -> UNION {DOMAIN q.data[t] : t \in ToSet(q.from)}]
        BY <1>13 DEF Meaning, Combinations
      <4>2. row.of \in [ToSet(q.from) -> UNION {DOMAIN q.data[t] : t \in ToSet(q.from)}]
        BY <1>7 DEF Combinations
      <4>3. \A t \in ToSet(q.from) : f[t] = row.of[t]
        BY <1>7, <2>1 DEF Agrees
      <4> QED BY <4>1, <4>2, <4>3
    <3>2. n + 1 \in DOMAIN more /\ more[n + 1].of = f
      BY <1>1, <3>1
    <3> QED BY <3>2 DEF Held
  <2>2. CASE Held(rows, s, f)
    <3>1. \A j \in DOMAIN rows : j \in DOMAIN more /\ more[j] = rows[j]
      BY <1>1
    <3> QED BY <2>2, <3>1 DEF Held
  <2> QED BY <1>13, <2>1, <2>2 DEF Ready
<1> QED BY <1>11, <1>12, <1>13 DEF more

-----------------------------------------------------------------------------
(* The invariant *)

(* The invariant holds at first.                                            *)
LEMMA InitIInv == Init => IInv
<1> SUFFICES ASSUME Init PROVE IInv
  OBVIOUS
<1> DEFINE n == Len(query.from)
<1>1. query \in Queries /\ stack = <<>> /\ ans = <<>> /\ answer = None
  BY DEF Init
<1>2. n \in Nat /\ DOMAIN query.from = 1 .. n
  BY <1>1, QueryFacts
<1> HIDE DEF n
<1>3. assigned_table = [m \in 1 .. n |-> NoName]
  BY <1>2 DEF Init
<1>4. /\ assigned_table \in Seq(Tables \cup {NoName}) /\ Len(assigned_table) = n
      /\ \A m \in DOMAIN assigned_table : assigned_table[m] = NoName
  BY <1>2, <1>3
<1>5. OrderKept(query, assigned_table)
  BY <1>4 DEF OrderKept, n
<1>6. DOMAIN <<>> = {} /\ <<>> \in Seq(ToSet(<<>>))
  OBVIOUS
<1>7. CallsOK(query, assigned_table, ans, stack)
  BY <1>1, <1>6 DEF CallsOK
<1>8. RowsOK(query, assigned_table, ans)
  BY <1>1, <1>6 DEF RowsOK
<1>9. Covered /\ AnswerOK
  BY <1>1 DEF Covered, AnswerOK, None
<1> QED BY <1>1, <1>5, <1>7, <1>8, <1>9 DEF IInv

(* The beginning of a call, whatever the calls below it.                    *)
LEMMA CallInv ==
  ASSUME IInv, NEW s, NEW row, NEW n, Ready(query, assigned_table, ans, s, row, n), n # 0,
         Call(Conds(query, row.of), TablesLeft(query, Before(assigned_table, n)), row, s),
         query' = query, ans' = ans, answer = None
  PROVE  IInv'
<1> DEFINE w == Conds(query, row.of)
           tables == TablesLeft(query, Before(assigned_table, n))
           next == NextTable(query, w, tables)
           call == [where |-> w, tables |-> tables, row |-> row,
                    table |-> next.table, left |-> Selected(query, w, next)]
           other == [assigned_table EXCEPT ![n] = IF @ = NoName THEN next.table ELSE @]
<1>1. Len(tables) = n
  BY DEF Ready
<1>2. assigned_table' = other
  BY <1>1 DEF Call
<1>3. \/ NoThisColumn(next.table, w) /\ answer' = [None EXCEPT !.end = "noThisColumn"] /\ stack' = <<>>
      \/ stack' = Append(s, call) /\ answer' = answer
  BY DEF Call
<1>4. Enters(query, assigned_table, s, row, n, next, other, call)
  BY DEF Enters
<1>5. query \in Queries /\ OrderKept(query, assigned_table) /\ RowsOK(query, assigned_table, ans)
  BY DEF IInv
<1> HIDE DEF w, tables, next, call, other
<1>6. /\ OrderKept(query, other) /\ RowsOK(query, other, ans)
      /\ CallsOK(query, other, ans, Append(s, call))
      /\ Named(query) => \A f \in Meaning(query) : Held(ans, Append(s, call), f)
      /\ Named(query) => ~ NoThisColumn(next.table, Conds(query, row.of))
  BY <1>4, <1>5, CallKeeps
<1>7. /\ query' \in Queries /\ OrderKept(query', assigned_table') /\ RowsOK(query', assigned_table', ans')
  BY <1>2, <1>5, <1>6
<1>8. CASE NoThisColumn(next.table, w) /\ answer' = [None EXCEPT !.end = "noThisColumn"] /\ stack' = <<>>
  <2>1. ~ Named(query')
    BY <1>6, <1>8 DEF w
  <2>2. CallsOK(query', assigned_table', ans', stack')
    <3>1. DOMAIN <<>> = {} /\ <<>> \in Seq(ToSet(<<>>))
      OBVIOUS
    <3> QED BY <1>8, <3>1 DEF CallsOK
  <2>3. answer'.end = "noThisColumn" /\ answer' # None
    BY <1>8 DEF None
  <2>4. Covered' /\ AnswerOK'
    BY <1>8, <2>1, <2>3 DEF Covered, AnswerOK
  <2> QED BY <1>7, <2>2, <2>4 DEF IInv
<1>9. CASE stack' = Append(s, call) /\ answer' = answer
  <2>1. stack' # <<>>
    <3>1. s \in Seq(ToSet(s))
      BY DEF Ready, CallsOK
    <3>2. Len(s) \in Nat /\ Len(Append(s, call)) = Len(s) + 1
      BY <3>1, AppendFacts
    <3> QED BY <1>9, <3>2
  <2>2. CallsOK(query', assigned_table', ans', stack')
    BY <1>2, <1>6, <1>9
  <2>3. Covered'
    BY <1>6, <1>9 DEF Covered
  <2>4. AnswerOK'
    BY <1>9, <2>1 DEF AnswerOK, None
  <2> QED BY <1>7, <2>2, <2>3, <2>4 DEF IInv
<1> QED BY <1>3, <1>8, <1>9

(* Every action of dfs keeps the invariant.                                 *)
LEMMA BeginInv == IInv /\ Begin => IInv'
<1> SUFFICES ASSUME IInv, Begin PROVE IInv'
  OBVIOUS
<1> DEFINE row == [of |-> <<>>, values |-> <<>>]
           n == Len(assigned_table)
<1>1. /\ stack = <<>> /\ answer = None /\ ans = <<>> /\ query' = query /\ ans' = ans
      /\ query \in Queries /\ OrderKept(query, assigned_table)
  BY DEF Begin, IInv, AnswerOK
<1>2. Call(query.where, query.from, row, <<>>)
  BY DEF Begin
<1>3. row.of = <<>>
  OBVIOUS
<1> HIDE DEF row, n
<1>4. /\ Ready(query, assigned_table, <<>>, <<>>, row, n)
      /\ Conds(query, <<>>) = query.where
      /\ TablesLeft(query, Before(assigned_table, n)) = query.from
  BY <1>1, BeginReady DEF row, n
<1>5. n # 0
  <2>1. n = Len(query.from)
    BY <1>1 DEF n, OrderKept
  <2> QED BY <1>1, <2>1, QueryFacts
<1>6. Call(Conds(query, row.of), TablesLeft(query, Before(assigned_table, n)), row, <<>>)
  BY <1>2, <1>3, <1>4
<1> QED BY <1>1, <1>4, <1>5, <1>6, CallInv

(* The next row of the innermost call.                                      *)
LEMMA NextRow ==
  ASSUME IInv, stack # <<>>, Top.left # <<>>,
         NEW n, n = Len(assigned_table) - Len(stack),
         NEW row, row = Merged(query, Top.row, Top.table, Head(Top.left))
  PROVE  /\ Ready(query, assigned_table, ans, Visited, row, n)
         /\ Len(Top.tables) = n + 1 /\ n \in Nat
         /\ TablesLeft(query, Before(assigned_table, n)) = Rest(Top)
         /\ Len(query.from) > 1 =>
              Assign(Top.where, Top.table, query.data[Top.table][Head(Top.left)]) = Conds(query, row.of)
         /\ Len(Top.tables) > 1 => Len(query.from) > 1
         /\ answer = None
<1> DEFINE top == stack[Len(stack)]
           v == Visit(stack)
           i == Head(Top.left)
<1>1. Top = top
  BY DEF Top, Last
<1>2. /\ query \in Queries /\ OrderKept(query, assigned_table)
      /\ CallsOK(query, assigned_table, ans, stack) /\ answer = None
  BY DEF IInv, AnswerOK
<1>3. Visited = v
  BY <1>1 DEF Visited, Visit, Taken
<1>4. Named(query) => \A f \in Meaning(query) : Held(ans, stack, f)
  BY DEF IInv, Covered
<1>5. Visits(query, assigned_table, ans, stack, v, Top, row, i)
  BY <1>1, <1>2, <1>4 DEF Visits
<1> HIDE DEF top, v, i
<1>6. /\ Ready(query, assigned_table, ans, v, row, n) /\ Len(Top.tables) = n + 1
      /\ TablesLeft(query, Before(assigned_table, n)) = Without(Top.tables, Top.table)
      /\ Len(query.from) > 1 =>
           Assign(Top.where, Top.table, query.data[Top.table][i]) = Conds(query, row.of)
  BY <1>2, <1>5, VisitedReady
<1>7. Without(Top.tables, Top.table) = Rest(Top)
  BY DEF Without, Rest
<1>8. n \in Nat
  BY <1>6 DEF Ready
<1>9. Len(Top.tables) > 1 => Len(query.from) > 1
  <2>1. Len(assigned_table) = Len(query.from) /\ Len(stack) \in Nat /\ Len(stack) >= 1
        /\ Len(query.from) \in Nat
    <3>1. stack \in Seq(ToSet(stack))
      BY <1>2 DEF CallsOK
    <3>2. Len(stack) \in Nat /\ Len(stack) >= 1
      BY <3>1, VisitedFacts
    <3> QED BY <1>2, <3>2, QueryFacts DEF OrderKept
  <2> QED BY <1>6, <1>8, <2>1
<1> QED BY <1>2, <1>3, <1>6, <1>7, <1>8, <1>9 DEF i

(* The call for the next row of a table.                                    *)
LEMMA VisitRowInv == IInv /\ VisitRow => IInv'
<1> SUFFICES ASSUME IInv, VisitRow PROVE IInv'
  OBVIOUS
<1> DEFINE n == Len(assigned_table) - Len(stack)
           i == Head(Top.left)
           row == Merged(query, Top.row, Top.table, i)
<1>1. /\ stack # <<>> /\ Top.left # <<>> /\ Len(Top.tables) > 1 /\ query' = query /\ ans' = ans
      /\ Call(Assign(Top.where, Top.table, query.data[Top.table][i]), Rest(Top), row, Visited)
  BY DEF VisitRow
<1> HIDE DEF n, row
<1>2. /\ Ready(query, assigned_table, ans, Visited, row, n)
      /\ Len(Top.tables) = n + 1 /\ n \in Nat
      /\ TablesLeft(query, Before(assigned_table, n)) = Rest(Top)
      /\ Len(query.from) > 1 =>
           Assign(Top.where, Top.table, query.data[Top.table][i]) = Conds(query, row.of)
      /\ Len(Top.tables) > 1 => Len(query.from) > 1
      /\ answer = None
  <2>1. n = Len(assigned_table) - Len(stack) /\ row = Merged(query, Top.row, Top.table, Head(Top.left))
    BY DEF n, row
  <2> QED BY <1>1, <2>1, NextRow
<1>3. Call(Conds(query, row.of), TablesLeft(query, Before(assigned_table, n)), row, Visited)
  BY <1>1, <1>2
<1>4. n # 0
  BY <1>1, <1>2
<1> QED BY <1>1, <1>2, <1>3, <1>4, CallInv

(* The next row of the last table.                                          *)
LEMMA AddRowInv == IInv /\ AddRow => IInv'
<1> SUFFICES ASSUME IInv, AddRow PROVE IInv'
  OBVIOUS
<1> DEFINE n == Len(assigned_table) - Len(stack)
           row == Merged(query, Top.row, Top.table, Head(Top.left))
<1>1. /\ stack # <<>> /\ Top.left # <<>> /\ Len(Top.tables) = 1
      /\ ans' = Append(ans, row) /\ stack' = Visited
      /\ query' = query /\ assigned_table' = assigned_table /\ answer' = answer
  BY DEF AddRow
<1> HIDE DEF n, row
<1>2. /\ Ready(query, assigned_table, ans, Visited, row, n)
      /\ Len(Top.tables) = n + 1 /\ n \in Nat /\ answer = None
  <2>1. n = Len(assigned_table) - Len(stack) /\ row = Merged(query, Top.row, Top.table, Head(Top.left))
    BY DEF n, row
  <2> QED BY <1>1, <2>1, NextRow
<1>3. query \in Queries /\ OrderKept(query, assigned_table) /\ RowsOK(query, assigned_table, ans)
  BY DEF IInv
<1>4. n = 0
  <2>1. n \in Nat /\ 1 = n + 1
    BY <1>1, <1>2, Zenon
  <2> QED BY <2>1
<1>5. Ready(query, assigned_table, ans, Visited, row, 0)
  BY <1>2, <1>4
<1>6. /\ RowsOK(query, assigned_table, Append(ans, row))
      /\ CallsOK(query, assigned_table, Append(ans, row), Visited)
      /\ Named(query) => \A f \in Meaning(query) : Held(Append(ans, row), Visited, f)
  BY <1>3, <1>5, AddRowKeeps
<1>7. stack' # <<>>
  <2>1. stack \in Seq(ToSet(stack))
    BY DEF IInv, CallsOK
  <2>2. Len(Visit(stack)) = Len(stack) /\ Len(stack) >= 1
    BY <1>1, <2>1, VisitedFacts
  <2>3. Visited = Visit(stack)
    BY DEF Visited, Visit, Taken
  <2> QED BY <1>1, <2>2, <2>3
<1>8. Covered'
  BY <1>1, <1>6 DEF Covered
<1>9. AnswerOK'
  BY <1>1, <1>2, <1>7 DEF AnswerOK, None
<1>10. /\ query' \in Queries /\ OrderKept(query', assigned_table')
       /\ RowsOK(query', assigned_table', ans') /\ CallsOK(query', assigned_table', ans', stack')
  BY <1>1, <1>3, <1>6
<1> QED BY <1>8, <1>9, <1>10 DEF IInv

(* The end of an inner call.                                                *)
LEMMA ReturnInv == IInv /\ Return => IInv'
<1> SUFFICES ASSUME IInv, Return PROVE IInv'
  OBVIOUS
<1> DEFINE s == Front(stack)
           n == Len(stack)
<1>1. /\ n > 1 /\ stack[n].left = <<>> /\ stack' = s /\ query' = query /\ ans' = ans
      /\ assigned_table' = assigned_table /\ answer' = answer
  BY DEF Return, Top, Last
<1>2. /\ query \in Queries /\ OrderKept(query, assigned_table) /\ RowsOK(query, assigned_table, ans)
      /\ CallsOK(query, assigned_table, ans, stack)
  BY DEF IInv
<1>3. /\ n \in Nat /\ DOMAIN stack = 1 .. n /\ s \in Seq(ToSet(s)) /\ Len(s) = n - 1
      /\ DOMAIN s = 1 .. n - 1 /\ \A k \in 1 .. n - 1 : s[k] = stack[k]
  <2>1. stack \in Seq(ToSet(stack))
    BY <1>2 DEF CallsOK
  <2>2. n \in Nat /\ DOMAIN stack = 1 .. n
    BY <2>1, AppendFacts
  <2> HIDE DEF n
  <2>3. s = [k \in 1 .. n - 1 |-> stack[k]]
    <3>1. s = SubSeq(stack, 1, n - 1)
      BY DEF Front, n
    <3> HIDE DEF s
    <3>2. SubSeq(stack, 1, n - 1) = [k \in 1 .. n - 1 |-> stack[k]]
      <4> DEFINE T == ToSet(stack)
      <4>1. stack \in Seq(T) /\ n = Len(stack)
        BY <2>1 DEF n
      <4> HIDE DEF T
      <4>2. n - 1 \in Nat /\ n - 1 <= Len(stack)
        BY <1>1, <2>2, <4>1
      <4> QED BY <4>1, <4>2
    <3> QED BY <3>1, <3>2
  <2> HIDE DEF s
  <2>4. n - 1 \in Nat /\ s = [k \in 1 .. n - 1 |-> s[k]]
    BY <1>1, <2>2, <2>3
  <2>5. s \in Seq(ToSet(s)) /\ Len(s) = n - 1
    BY <2>4, OfItsRange
  <2> QED BY <2>2, <2>3, <2>5
<1> HIDE DEF s, n
<1>4. CallsOK(query, assigned_table, ans, s)
  <2> QED BY <1>2, <1>3 DEF CallsOK
<1>5. ASSUME Named(query), NEW f \in Meaning(query)
      PROVE  Held(ans, s, f)
  <2>1. Held(ans, stack, f)
    <3>1. stack # <<>>
      BY <1>1, <1>3 DEF n
    <3> QED BY <1>5, <3>1 DEF IInv, Covered
  <2>2. ~ Pending(f, stack[n])
    BY <1>1 DEF Pending, ToSet
  <2>3. \A k \in DOMAIN stack : k = n \/ (k \in DOMAIN s /\ s[k] = stack[k])
    BY <1>3
  <2> QED BY <2>1, <2>2, <2>3 DEF Held
<1>6. stack # <<>> /\ s # <<>>
  BY <1>1, <1>3 DEF n
<1>7. Covered'
  BY <1>1, <1>5 DEF Covered
<1>8. AnswerOK'
  BY <1>1, <1>6 DEF AnswerOK, IInv
<1> QED BY <1>1, <1>2, <1>4, <1>7, <1>8 DEF IInv

(* The end of the outermost call, and the answer.                           *)
LEMMA FinishInv == IInv /\ Finish => IInv'
<1> SUFFICES ASSUME IInv, Finish PROVE IInv'
  OBVIOUS
<1> DEFINE at == assigned_table
<1>1. /\ Len(stack) = 1 /\ stack[1].left = <<>> /\ stack' = <<>> /\ query' = query /\ ans' = ans
      /\ assigned_table' = at
      /\ answer' = IF Unlabelled(query, at) THEN [None EXCEPT !.end = "died"]
                   ELSE [end |-> "answered", cols |-> Labels(query, at)]
  BY DEF Finish, Top, Last
<1>2. /\ query \in Queries /\ OrderKept(query, at) /\ RowsOK(query, at, ans)
      /\ CallsOK(query, at, ans, stack)
  BY DEF IInv
<1>3. DOMAIN stack = {1} /\ stack # <<>>
  <2>1. stack \in Seq(ToSet(stack))
    BY <1>2 DEF CallsOK
  <2>2. DOMAIN stack = 1 .. 1
    BY <1>1, <2>1, AppendFacts
  <2> QED BY <1>1, <2>2
<1>4. at[Len(at)] # NoName
  <2>1. CallOK(query, at, ans, stack[1], 1)
    BY <1>2, <1>3 DEF CallsOK
  <2>2. at[Left(at, 1)] # NoName
    BY <2>1 DEF CallOK
  <2>3. Left(at, 1) = Len(at)
    BY <1>2, QueryFacts DEF Left, OrderKept
  <2> QED BY <2>2, <2>3
<1>5. Covered'
  <2>1. ASSUME Named(query), NEW f \in Meaning(query)
        PROVE  Held(ans, <<>>, f)
    <3>1. Held(ans, stack, f)
      BY <1>3, <2>1 DEF IInv, Covered
    <3>2. ~ Pending(f, stack[1])
      BY <1>1 DEF Pending, ToSet
    <3> QED BY <1>3, <3>1, <3>2 DEF Held
  <2> QED BY <1>1, <2>1 DEF Covered
<1>6. CallsOK(query, at, ans, <<>>)
  <2>1. DOMAIN <<>> = {} /\ <<>> \in Seq(ToSet(<<>>))
    OBVIOUS
  <2> QED BY <2>1 DEF CallsOK
<1>7. AnswerOK'
  <2>1. CASE Unlabelled(query, at)
    <3>1. answer'.end = "died" /\ answer' # None
      BY <1>1, <2>1 DEF None
    <3> QED BY <1>1, <1>4, <2>1, <3>1 DEF AnswerOK
  <2>2. CASE ~ Unlabelled(query, at)
    <3>1. answer'.end = "answered" /\ answer'.cols = Labels(query, at) /\ answer' # None
      BY <1>1, <2>2 DEF None
    <3> QED BY <1>1, <1>4, <2>2, <3>1 DEF AnswerOK
  <2> QED BY <2>1, <2>2
<1> QED BY <1>1, <1>2, <1>5, <1>6, <1>7 DEF IInv

(* What a SELECT has found and has still to do, at every step.              *)
THEOREM Invariance == Spec => []IInv
<1>1. IInv /\ UNCHANGED vars => IInv'
  BY DEF vars, IInv, Covered, AnswerOK
<1>2. IInv /\ [Next]_vars => IInv'
  BY <1>1, BeginInv, VisitRowInv, AddRowInv, ReturnInv, FinishInv DEF Next
<1> QED BY <1>2, InitIInv, PTL DEF Spec

-----------------------------------------------------------------------------
(* What the invariant says of the answer *)

(* When the statement has ended: what was meant was found.                  *)
LEMMA Answered ==
  ASSUME IInv, answer.end # "asked"
  PROVE  /\ query \in Queries /\ stack = <<>>
         /\ ans \in Seq(ToSet(ans)) /\ DOMAIN ans = 1 .. Len(ans) /\ Len(ans) \in Nat
         /\ Found = {ans[i].of : i \in DOMAIN ans}
         /\ Named(query) => \A f \in Meaning(query) : \E i \in DOMAIN ans : ans[i].of = f
<1>1. answer # None /\ stack = <<>>
  BY DEF IInv, AnswerOK, None
<1>2. query \in Queries /\ ans \in Seq(ToSet(ans))
  BY DEF IInv, RowsOK
<1>3. DOMAIN ans = 1 .. Len(ans) /\ Len(ans) \in Nat
  BY <1>2, AppendFacts
<1>4. Found = {ans[i].of : i \in DOMAIN ans}
  BY DEF Found, ToSet
<1>5. ASSUME Named(query), NEW f \in Meaning(query)
      PROVE  \E i \in DOMAIN ans : ans[i].of = f
  <2>1. Held(ans, <<>>, f)
    BY <1>1, <1>5 DEF IInv, Covered
  <2>2. DOMAIN <<>> = {}
    OBVIOUS
  <2> QED BY <2>1, <2>2 DEF Held
<1> QED BY <1>1, <1>2, <1>3, <1>4, <1>5

(* For a clause it understands SELECT finds exactly the rows the clause     *)
(* means, each once (SelectsMeaning): dfs and assign of Nodes.cpp.          *)
THEOREM MeaningIsSelected == Spec => []SelectsMeaning
<1>1. IInv => SelectsMeaning
  <2> SUFFICES ASSUME IInv, answer.end = "answered", Plain(query)
               PROVE  Found = Meaning(query) /\ Len(ans) = Cardinality(Meaning(query))
    BY DEF SelectsMeaning
  <2> DEFINE M == Meaning(query)
             n == Len(ans)
             g == [i \in 1 .. n |-> ans[i].of]
  <2>1. /\ DOMAIN ans = 1 .. n /\ n \in Nat
        /\ Found = {ans[i].of : i \in DOMAIN ans}
        /\ \A f \in M : \E i \in DOMAIN ans : ans[i].of = f
    <3>1. Named(query)
      BY DEF Plain
    <3> QED BY <3>1, Answered
  <2>2. \A i \in DOMAIN ans : ans[i].of \in M
    BY DEF IInv, RowsOK
  <2>3. Found = M
    BY <2>1, <2>2
  <2>4. \A i, j \in DOMAIN ans : ans[i].of = ans[j].of => i = j
    BY DEF IInv, RowsOK
  <2> HIDE DEF M, n
  <2>5. g \in [1 .. n -> M]
    BY <2>1, <2>2
  <2>6. g \in Injection(1 .. n, M) /\ g \in Surjection(1 .. n, M)
    <3>1. \A i, j \in 1 .. n : g[i] = g[j] => i = j
      BY <2>1, <2>4
    <3>2. \A f \in M : \E i \in 1 .. n : g[i] = f
      BY <2>1
    <3> HIDE DEF g
    <3> QED BY <2>5, <3>1, <3>2 DEF Injection, IsInjective, Surjection
  <2>7. Cardinality(M) = n
    <3>1. IsFiniteSet(1 .. n) /\ Cardinality(1 .. n) = n
      BY <2>1, FS_Interval
    <3> HIDE DEF g
    <3> QED BY <2>6, <3>1, FS_Surjection
  <2> QED BY <2>3, <2>7 DEF M, n
<1> QED BY <1>1, Invariance, PTL

(* Whatever getChecker forgets, no row is missed (NeverMisses).             *)
THEOREM NothingIsMissed == Spec => []NeverMisses
<1>1. IInv => NeverMisses
  BY Answered DEF NeverMisses
<1> QED BY <1>1, Invariance, PTL

(* dfs takes the tables in one order for all rows (OneOrder), which is why  *)
(* assigned_table, written once for each level, tells what the columns of   *)
(* the answer are.                                                          *)
THEOREM TablesInOneOrder == Spec => []OneOrder
<1>1. IInv => OneOrder
  <2> SUFFICES ASSUME IInv, NEW k \in DOMAIN stack
               PROVE  assigned_table[Len(stack[k].tables)] = stack[k].table
    BY DEF OneOrder
  <2>1. CallOK(query, assigned_table, ans, stack[k], k)
    BY DEF IInv, CallsOK
  <2> QED BY <2>1 DEF CallOK
<1> QED BY <1>1, Invariance, PTL

(* For every projection, and in whatever order dfs took the tables, each    *)
(* row of the answer has as many values as there are labels and the k-th    *)
(* label of a table stands over its k-th column; for SELECT * and for a     *)
(* projection of first columns that is the column it names (LabelsFit).     *)
THEOREM LabelsFitValues == Spec => []LabelsFit
<1>1. IInv => LabelsFit
  <2> SUFFICES ASSUME IInv, answer.end = "answered", NEW r \in ToSet(ans)
               PROVE  /\ Len(r.values) = Len(answer.cols)
                      /\ \A n \in DOMAIN answer.cols :
                           LET t == Home(query, answer.cols[n].table)
                               k == PlaceOf(query, answer.cols, n)
                           IN  /\ r.values[n] = query.data[t][r.of[t]][k]
                               /\ FirstColumns(query) => answer.cols[n].col = k
    BY DEF LabelsFit
  <2>1. answer.cols = Labels(query, assigned_table)
    BY DEF IInv, AnswerOK
  <2>2. assigned_table \in Seq(Tables \cup {NoName})
    BY DEF IInv, OrderKept
  <2>3. answer.cols = LabelsTo(query, assigned_table, Len(assigned_table))
    BY <2>1, <2>2, LabelsToAll
  <2>4. PICK i \in DOMAIN ans : r = ans[i]
    BY DEF ToSet
  <2>5. Fits(query, r, answer.cols)
    BY <2>3, <2>4 DEF IInv, RowsOK
  <2> QED BY <2>5 DEF Fits
<1> QED BY <1>1, Invariance, PTL

(* SELECT * ends the process only when there is nothing to answer, and an   *)
(* unknown column is reported only if a name ends in another                *)
(* (EndsOnlyIfEmpty).                                                       *)
THEOREM EndsAreEmpty == Spec => []EndsOnlyIfEmpty
<1>1. IInv => EndsOnlyIfEmpty
  <2> SUFFICES ASSUME IInv PROVE EndsOnlyIfEmpty
    OBVIOUS
  <2>1. ASSUME answer.end = "died", Named(query)
        PROVE  Meaning(query) = {} /\ Len(query.from) > 1
    <3> DEFINE at == assigned_table
               l == Len(at)
    <3>1. /\ NoName \in ToSet(at) /\ at[l] # NoName
          /\ at \in Seq(Tables \cup {NoName}) /\ l = Len(query.from) /\ query \in Queries
      BY <2>1 DEF IInv, AnswerOK, Unlabelled, OrderKept
    <3>2. ans = <<>>
      BY <3>1 DEF IInv, RowsOK
    <3>3. Meaning(query) = {}
      <4>1. DOMAIN <<>> = {}
        OBVIOUS
      <4> QED BY <2>1, <3>2, <4>1, Answered
    <3>4. DOMAIN at = 1 .. l /\ l \in Nat /\ l >= 1
      BY <3>1, QueryFacts
    <3>5. PICK m \in DOMAIN at : at[m] = NoName
      BY <3>1 DEF ToSet
    <3> HIDE DEF l
    <3>6. m \in 1 .. l /\ m # l
      BY <3>1, <3>4, <3>5
    <3>7. l > 1
      BY <3>4, <3>6
    <3> QED BY <3>1, <3>3, <3>7
  <2>2. answer.end = "noThisColumn" => ~ Named(query)
    BY DEF IInv, AnswerOK
  <2> QED BY <2>1, <2>2 DEF EndsOnlyIfEmpty
<1> QED BY <1>1, Invariance, PTL
=============================================================================
