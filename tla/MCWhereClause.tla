----------------------------- MODULE MCWhereClause -----------------------------
(***************************************************************************)
(* Queries for TLC.  The name "ab" ends in "b".                            *)
(***************************************************************************)
EXTENDS WhereClause

MCColsOf == [a |-> 1, b |-> 1, c |-> 1] @@ [ab |-> 2]
MCEndsWith == {<<"b", "ab">>}

Comparing(names, ops, values) ==
  LET columns == {[table |-> n[1], col |-> n[2]] : n \in names}
      rhs == {Const(v) : v \in values} \cup {Column(n[1], n[2]) : n \in names}
  IN  {[table |-> x.table, col |-> x.col, op |-> op, rhs |-> r] :
         x \in columns, op \in ops, r \in rhs}
IsNull(names) ==
  {[table |-> n[1], col |-> n[2], op |-> op, rhs |-> Const(Null)] :
     n \in names, op \in {"isnull", "isnotnull"}}
UpTo2(S) == {<<>>} \cup {<<x>> : x \in S} \cup (S \X S)

Row(x) == <<x>>
Data(a, b, c, ab) == [a |-> a, b |-> b, c |-> c, ab |-> ab]
Pairs == << <<1, 2>>, <<2, 1>>, <<2, 2>>, <<Null, 1>> >>
Contents == {Data(<<Row(1), Row(2)>>, <<>>, <<>>, Pairs),
             Data(<<Row(Null), Row(2)>>, <<>>, <<>>, SubSeq(Pairs, 2, 3)),
             Data(<<>>, <<>>, <<>>, Pairs)}
Indexes == {[t \in Tables |-> {}], [t \in Tables |-> {1}], [t \in Tables |-> 1 .. ColsOf[t]]}
Name(t, c) == [table |-> t, col |-> c]

(* One table, with names that have no table; two tables, every pair of      *)
(* conditions; a table whose name ends another's; three tables, joins.      *)
MCQueries ==
  [from : {<<"ab">>}, cols : {<<>>, <<Name(NoName, 1)>>, <<Name("ab", 2)>>},
   where : UpTo2(Comparing({<<NoName, 1>>, <<"ab", 2>>}, {"=", "<="}, {1, Null})
                 \cup IsNull({<<NoName, 1>>})),
   data : Contents, indexed : Indexes]
  \cup
  [from : {<<"a", "ab">>, <<"ab", "a">>}, cols : {<<>>, <<Name("ab", 1), Name("a", 1)>>},
   where : UpTo2(Comparing({<<"a", 1>>, <<"ab", 1>>, <<"ab", 2>>}, {"=", "<", ">="}, {1, Null})
                 \cup IsNull({<<"ab", 1>>})),
   data : Contents, indexed : Indexes]
  \cup
  [from : {<<"b", "ab">>, <<"ab", "b">>}, cols : {<<>>},
   where : UpTo2(Comparing({<<"b", 1>>, <<"ab", 2>>}, {"=", ">"}, {1})),
   data : {Data(<<>>, <<Row(1), Row(2)>>, <<>>, Pairs)}, indexed : Indexes]
  \cup
  [from : {<<"a", "b", "ab">>}, cols : {<<>>},
   where : UpTo2(Comparing({<<"a", 1>>, <<"b", 1>>, <<"ab", 2>>}, {"="}, {1})),
   data : {Data(<<Row(1)>>, <<Row(1), Row(2)>>, <<>>, Pairs)}, indexed : Indexes]
  \cup
  [from : SetToSeqs({"a", "c", "ab"}), cols : {<<>>, <<Name("c", 1), Name("ab", 1)>>},
   where : {w \in UpTo2(Comparing({<<"a", 1>>, <<"c", 1>>, <<"ab", 1>>, <<"ab", 2>>}, {"="}, {2})) :
              \A i \in DOMAIN w : w[i].rhs.type = "col" => w[i].rhs.table # w[i].table},
   data : {Data(a, <<>>, <<Row(2), Row(2), Row(1)>>, Pairs) :
             a \in {<<Row(1), Row(2)>>, <<Row(Null), Row(1)>>}},
   indexed : {[t \in Tables |-> IF t = u THEN {1} ELSE {}] : u \in {"a", "c", "ab"}}]
=============================================================================
