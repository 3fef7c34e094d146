----------------------------- MODULE MCTableIndex -----------------------------
(***************************************************************************)
(* Instances of TableIndex for TLC.                                        *)
(***************************************************************************)
EXTENDS TableIndex

NoCond == [op |-> "any", val |-> 1]
Eq(v) == [op |-> "=", val |-> v]
Ne(v) == [op |-> "<>", val |-> v]

Schema(unique, gender, foreign, create, drop) ==
  [unique |-> unique, notNull |-> unique, gender |-> gender, foreign |-> foreign,
   create |-> create, drop |-> drop]

MCSchemas == {Schema({1}, {}, {}, {2}, {}),
              Schema({1}, {}, {}, {1}, {1}),
              Schema({}, {2}, {}, {1}, {1}),
              Schema({}, {}, {}, {1, 2}, {}),
              Schema({1}, {}, {2}, {}, {})}

MCClauses == {<<NoCond, Ne(1)>>, <<Eq(1), NoCond>>, <<NoCond, Eq(1)>>, <<Eq(1), Eq(1)>>}
MCSettings == {<<1, 2>>, <<2, 1>>}
MCLists == {<< <<1, 1>> >>, << <<2, 1>> >>, << <<1, Null>> >>, << <<1, 1>>, <<2, 1>> >>}
MCRowPlace(F) == Min(F)
=============================================================================
