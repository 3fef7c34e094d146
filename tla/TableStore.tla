------------------------------ MODULE TableStore ------------------------------
(***************************************************************************)
(* What a table promises: a bag of rows.  INSERT and UPDATE work row by    *)
(* row; the rows not yet put are in stmt.  A row of an UPDATE is put back  *)
(* changed or as it was; when both are refused the statement fails and     *)
(* this row and the rest are lost.  Any call may end the process.          *)
(***************************************************************************)
EXTENDS Integers, Sequences, FiniteSets

CONSTANTS Rows, Lists, Clauses, Settings, Meets(_, _), Changed(_, _)

VARIABLES table,   \* [Rows -> Nat]: how often each row is in the table
          stmt,    \* [kind, rows, set]: the statement being executed
          exact,   \* every index in use has every row
          alive

vars == <<table, stmt, exact, alive>>

NoRows == [r \in Rows |-> 0]
Idle == [kind |-> "idle", rows |-> <<>>, set |-> <<>>]
Rest(s) == IF Len(s.rows) = 1 THEN Idle ELSE [s EXCEPT !.rows = Tail(@)]

Init == table = NoRows /\ stmt = Idle /\ exact = TRUE /\ alive = TRUE

BeginInsert == /\ stmt = Idle
               /\ \E rows \in Lists : stmt' = [kind |-> "insert", rows |-> rows, set |-> <<>>]
               /\ UNCHANGED <<table, exact, alive>>

(* The rows that meet w leave the table: all of them, or fewer when an      *)
(* index without some of them is in use.                                    *)
TakesOut(w) ==
  \A r \in Rows : CASE ~Meets(r, w)         -> table'[r] = table[r]
                    [] Meets(r, w) /\ exact -> table'[r] = 0
                    [] OTHER                -> table'[r] <= table[r]

Delete(w) == /\ stmt = Idle
             /\ TakesOut(w)
             /\ UNCHANGED <<stmt, exact, alive>>

(* Every row taken out is to be put back; when none is, the statement ends. *)
BeginUpdate(w, set) ==
  /\ stmt = Idle
  /\ TakesOut(w)
  /\ \/ /\ stmt'.kind = "update" /\ stmt'.set = set
        /\ \A r \in Rows :
             Cardinality({i \in DOMAIN stmt'.rows : stmt'.rows[i] = r}) = table[r] - table'[r]
     \/ stmt' = Idle /\ table' = table
  /\ UNCHANGED <<exact, alive>>

PutRow == /\ stmt # Idle
          /\ \E r \in {Head(stmt.rows)} \cup
                      IF stmt.kind = "update" THEN {Changed(Head(stmt.rows), stmt.set)} ELSE {} :
               table' = [table EXCEPT ![r] = @ + 1]
          /\ stmt' = Rest(stmt)
          /\ UNCHANGED <<exact, alive>>

Refuse == /\ stmt # Idle /\ stmt' = Idle
          /\ UNCHANGED <<table, exact, alive>>

DropIndex == /\ stmt = Idle
             /\ exact' = FALSE
             /\ UNCHANGED <<table, stmt, alive>>

Die == /\ alive' = FALSE /\ table' = NoRows /\ stmt' = Idle
       /\ UNCHANGED exact

Next == /\ alive
        /\ \/ BeginInsert \/ PutRow \/ Refuse \/ DropIndex \/ Die
           \/ \E w \in Clauses : Delete(w) \/ \E set \in Settings : BeginUpdate(w, set)

Spec == Init /\ [][Next]_vars
=============================================================================
