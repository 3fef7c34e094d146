----------------------------- MODULE RecordStore -----------------------------
(***************************************************************************)
(* What the record manager promises for one table file: records that stay  *)
(* where insert put them, untouched by what happens to the others, until   *)
(* they are deleted or updated.  An update may move the record.            *)
(***************************************************************************)
CONSTANTS Locations,  \* page number and offset of a record
          Recs        \* what a record may hold

VARIABLES records,    \* the live records: a function from some Locations to Recs
          alive       \* FALSE once the process has died

vars == <<records, alive>>

Init == /\ records = [l \in {} |-> l]
        /\ alive = TRUE

(* records with those at S gone and r at l.                                 *)
Moved(S, l, r) ==
  [k \in (DOMAIN records \ S) \cup {l} |-> IF k = l THEN r ELSE records[k]]

Insert(l, r) == /\ alive
                /\ l \notin DOMAIN records
                /\ records' = Moved({}, l, r)
                /\ UNCHANGED alive

(* The record at l is replaced, in its place or at a free one.              *)
Update(l, m, r) == /\ alive
                   /\ l \in DOMAIN records
                   /\ m = l \/ m \notin DOMAIN records
                   /\ records' = Moved({l}, m, r)
                   /\ UNCHANGED alive

(* Also what is left when the process dies in an update of S or, with an    *)
(* empty S, in an insert.                                                   *)
Delete(S) == /\ alive
             /\ S \subseteq DOMAIN records
             /\ records' = [k \in DOMAIN records \ S |-> records[k]]
             /\ alive' \in BOOLEAN

Next == \/ \E S \in SUBSET DOMAIN records : Delete(S)
        \/ \E l \in Locations, r \in Recs : Insert(l, r)
        \/ \E l \in DOMAIN records, m \in Locations, r \in Recs : Update(l, m, r)

Spec == Init /\ [][Next]_vars
=============================================================================
