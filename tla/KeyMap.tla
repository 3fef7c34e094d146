-------------------------------- MODULE KeyMap --------------------------------
(***************************************************************************)
(* What an index promises: a map from keys to data, each key at most once. *)
(* A call for a key that is missing, or present in the case of insert, is  *)
(* answered with an exception and changes nothing.                         *)
(***************************************************************************)
CONSTANTS Keys, Data

VARIABLES map,     \* a function from some Keys to Data
          alive    \* FALSE once the index is broken or the process has died

vars == <<map, alive>>

Init == /\ map = [k \in {} |-> k]
        /\ alive = TRUE

Insert(k, d) == /\ alive
                /\ k \notin DOMAIN map
                /\ map' = [x \in DOMAIN map \cup {k} |-> IF x = k THEN d ELSE map[x]]
                /\ UNCHANGED alive

Update(k, d) == /\ alive
                /\ k \in DOMAIN map
                /\ map' = [map EXCEPT ![k] = d]
                /\ UNCHANGED alive

(* A key may be lost, or removed, and that be the end of the index.         *)
Remove(k) == /\ alive
             /\ k \in DOMAIN map
             /\ map' = [x \in DOMAIN map \ {k} |-> map[x]]
             /\ alive' \in BOOLEAN

Die == /\ alive
       /\ alive' = FALSE
       /\ UNCHANGED map

Next == \/ Die
        \/ \E k \in Keys : \/ Remove(k)
                           \/ \E d \in Data : Insert(k, d) \/ Update(k, d)

Spec == Init /\ [][Next]_vars
=============================================================================
