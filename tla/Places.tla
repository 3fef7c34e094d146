--------------------------------- MODULE Places --------------------------------
(***************************************************************************)
(* Sets of numbers in their order, and the elements at some places of a    *)
(* list, which is what is left when the others are erased.                 *)
(***************************************************************************)
EXTENDS Integers, Sequences, FiniteSets

(* The elements of the finite set S of numbers, in increasing order.        *)
Ordered(S) ==
  CHOOSE s \in [1 .. Cardinality(S) -> S] : \A i, j \in DOMAIN s : i < j => s[i] < s[j]

(* The elements of list at the places in K, in their order.                 *)
ElementsAt(list, K) ==
  LET place == Ordered(K) IN [i \in DOMAIN place |-> list[place[i]]]
=============================================================================
