------------------------------- MODULE MCBTree -------------------------------
(***************************************************************************)
(* Instance of BTree for TLC, with the ranks of test/TestBTree.cpp, where  *)
(* five keys make a tree of three levels.  The data of a key has a         *)
(* location of its own, and there is a spare one that an update can move   *)
(* it to; nodes take the first location behind those.                      *)
(***************************************************************************)
EXTENDS BTree

CONSTANT KeyCount

MCKeys == 1 .. KeyCount
DataLocs(k) == {k, KeyCount + 1}
NodeLocs == KeyCount + 2 .. MaxLoc

(* The tree never looks at data: exchanging them everywhere changes nothing. *)
DataSymmetry == Permutations(Data)

MCDataPlace(F, k) == Min(IF F \cap DataLocs(k) = {} THEN F ELSE F \cap DataLocs(k))
MCNodePlace(F) == Min(IF F \cap NodeLocs = {} THEN F ELSE F \cap NodeLocs)
=============================================================================
