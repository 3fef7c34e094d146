------------------------------- MODULE MCCatalog -------------------------------
(***************************************************************************)
(* Instance of Catalog for TLC: the name "ab" ends in "b".  Nothing is     *)
(* created in the second database.                                         *)
(***************************************************************************)
EXTENDS Catalog

MCEndsWith == {<<"b", "ab">>}
MCSchemas(db, t) ==
  CASE db = "d" /\ t = "b"  -> {[cols |-> {1, 2}, keys |-> {1}], [cols |-> {1, 2}, keys |-> {}]}
    [] db = "d" /\ t = "ab" -> {[cols |-> {1}, keys |-> {}]}
    [] OTHER                -> {}
=============================================================================
