--------------------------- MODULE MCRecordManager ---------------------------
(***************************************************************************)
(* Instance of RecordManager for TLC.  A fixed page of 22 bytes holds two  *)
(* records of 5 or 6 bytes; the rest, of 3 or 1, trips the assertion of    *)
(* tryInsert for length 5.  A variable page holds one record of 6 and one  *)
(* of 10 bytes, or two of 6 and 1 byte that is lost; 17 bytes do not fit   *)
(* an empty page.  Dictionary pages describe one data page (3 is one), or  *)
(* two (4): 4, or 5, is the first page whose entry del does not find.      *)
(***************************************************************************)
EXTENDS RecordManager

CONSTANTS f, g, v6, v10, v17, noRec

MCLens == {5, 6}
MCVarLen == [r \in VarRecs |-> IF r = v17 THEN 17 ELSE IF r = v10 THEN 10 ELSE 6]
=============================================================================
