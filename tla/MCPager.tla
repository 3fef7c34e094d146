------------------------------- MODULE MCPager -------------------------------
(***************************************************************************)
(* Instance of Pager for TLC.  Pages 0 and 1 can be cached by a pager of 1 *)
(* or 2 buffers; page 3 needs a size that no signed int holds.             *)
(***************************************************************************)
EXTENDS Pager, TLC

CONSTANTS zero, a, null

MCContents == {zero, a}
=============================================================================
