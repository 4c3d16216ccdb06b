--------------------------- MODULE MCOverviewPage ----------------------------
(***************************************************************************)
(* OverviewPage for TLC.  The sessions are interchangeable: neither the    *)
(* page nor the server compares their ids, and the properties checked are  *)
(* invariants.                                                             *)
(***************************************************************************)
EXTENDS OverviewPage, TLC

Interchangeable == Permutations(Sessions)
=============================================================================
