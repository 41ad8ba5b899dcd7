-------------------------- MODULE MCReportWrites --------------------------
(* Overlapping calls on reports that move between two incidents; incident  *)
(* 3 does not exist.                                                       *)
EXTENDS ReportWrites, TLC

Perms == Permutations(Requests)
===========================================================================
