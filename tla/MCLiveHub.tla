----------------------------- MODULE MCLiveHub -----------------------------
(* The shell, which only watches, and the table of incidents: two claims   *)
(* on one stream.                                                          *)
EXTENDS LiveHub

MCReads == [s \in Screens |-> CASE s = "shell" -> {}
                                [] s = "table" -> {"incidents"}
                                [] s = "report" -> {"r1"}]
===========================================================================
