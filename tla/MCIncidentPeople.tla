------------------------- MODULE MCIncidentPeople -------------------------
(* Two overlapping calls on the people of a private incident: wes is its   *)
(* creator, wil writes only while he has a grant, so a revocation also     *)
(* closes the gate for his next call.                                      *)
EXTENDS IncidentPeople
===========================================================================
