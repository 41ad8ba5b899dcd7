--------------------------- MODULE MCRecordEditor ---------------------------
(* Two incidents; a validated text row and the row of one person, whose    *)
(* two values are saved together.                                          *)
EXTENDS RecordEditor

MCRecords == {1, 2}
MCFields == {"started", "people"}
MCTexts == {"a", "b", "bad"}
MCMalformed == {"bad"}
MCRights == {"writeIncidents"}
MCChoices == {"c"}
MCMembers == {"m"}
MCPersons == {"p"}
MCInvolvements == {"i"}
=============================================================================
