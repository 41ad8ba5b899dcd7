---------------------------- MODULE MCLegacyFeed ----------------------------
(* Two tabs of one browser, one record of each kind. *)
EXTENDS LegacyFeed, TLC

CONSTANTS t1, t2, i1, p1, v1

MCTabs      == {t1, t2}
MCIncidents == {i1}
MCReports   == {p1}
MCVisits    == {v1}

\* One tab shows a table, the other the page of a record or the table of reports.
MCPages ==
    (t1 :> {Table("visit")})
    @@ (t2 :> {Record(i1), Record(p1), Record(v1), Table("report"), Table("incident")})
=============================================================================
