--------------------------- MODULE MCLegacyRecord ---------------------------
(* A user edits an incident; writes on one page of each kind; or writes on *)
(* two pages of incidents, which share the draft of new ones.              *)
EXTENDS LegacyRecord
CONSTANTS t1, t2, w1, w2, a, b

Plan(k, n, one, other) == [kind |-> k, ops |-> n, offers |-> [t \in {t1, t2} |-> IF t = t1 THEN one ELSE other]]

MCPlans ==
    {Plan("incident", 2, Ops \ {"entry"}, {}),
     Plan("incident", 3, {"grant", "involve", "unperson"}, {}),
     Plan("incident", 3, {"add", "remove"}, {}),
     Plan("incident", 2, {"entry", "edit"}, {}),
     Plan("incident", 2, {"entry"}, {"entry"}),
     Plan("report", 2, {"entry", "edit", "poke"}, {}),
     Plan("report", 2, {"edit", "file", "strike"}, {}),
     Plan("visit", 2, {"entry", "edit", "file", "poke"}, {})}

\* Texts and types are interchangeable.
MCSymmetry == Permutations({w1, w2}) \cup Permutations({a, b})
=============================================================================
