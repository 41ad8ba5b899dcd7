------------------------------ MODULE MCScreens ------------------------------
(* One of the wide client's screens: the roster, written and moved about   *)
(* by its viewer and written by others, or one of the tables, by a link,   *)
(* on its own or under a page.  The screens share no state.                *)
EXTENDS Ladder, Dispatch
CONSTANTS ann, bob, new

People0 == {ann, bob, new}
Start(bobs) == [p \in People0 |->
    CASE p = ann -> [rung |-> "reporter", band |-> "old", crew |-> FALSE]
      [] p = bob -> [rung |-> bobs, band |-> IF bobs \in OffList THEN "" ELSE "old", crew |-> FALSE]
      [] p = new -> [rung |-> "unborn", band |-> "", crew |-> FALSE]]

Scene(bobs, access, offers, w, o, f) ==
    [start |-> Start(bobs), access |-> access, offers |-> offers, writes |-> w, others |-> o, faults |-> f]

MCScenes ==
    {Scene("gone", "inviter", {"role", "outage"}, 2, 0, 1),
     Scene("volunteer", "admin", {"role"}, 2, 1, 0),
     Scene("gone", "inviter", {"role"}, 1, 2, 1),
     Scene("none", "inviter", {"enrol"}, 2, 1, 1),
     Scene("gone", "admin", {"enrol", "create"}, 2, 0, 1),
     Scene("gone", "inviter", {"crew"}, 2, 0, 1),
     Scene("gone", "inviter", {"crew", "role"}, 2, 0, 1),
     Scene("unborn", "inviter", {"drag"}, 1, 2, 0),
     Scene("gone", "inviter", {"hover", "drag"}, 1, 0, 0),
     Scene("volunteer", "admin", {"hover", "keys", "crew"}, 0, 0, 0),
     Scene("volunteer", "inviter", {"hover"}, 1, 0, 0),
     [Scene("volunteer", "inviter", {"hover"}, 0, 0, 0) EXCEPT !.start[new].rung = "reporter"]}

\* A bare number matches every number it begins; a half-typed expression none.
MCPassing  == [f \in Filters |-> IF f = "days" THEN {1, 2, 12} ELSE {1, 2}]
MCMatching == [s \in Searches |-> CASE s = "" -> {1, 2, 12} [] s = "one" -> {1, 12}
                                    [] s = "word" -> {2} [] s = "half" -> {}]
MCBare     == [s \in Searches |-> IF s = "one" THEN 1 ELSE 0]

Rows(one, two, twelve) == [n \in {1, 2, 12} |-> CASE n = 1 -> one [] n = 2 -> two [] n = 12 -> twelve]
Shift(kind, link, device, number, some, acts, changes, offers) ==
    [kind |-> kind, url |-> link, saved |-> device, page |-> number, rows |-> some,
     acts |-> acts, changes |-> changes, offers |-> offers]

MCShifts ==
    {Shift("incidents", Bar, "closed", 0, Rows("open", "closed", "closed"), 3, 1,
           {"state", "reload", "page", "keys"}),
     Shift("incidents", [Bar EXCEPT !.open = 2], "all", 0, Rows("open", "open", "closed"), 2, 1,
           {"sort", "filter", "page"}),
     Shift("incidents", [Bar EXCEPT !.tab = "closed", !.open = 1], "junk", 0, Rows("none", "open", "closed"), 2, 1,
           {"state", "filter", "outage"}),
     Shift("incidents", Bar, "all", 0, Rows("open", "open", "closed"), 4, 0,
           {"search", "keys", "help", "page"}),
     Shift("incidents", Bar, "closed", 12, Rows("open", "open", "closed"), 3, 1,
           {"state", "keys", "help"}),
     Shift("reports", Bar, "none", 0, Rows("unlinked", "linked", "unlinked"), 3, 1,
           {"state", "sort", "page"}),
     Shift("reports", Bar, "none", 0, Rows("unlinked", "linked", "unlinked"), 3, 1,
           {"search", "keys", "outage"}),
     Shift("reports", Bar, "none", 2, Rows("unlinked", "linked", "unlinked"), 2, 1,
           {"state", "page", "keys"})}

VARIABLE screen

\* The screen that is not up stands still in one of its first states.
ScreensInit ==
    /\ screen \in {"roster", "table"}
    /\ LadderInit /\ (screen = "table" => scene = CHOOSE s \in Scenes : TRUE)
    /\ TableInit /\ (screen = "roster" => shift = CHOOSE s \in Shifts : TRUE)

ScreensNext ==
    \/ screen = "roster" /\ LadderNext /\ UNCHANGED <<screen, tableVars>>
    \/ screen = "table" /\ TableNext /\ UNCHANGED <<screen, screenVars>>

ScreensSpec == ScreensInit /\ [][ScreensNext]_<<screen, screenVars, tableVars>>
=============================================================================
