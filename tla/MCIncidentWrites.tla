------------------------- MODULE MCIncidentWrites -------------------------
(* Two overlapping calls over two incidents; the payloads each exercise    *)
(* one branch of updateIncident.                                           *)
EXTENDS IncidentWrites, TLC

CONSTANTS ann, bob, gus, t1, o1, k1, r1

Nothing == [state |-> Absent, summary |-> Absent, outcome |-> Absent,
            private |-> Absent, types |-> Absent, attached |-> Absent,
            links |-> Absent, entry |-> Absent]

MCPayloads ==
  { [Nothing EXCEPT !.state = "closed", !.attached = {r1}, !.links = {2},
                    !.types = {k1}],
    [Nothing EXCEPT !.state = "open", !.private = "private", !.links = {},
                    !.attached = {}, !.types = {}],
    [Nothing EXCEPT !.links = {1}, !.outcome = o1, !.attached = {r1}],
    [Nothing EXCEPT !.outcome = UnknownOutcome],
    [Nothing EXCEPT !.entry = "text"] }

Perms == Permutations(Requests)

===========================================================================
