------------------------------- MODULE Roster -------------------------------
(***************************************************************************)
(* The roster's list and its writes (packages/interface/src/features/      *)
(* people: useRoster.ts, roles.ts, AddPerson.tsx, MyCrews.tsx and the      *)
(* query of PeopleScreen.tsx).                                             *)
(*                                                                         *)
(* A role write cancels the read under way, patches the row at once, sends *)
(* the row's wristband with the new role (an empty one clears it) and,     *)
(* whatever the answer, has the list read again; a refused write puts the  *)
(* row of its start back.  Nothing keeps two writes from overlapping.  A   *)
(* read that fails takes the whole body off the screen, with the marks on  *)
(* the rows and the open form.                                             *)
(*                                                                         *)
(* The server's roster is the list of its versions; a read started at      *)
(* version `from` lands with any version not older.                        *)
(***************************************************************************)
EXTENDS Naturals, Sequences, FiniteSets, SequencesExt

CONSTANTS
    People,
    NoLogin,     \* the people without a password
    Scenes,      \* bound: the roster at first, the viewer, what is done, and how many
                 \*        writes, changes by others and faults there are
    None

Columns   == {"writer", "leader", "reporter", "volunteer"}  \* volunteer: or public
OffList   == {"none", "unborn"}    \* not enrolled; no such person
OffLadder == OffList \cup {"gone"}  \* "gone": not present or ejected, listed but in no column
Bands     == {"", "old", "new"}
Offers    == {"role", "enrol", "create", "crew", "hover", "drag", "keys", "outage"}

Row == [rung : Columns \cup OffLadder, band : Bands, crew : BOOLEAN]

ASSUME RosterAssumption ==
    /\ None \notin People \cup Nat \cup {"addPerson", "myCrews"} /\ NoLogin \subseteq People
    /\ None \notin [People -> [rung : Columns \cup OffLadder, band : Bands, crew : BOOLEAN, at : Nat]]
    /\ \A s \in Scenes : /\ s.start \in [People -> Row]
                         /\ \A p \in People : s.start[p].rung \in OffList => s.start[p].band = ""
                         /\ s.access \in {"admin", "inviter"} /\ s.offers \subseteq Offers
                         /\ {s.writes, s.others, s.faults} \subseteq Nat

VARIABLES
    scene,      \* chosen at the start
    book,       \* the server: the versions of the roster
    list,       \* the client's copy: None or [People -> row with the version it came from]
    read,       \* the read of the list under way: None or the version it started at
    listErr,    \* how the last read ended: "none", "failed" or "denied"
    rows,       \* [People -> [pending, error]], the marks of the body
    writes,     \* the requests, in the order they were started
    panel,      \* the side panel: None, "addPerson" or "myCrews"
    form,       \* the Add person form: None or [stage, enrolled, submitting, hits]
    createErr,  \* the last create failed
    spent,      \* changes by others and faults so far
    \* History only
    ours,       \* the version our last accepted write made
    dropped,    \* a read was cancelled and nothing started it again
    given,      \* [People -> the version in which the band was last given, or taken]
    raced       \* people enrolled unseen, or written from a row older than their band

history    == <<ours, dropped, given, raced>>
rosterVars == <<scene, book, list, read, listErr, rows, writes, panel, form, createErr, spent, history>>

Now       == Len(book)
Offered(o) == o \in scene.offers
Admin     == scene.access = "admin"

\* A row of the list: what the server said and in which version.
Off == [rung |-> "none", band |-> "", crew |-> FALSE, at |-> 0]
Listed(v) ==
    [p \in People |-> LET r == book[v][p]
                      IN  IF r.rung \in OffList THEN Off
                          ELSE [rung |-> r.rung, band |-> r.band, crew |-> r.crew, at |-> v]]

\* PeopleScreen: the body is up unless the list is loading or its last read failed.
BodyUp    == list # None /\ listErr = "none"
OnList(p) == list[p] # Off

(***************************************************************************)
(* The ceiling (roles.ts)                                                  *)
(***************************************************************************)
\* The rungs the viewer may set on a person whose row is r.
RungsFor(p, r) ==
    IF Admin THEN IF p \in NoLogin THEN {"volunteer"} ELSE {"writer", "reporter", "volunteer"}
    ELSE IF r.rung \in {"writer", "leader"} THEN {} ELSE {"reporter", "volunteer"}

MayRemove(p, r) == RungsFor(p, r) # {}

(***************************************************************************)
(* The list's query                                                        *)
(***************************************************************************)
\* Mutant: the list is read again only when no read is under way.
SettleUnlessReading == /\ read' = IF read = None THEN Now ELSE read
                       /\ dropped' = FALSE

\* invalidateQueries: whatever read is under way is given up and started again.
Settle == read' = Now /\ dropped' = FALSE

\* The marks, the panel and the form live in the body.
Unmount == /\ rows' = [p \in People |-> [pending |-> FALSE, error |-> FALSE]]
           /\ panel' = None /\ form' = None /\ createErr' = FALSE
           /\ writes' = [i \in DOMAIN writes |-> [writes[i] EXCEPT !.live = {}]]

ReadLands ==
    /\ read # None
    /\ \E v \in read..Now : list' = Listed(v)
    /\ read' = None /\ listErr' = "none"
    /\ UNCHANGED <<scene, book, rows, writes, panel, form, createErr, spent, history>>

ReadFails(how) ==
    /\ Offered("outage") /\ spent.faults < scene.faults
    /\ read # None
    /\ read' = None /\ listErr' = how
    /\ Unmount
    /\ spent' = [spent EXCEPT !.faults = @ + 1]
    /\ UNCHANGED <<scene, book, list, history>>

\* The Retry button of ErrorState; a list that was denied shows none.
Retry ==
    /\ listErr = "failed" /\ read = None
    /\ Settle
    /\ UNCHANGED <<scene, book, list, listErr, rows, writes, panel, form, createErr, spent, ours, given, raced>>

\* The window gets the focus again: the list is read unless it is being read.  A
\* read that finds nothing new is left out.
Refocus ==
    /\ read = None
    /\ list # None => \/ list # Listed(Now)
                      \/ listErr # "none"
    /\ Settle
    /\ UNCHANGED <<scene, book, list, listErr, rows, writes, panel, form, createErr, spent, ours, given, raced>>

(***************************************************************************)
(* Writes (useRoster.ts)                                                   *)
(***************************************************************************)
\* `live`: whose state still hears the answer: the body, the form that asked,
\* the create form that was submitted.
Write(kind, p, rung, before, new) ==
    [kind |-> kind, p |-> p, rung |-> rung, before |-> before, new |-> new, stage |-> "sent",
     live |-> {"body"} \cup (IF form = None THEN {} ELSE {"form"}) \cup (IF kind = "create" THEN {"submit"} ELSE {})]

MayWrite == BodyUp /\ Len(writes) < scene.writes

Mark(p, pending, error) == rows' = [rows EXCEPT ![p] = [pending |-> pending, error |-> error]]

\* Mutant: a row that has not been read is written too.
UnreadNever(p, new) == FALSE

Unread(p, new) == list[p] = Off /\ ~new

\* writeRole up to the request.  A row that has not been read is refused, with
\* the read cancelled and not started again.
WriteRole(p, rung, new) ==
    /\ MayWrite
    /\ read' = None
    /\ IF Unread(p, new)
       THEN /\ Mark(p, FALSE, TRUE)
            /\ dropped' = (dropped \/ read # None)
            /\ UNCHANGED <<list, writes>>
       ELSE /\ Mark(p, TRUE, FALSE)
            /\ list' = IF OnList(p) THEN [list EXCEPT ![p].rung = rung] ELSE list
            /\ writes' = Append(writes, Write("role", p, rung, list[p], new))
            /\ UNCHANGED dropped
    /\ UNCHANGED <<scene, book, listErr, panel, form, createErr, spent, ours, given, raced>>

\* A drop, the "Move to" menu of a card and the role menu of a profile, and
\* the two forms of removal.
SetRole(p, rung) == WriteRole(p, rung, FALSE)

\* AddMember, RemoveMember: a crew's leader adds anyone found by name and
\* removes a member.  That no write is pending was seen to when the
\* confirmation opened, not when it is pressed.
CrewWrite(p, member) ==
    /\ Offered("crew") /\ MayWrite /\ panel = "myCrews"
    /\ Mark(p, TRUE, FALSE)
    /\ writes' = Append(writes, Write("crew", p, IF member THEN "in" ELSE "out", Off, FALSE))
    /\ UNCHANGED <<scene, book, list, read, listErr, panel, form, createErr, spent, history>>

AddToCrew(p)      == CrewWrite(p, TRUE)
RemoveFromCrew(p) == CrewWrite(p, FALSE)

(***************************************************************************)
(* The server                                                              *)
(***************************************************************************)
Applied(w) ==
    [Last(book) EXCEPT ![w.p] =
        CASE w.kind = "role"   -> [@ EXCEPT !.rung = w.rung, !.band = w.before.band]
          [] w.kind = "create" -> [@ EXCEPT !.rung = w.rung]
          [] w.kind = "crew"   -> [@ EXCEPT !.crew = (w.rung = "in")]]

\* The ceiling of the server: who is no admin assigns no writer and no leader,
\* and touches none.
MayAssign(rung) == Admin \/ rung \notin {"writer", "leader"}

\* A taken handle, a role beyond the ceiling and a person who is not there are
\* refused.  (So are a taken wristband and the removal of a crew's leader: no
\* band is two people's here, and no leader is offered for removal.)
Acceptable(w) ==
    LET now == Last(book)[w.p]
    IN  CASE w.kind = "create" -> now.rung = "unborn" /\ MayAssign(w.rung)
          [] w.kind = "role"   -> now.rung # "unborn" /\ MayAssign(w.rung) /\ MayAssign(now.rung)
          [] w.kind = "crew"   -> now.rung # "unborn"

Serve(i) ==
    LET w == writes[i] IN
    /\ w.stage = "sent" /\ Acceptable(w)
    /\ \E lost \in {FALSE} \cup {l \in {TRUE} : spent.faults < scene.faults} :
          /\ writes' = [writes EXCEPT ![i].stage = IF lost THEN "refused" ELSE "accepted"]
          /\ spent' = [spent EXCEPT !.faults = IF lost THEN @ + 1 ELSE @]
    /\ book' = Append(book, Applied(w))
    /\ ours' = Now + 1
    /\ raced' = IF w.kind = "role" /\ (IF w.before = Off THEN w.new ELSE given[w.p] > w.before.at)
                THEN raced \cup {w.p} ELSE raced
    /\ UNCHANGED <<scene, list, read, listErr, rows, panel, form, createErr, dropped, given>>

Refuse(i) ==
    /\ writes[i].stage = "sent"
    /\ ~Acceptable(writes[i]) \/ spent.faults < scene.faults
    /\ writes' = [writes EXCEPT ![i].stage = "refused"]
    /\ spent' = [spent EXCEPT !.faults = IF Acceptable(writes[i]) THEN @ + 1 ELSE @]
    /\ UNCHANGED <<scene, book, list, read, listErr, rows, panel, form, createErr, history>>

\* Others work on the same roster: they set roles, give wristbands (to who was
\* not enrolled, with the volunteer's role) and take people off it.
OtherSetsRole(p, rung) ==
    /\ spent.others < scene.others
    /\ Last(book)[p].rung \notin {"unborn", rung}
    /\ book' = Append(book, [Last(book) EXCEPT ![p].rung = rung])
    /\ spent' = [spent EXCEPT !.others = @ + 1]
    /\ UNCHANGED <<scene, list, read, listErr, rows, writes, panel, form, createErr, history>>

OtherGivesBand(p) ==
    /\ spent.others < scene.others
    /\ Last(book)[p].rung # "unborn" /\ Last(book)[p].band # "new"
    /\ book' = Append(book, [Last(book) EXCEPT ![p].band = "new",
                                               ![p].rung = IF @ = "none" THEN "volunteer" ELSE @])
    /\ given' = [given EXCEPT ![p] = Now + 1]
    /\ spent' = [spent EXCEPT !.others = @ + 1]
    /\ UNCHANGED <<scene, list, read, listErr, rows, writes, panel, form, createErr, ours, dropped, raced>>

\* Mistakenly added: the participation is deleted, with its band.
OtherRemoves(p) ==
    /\ spent.others < scene.others
    /\ Last(book)[p].rung \notin OffList
    /\ book' = Append(book, [Last(book) EXCEPT ![p].rung = "none", ![p].band = ""])
    /\ given' = [given EXCEPT ![p] = Now + 1]
    /\ spent' = [spent EXCEPT !.others = @ + 1]
    /\ UNCHANGED <<scene, list, read, listErr, rows, writes, panel, form, createErr, ours, dropped, raced>>

(***************************************************************************)
(* Answers                                                                 *)
(***************************************************************************)
\* The rows of the list after the answer to w: a refused role write puts the
\* whole row of its start back.
Rollback(w) == IF w.kind = "role" /\ w.stage = "refused" /\ w.before # Off /\ OnList(w.p)
               THEN [list EXCEPT ![w.p] = w.before] ELSE list

\* The answer: the mark is set, the row put back after a failure, and the list
\* read again in any case.
Answer(i) ==
    LET w  == writes[i]
        ok == w.stage = "accepted"
    IN  /\ w.stage \in {"accepted", "refused"}
        /\ IF "body" \in w.live /\ w.kind # "create" THEN Mark(w.p, FALSE, ~ok) ELSE UNCHANGED rows
        /\ list' = Rollback(w)
        /\ createErr' = IF w.kind = "create" /\ "body" \in w.live THEN createErr \/ ~ok ELSE createErr
        /\ writes' = [writes EXCEPT ![i].stage = IF "form" \notin w.live THEN "done"
                                                 ELSE IF ok THEN "settling" ELSE "failing"]
        /\ Settle
        /\ UNCHANGED <<scene, book, listErr, panel, form, spent, ours, given, raced>>

\* The form goes on once the read has ended or was given up, at any time after the
\* answer here: Hit notes the person as enrolled, AddPerson shows the created one
\* from whatever stage it is in.
Return(i) ==
    LET w  == writes[i]
        ok == w.stage = "settling"
    IN  /\ w.stage \in {"settling", "failing"}
        /\ writes' = [writes EXCEPT ![i].stage = "done"]
        /\ form' = IF "form" \notin w.live THEN form
                   ELSE CASE w.kind = "role" /\ w.new /\ ok -> [form EXCEPT !.enrolled = @ \cup {w.p}]
                          [] w.kind = "create" ->
                               [form EXCEPT !.stage = IF ok THEN "created" ELSE @,
                                            !.submitting = @ /\ "submit" \notin w.live]
                          [] OTHER -> form
        /\ UNCHANGED <<scene, book, list, read, listErr, rows, panel, createErr, spent, history>>

(***************************************************************************)
(* The side panel (PeopleBody, AddPerson.tsx)                              *)
(***************************************************************************)
\* Opening it mounts a new form; `hits` is the version the search has read.
OpenPanel(which) ==
    /\ BodyUp /\ panel = None
    /\ which = "addPerson" => Offered("enrol") \/ Offered("create")
    /\ which = "myCrews" => Offered("crew")
    /\ panel' = which
    /\ form' = IF which = "addPerson"
               THEN [stage |-> "search", enrolled |-> {}, submitting |-> FALSE, hits |-> Now] ELSE None
    /\ UNCHANGED <<scene, book, list, read, listErr, rows, writes, createErr, spent, history>>

\* Answers to what a closed form has asked are not heard by the next one.
ClosePanel ==
    /\ panel # None
    /\ panel' = None /\ form' = None
    /\ writes' = [i \in DOMAIN writes |-> [writes[i] EXCEPT !.live = @ \ {"form", "submit"}]]
    /\ UNCHANGED <<scene, book, list, read, listErr, rows, createErr, spent, history>>

\* The search for a name is cached: its hits may be older than the roster.
SearchAgain ==
    /\ form # None /\ form.stage = "search" /\ form.hits # Now
    /\ form' = [form EXCEPT !.hits = Now]
    /\ UNCHANGED <<scene, book, list, read, listErr, rows, writes, panel, createErr, spent, history>>

\* A hit can be enrolled unless it says the person is on the roster.
Hit(p) == /\ p \notin form.enrolled /\ ~rows[p].pending
          /\ book[form.hits][p].rung \in {"none", "gone"}

\* enrol: an admin chooses the rung, an inviter enrols reporters.
Enrol(p, rung) ==
    /\ Offered("enrol") /\ form # None /\ form.stage = "search"
    /\ Hit(p)
    /\ rung \in (IF Admin THEN {"writer", "reporter", "volunteer"} ELSE {"reporter"})
    /\ WriteRole(p, rung, TRUE)

ToStage(from, to) ==
    /\ form # None /\ form.stage = from
    /\ form' = [form EXCEPT !.stage = to, !.submitting = FALSE]
    /\ UNCHANGED <<scene, book, list, read, listErr, rows, panel, createErr, spent, history>>

CreateNew    == Offered("create") /\ ToStage("search", "create") /\ UNCHANGED writes
AddAnother   == ToStage("created", "search") /\ UNCHANGED writes
\* The create form is unmounted; its request goes on.
BackToSearch == /\ ToStage("create", "search")
                /\ writes' = [i \in DOMAIN writes |-> [writes[i] EXCEPT !.live = @ \ {"submit"}]]

\* create: the last error is cleared; an inviter's newcomer is a reporter.
Create(p, rung) ==
    /\ MayWrite /\ form # None /\ form.stage = "create" /\ ~form.submitting
    /\ scene.start[p].rung = "unborn"
    /\ IF Admin THEN rung \in RungsFor(p, Off) ELSE rung = "reporter"
    /\ createErr' = FALSE
    /\ form' = [form EXCEPT !.submitting = TRUE]
    /\ writes' = Append(writes, Write("create", p, rung, Off, FALSE))
    /\ UNCHANGED <<scene, book, list, read, listErr, rows, panel, spent, history>>

RosterInit ==
    /\ scene \in Scenes
    /\ book = <<scene.start>> /\ list = None /\ read = 1 /\ listErr = "none"
    /\ rows = [p \in People |-> [pending |-> FALSE, error |-> FALSE]]
    /\ writes = <<>> /\ panel = None /\ form = None /\ createErr = FALSE
    /\ spent = [others |-> 0, faults |-> 0]
    /\ ours = 1 /\ dropped = FALSE
    /\ given = [p \in People |-> 1] /\ raced = {}

(***************************************************************************)
(* Properties                                                              *)
(***************************************************************************)
RosterTypeOK ==
    LET Versions == 1..Now
        Shown    == [rung : Columns \cup {"none", "gone"}, band : Bands, crew : BOOLEAN, at : 0..Now]
    IN
    /\ Last(book) \in [People -> Row]
    /\ list = None \/ list \in [People -> Shown]
    /\ read \in Versions \cup {None} /\ listErr \in {"none", "failed", "denied"}
    /\ rows \in [People -> [pending : BOOLEAN, error : BOOLEAN]]
    /\ Len(writes) <= scene.writes
    /\ \A w \in Range(writes) :
          /\ w.kind \in {"role", "crew", "create"} /\ w.p \in People
          /\ w.stage \in {"sent", "accepted", "refused", "settling", "failing", "done"}
          /\ w.before \in Shown /\ w.live \subseteq {"body", "form", "submit"}
    /\ panel \in {None, "addPerson", "myCrews"} /\ (form # None => panel = "addPerson")
    /\ ours \in Versions /\ given \in [People -> Versions] /\ raced \subseteq People

Quiet == read = None /\ \A i \in DOMAIN writes : writes[i].stage \in {"settling", "failing", "done"}

(* Optimism is undone and nothing of ours is missing: when no read and no *)
(* write is under way and the last read did not fail, the list is the     *)
(* server's roster as of our last accepted write or later, whatever       *)
(* writes overlapped, failed or lost their answer (useRoster.ts, writeRole*)
(* and settle).  Excepted is the write of a row that has left the list:   *)
(* it cancels the read and does not start it again.  (And the state keeps *)
(* its types.)                                                            *)
RosterCurrent ==
    /\ RosterTypeOK
    /\ Quiet /\ BodyUp /\ ~dropped => \E v \in ours..Now : list = Listed(v)

(* A change of role never takes a wristband away: the request carries the *)
(* band, and a row that has not been read is not written (useRoster.ts,   *)
(* writeRole).  Excepted are people enrolled while they were not on the   *)
(* list, and bands given or taken after the written row was read.         *)
WristbandKept ==
    \A p \in People \ raced : Last(book)[p].band = book[given[p]][p].band
=============================================================================
