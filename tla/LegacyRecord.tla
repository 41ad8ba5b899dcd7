---------------------------- MODULE LegacyRecord ----------------------------
(***************************************************************************)
(* The page of one record in the legacy web client: an incident            *)
(* (go/web/typescript/incident.ts), a report (report.ts) or a visit        *)
(* (sanctuary_visit.ts), with the journal box, its drafts and the edit     *)
(* helpers of ims.ts.                                                      *)
(*                                                                         *)
(* Every field is sent on its own as soon as it changes and the record is  *)
(* read again after each answer; nothing cancels a request or keeps two    *)
(* from overlapping.  The first edit of a page without a number creates    *)
(* the record.  Only the journal box is held back until it is submitted;   *)
(* its text is kept in localStorage under the number of the record, or     *)
(* under "new".                                                            *)
(*                                                                         *)
(* A record is the list of its versions; a read started at version `from`  *)
(* lands with any version not older.  Of a record the model keeps what a   *)
(* page sends back whole: a list (incident types, linked incidents) and a  *)
(* person's access grant, resent with each change of the involvement.      *)
(***************************************************************************)
EXTENDS Naturals, Sequences, FiniteSets, SequencesExt

CONSTANTS
    Tabs,        \* browsing contexts of one browser
    Texts,       \* texts typed into the journal box
    Types,       \* incident types, or incidents to link to
    Plans,       \* bound: the kind of the records, what the user does on each tab,
                 \*        and how many requests
    Nil,         \* no number, no text, no page
    MaxRecords,  \* bound: records of the event
    MaxOpens,    \* bound: pages opened
    MaxFaults    \* bound: requests refused, answers lost, reads failed, tabs killed

Kinds == {"incident", "report", "visit"}
Ops   == {"edit", "entry", "add", "remove", "link", "file", "strike", "relate", "person",
          "unperson", "grant", "involve", "poke"}
Nums  == 1..MaxRecords
New   == 0               \* the draft key of pages without a number
Astray == MaxRecords + 1  \* a page whose creates crossed

Versions == [types : SUBSET Types, grant : BOOLEAN]
Numbers  == Nums \cup {Nil}
Box      == Texts \cup {Nil}

\* The variables of a page.
Pages ==
    [path : Numbers, num : Numbers,   \* pathIds; the record that is drawn
     copy : Versions, grant : BOOLEAN, rows : SUBSET Nat, removed : BOOLEAN,
     held : BOOLEAN, locked : BOOLEAN, box : Box, armed : BOOLEAN, timer : BOOLEAN,
     made : 0..MaxRecords, crossed : BOOLEAN]

ASSUME RecordAssumption ==
    /\ Nil \notin Tabs \cup Texts \cup Types \cup 0..Astray
    /\ Nil \notin Pages \cup [num : Nat, from : Nat]
    /\ Plans \subseteq [kind : Kinds, offers : [Tabs -> SUBSET Ops], ops : Nat]
    /\ {MaxRecords, MaxOpens, MaxFaults} \subseteq Nat /\ MaxRecords >= 1

VARIABLES
    plan,     \* chosen at the start: the kind of record the pages show
    server,   \* Seq of the records' versions, by number
    journal,  \* [Nums -> SUBSET Texts]
    draft,    \* localStorage: [Nums \cup {New} -> Texts \cup {Nil}]
    page,     \* [Tabs -> Nil or the page's variables]
    ops,      \* [Tabs -> set of requests that have not finished]; [Nil]: of closed pages
    used,     \* how much of each bound is used
    \* History only
    wanted,   \* texts the users typed and neither erased nor let another replace
    home,     \* [Texts -> the page it was typed on: a number, New, Astray or Nil]
    asked,    \* [Nums -> what the users' changes, each for itself, add up to]
    muddled   \* records whose edits overlapped, failed, came from two pages or changed
              \* the row of a person who had been removed

recordHistory == <<wanted, home, asked, muddled>>
vars == <<plan, server, journal, draft, page, ops, used, recordHistory>>

kind == plan.kind

Open(t) == page[t] # Nil

Blank == [types |-> {}, grant |-> FALSE]

\* What the server holds of a record; a page without a number starts empty.
Record(n) == IF n = Nil THEN Blank ELSE Last(server[n])

(***************************************************************************)
(* Journal drafts                                                          *)
(***************************************************************************)
HasDrafts == kind # "visit"

\* Mutant: every page uses the draft of new records.
JournalDraftKeyNew(p) == New

\* The key follows pathIds, not the record that is drawn.
JournalDraftKey(p) == IF p.path = Nil THEN New ELSE p.path

FlushJournalDraft(p) == IF HasDrafts THEN [draft EXCEPT ![JournalDraftKey(p)] = p.box] ELSE draft

RestoreJournalDraft(p) ==
    LET d == IF HasDrafts THEN draft[JournalDraftKey(p)] ELSE Nil
    IN  [p EXCEPT !.box = d, !.armed = d # Nil]

MigrateJournalDraftToNumber(n) ==
    IF HasDrafts /\ draft[New] # Nil
    THEN [draft EXCEPT ![n] = draft[New], ![New] = Nil] ELSE draft

ClearJournalDraft(p) == IF HasDrafts THEN [draft EXCEPT ![JournalDraftKey(p)] = Nil] ELSE draft

\* The texts a change of the drafts to d writes over.
WrittenOver(d) == {draft[k] : k \in {j \in DOMAIN draft : d[j] # draft[j]}}
                      \ {d[j] : j \in DOMAIN d}

(***************************************************************************)
(* Pages                                                                   *)
(***************************************************************************)
\* The init functions: the record is read, the draft restored, and from then on
\* the page listens.  A page whose first read fails shows an error and stops.
OpenPage(t, n) ==
    /\ ~Open(t)
    /\ plan.offers[t] # {}
    /\ used.opens < MaxOpens
    /\ used' = [used EXCEPT !.opens = @ + 1]
    /\ page' = [page EXCEPT ![t] = RestoreJournalDraft(
          [path |-> n, num |-> n, copy |-> Record(n), grant |-> Record(n).grant, rows |-> {},
           removed |-> FALSE, held |-> FALSE, locked |-> FALSE, box |-> Nil, armed |-> FALSE,
           timer |-> FALSE, made |-> 0, crossed |-> FALSE])]
    /\ UNCHANGED <<plan, server, journal, draft, ops, recordHistory>>

\* A request that has been sent may reach the server when its page is gone.
Abandon(t) == ops' = [ops EXCEPT ![t] = {}, ![Nil] = @ \cup {o \in ops[t] : o.stage = "sent"}]

\* Leaving the page: beforeunload writes the draft at once.  A visit has no
\* drafts; the user is warned and gives the text up.
ClosePage(t) ==
    /\ Open(t)
    /\ LET d == FlushJournalDraft(page[t])
       IN  /\ draft' = d
           /\ wanted' = wanted \ (WrittenOver(d) \cup (IF HasDrafts THEN {} ELSE {page[t].box}))
    /\ page' = [page EXCEPT ![t] = Nil]
    /\ Abandon(t)
    /\ UNCHANGED <<plan, server, journal, used, home, asked, muddled>>

\* The browser kills the tab: what the timer had not written yet is gone.
KillTab(t) ==
    /\ Open(t)
    /\ used.faults < MaxFaults
    /\ used' = [used EXCEPT !.faults = @ + 1]
    /\ wanted' = wanted \ (IF page[t].timer \/ ~HasDrafts THEN {page[t].box} ELSE {})
    /\ page' = [page EXCEPT ![t] = Nil]
    /\ Abandon(t)
    /\ UNCHANGED <<plan, server, journal, draft, home, asked, muddled>>

\* The user acts on an open page whose fields are enabled.
Acts(t, what) == Open(t) /\ what \in plan.offers[t] /\ ~page[t].locked

\* The user types a new text over what is in the box, or empties it.
TypeText(t, w) ==
    /\ Acts(t, "entry")
    /\ w # page[t].box
    /\ w \in {Nil} \cup {x \in Texts : home[x] = Nil}
    /\ page' = [page EXCEPT ![t].box = w, ![t].armed = w # Nil, ![t].timer = HasDrafts]
    /\ wanted' = (wanted \ {page[t].box}) \cup ({w} \ {Nil})
    /\ home' = IF w = Nil THEN home
               ELSE [home EXCEPT ![w] = IF page[t].crossed THEN Astray ELSE JournalDraftKey(page[t])]
    /\ UNCHANGED <<plan, server, journal, draft, ops, used, asked, muddled>>

\* 400 ms after the last keystroke.
SaveJournalDraft(t) ==
    /\ Open(t)
    /\ page[t].timer
    /\ page' = [page EXCEPT ![t].timer = FALSE]
    /\ draft' = FlushJournalDraft(page[t])
    /\ wanted' = wanted \ WrittenOver(FlushJournalDraft(page[t]))
    /\ UNCHANGED <<plan, server, journal, ops, used, home, asked, muddled>>

(***************************************************************************)
(* Requests                                                                *)
(*                                                                         *)
(* what   the operation                                                    *)
(* num    the record it is addressed to, Nil for a create                  *)
(* first  the create that attachFile and its like wait for                 *)
(* item   the one thing the user chose: a text, a type, a grant            *)
(* arg    what the body says: a text, a whole list, a grant                *)
(* stage  "sent" to the server; "done" or "failed", the answer on its way; *)
(*        "named", getAuthInfo after a create; "reading" the record        *)
(* err    whether the operation returns an error once that read has landed *)
(* rd     the read [num, from], or the number in the answer to a create    *)
(***************************************************************************)
Request(what, n, first, item, arg) ==
    [id |-> used.ops, what |-> what, num |-> n, first |-> first, item |-> item, arg |-> arg,
     stage |-> "sent", err |-> FALSE, rd |-> Nil]

\* Some request or read about the record has not finished, on any tab.
Busy(n) == \E u \in DOMAIN ops : \E o \in ops[u] : o.num = n \/ (o.rd # Nil /\ o.rd.num = n)

\* Edits of a record from two pages at once.
Shared(t, n) == \E u \in Tabs \ {t} : Open(u) /\ page[u].num = n

Begin(t, o) ==
    /\ used.ops < plan.ops
    /\ used' = [used EXCEPT !.ops = @ + 1]
    /\ ops' = [ops EXCEPT ![t] = @ \cup {o}]
    /\ muddled' = muddled \cup {n \in {o.num} \ {Nil} :
                       Busy(n) \/ Shared(t, n) \/ (o.what = "involve" /\ page[t].removed)}

Creating(t) == \E o \in ops[t] : o.num = Nil

\* sendEdits posts to the number of the record that is drawn; without one it
\* creates a record.
Post(t, what, first, item, arg) ==
    /\ Begin(t, Request(what, page[t].num, first, item, arg))
    /\ page' = [page EXCEPT ![t].crossed = @ \/ (page[t].num = Nil /\ Creating(t)),
                            ![t].held = @ \/ what = "add",
                            ![t].armed = @ /\ what # "entry"]
    /\ UNCHANGED <<plan, server, journal, draft, wanted, home, asked>>

\* editFromElement and editValue: a single field, on its own.
EditValue(t) == Acts(t, "edit") /\ Post(t, "edit", FALSE, Nil, Nil)

\* State, privacy, outcome, start, summary and place.  An area that does not exist
\* is created before the edit is made.
EditIncident(t) == kind = "incident" /\ EditValue(t)

\* The guest, the arrival, the departure and the resources.
EditVisit(t) == kind = "visit" /\ EditValue(t)

\* The incident of a report rides along with its creation; that of a numbered
\* report has a request of its own.
UpdateIncident(t) ==
    /\ kind = "report" /\ Open(t)
    /\ IF page[t].num = Nil THEN EditValue(t)
       ELSE Acts(t, "edit") /\ Begin(t, Request("file", page[t].num, FALSE, Nil, Nil))
            /\ UNCHANGED <<plan, server, journal, draft, page, wanted, home, asked>>

\* submitJournalEntry: the button is disabled until the answer, or the next key.
SubmitJournalEntry(t) ==
    /\ Acts(t, "entry")
    /\ page[t].armed /\ page[t].box # Nil
    /\ Post(t, "entry", FALSE, page[t].box, page[t].box)

\* What the page lists of the record, each with its remove button.
ListedOn(p) == p.copy.types

\* addIncidentTypeById sends the whole list; its field is disabled meanwhile,
\* until something redraws the page.  A type that does not exist is proposed first.
AddIncidentType(t, y) ==
    /\ Acts(t, "add") /\ kind = "incident"
    /\ ~page[t].held
    /\ y \notin ListedOn(page[t])
    /\ Post(t, "add", FALSE, y, ListedOn(page[t]) \cup {y})

\* removeIncidentType and unlinkIncident: the list as drawn, without one.
RemoveIncidentType(t, y) ==
    /\ Acts(t, "remove") /\ kind = "incident"
    /\ y \in ListedOn(page[t])
    /\ Post(t, "remove", FALSE, y, ListedOn(page[t]) \ {y})

\* linkIncident: creates the record first, then sends the list it finds then.
LinkIncident(t, y) ==
    /\ Acts(t, "link") /\ kind = "incident"
    /\ IF page[t].path = Nil THEN Post(t, "link", TRUE, y, Nil)
       ELSE Post(t, "link", FALSE, y, ListedOn(page[t]) \cup {y})

\* A request of its own, addressed to pathIds; on a page without a number the
\* record is created first.
OwnRequest(t, what) ==
    IF page[t].path = Nil THEN Post(t, what, TRUE, Nil, Nil)
    ELSE /\ Begin(t, Request(what, page[t].path, FALSE, Nil, Nil))
         /\ UNCHANGED <<plan, server, journal, draft, page, wanted, home, asked>>

AttachFile(t)           == Acts(t, "file") /\ OwnRequest(t, "file")
AttachReport(t)         == Acts(t, "relate") /\ kind = "incident" /\ OwnRequest(t, "relate")
AttachPersonToRecord(t) == Acts(t, "person") /\ kind # "report" /\ OwnRequest(t, "person")

\* Requests offered only on what a numbered page lists: they never create.
Numbered(t, what) == Acts(t, what) /\ page[t].num # Nil /\ page[t].path # Nil

DetachReport(t) == Numbered(t, "relate") /\ kind = "incident" /\ OwnRequest(t, "relate")
SetStrike(t)    == Numbered(t, "strike") /\ OwnRequest(t, "strike")
RemovePerson(t) == Numbered(t, "unperson") /\ kind # "report" /\ OwnRequest(t, "unperson")

\* A person's row sends both of its values: the one changed and the other as drawn.
PersonRow(t, what, g) ==
    /\ Numbered(t, what) /\ kind = "incident"
    /\ Begin(t, Request(what, page[t].path, FALSE, g, g))
    /\ page' = [page EXCEPT ![t].rows = IF what = "grant" THEN @ \cup {used.ops} ELSE @]
    /\ UNCHANGED <<plan, server, journal, draft, wanted, home, asked>>

SetPersonGrant(t)       == PersonRow(t, "grant", ~page[t].grant)
SetPersonInvolvement(t) == PersonRow(t, "involve", page[t].grant)

(***************************************************************************)
(* The server                                                              *)
(***************************************************************************)
Lists == {"add", "remove", "link"}

\* An attach replaces the whole row: adding a person again clears the grant.
Effect(o, v) ==
    IF o.first THEN v ELSE
    CASE o.what \in Lists -> [v EXCEPT !.types = o.arg]
      [] o.what \in {"grant", "involve"} -> [v EXCEPT !.grant = o.arg]
      [] o.what \in {"person", "unperson"} -> [v EXCEPT !.grant = FALSE]
      [] OTHER -> v

\* What the user asked for: one item added or removed, the grant ticked.
Wish(o, v) ==
    IF o.first THEN v ELSE
    CASE o.what \in {"add", "link"} -> [v EXCEPT !.types = @ \cup {o.item}]
      [] o.what = "remove" -> [v EXCEPT !.types = @ \ {o.item}]
      [] o.what = "grant" -> [v EXCEPT !.grant = o.item]
      [] o.what = "unperson" -> [v EXCEPT !.grant = FALSE]
      [] OTHER -> v

\* The request takes effect; its answer is lost when `lost`.
Apply(t, o, lost) ==
    LET n == IF o.num = Nil THEN Len(server) + 1 ELSE o.num
        v == Effect(o, Record(o.num))
    IN  /\ o.stage = "sent"
        /\ n \in Nums
        /\ lost => t # Nil /\ used.faults < MaxFaults
        /\ used' = [used EXCEPT !.faults = @ + IF lost THEN 1 ELSE 0]
        /\ server' = IF o.num = Nil THEN Append(server, <<v>>)
                     ELSE IF v = Record(o.num) THEN server ELSE [server EXCEPT ![n] = Append(@, v)]
        /\ journal' = IF o.what = "entry" THEN [journal EXCEPT ![n] = @ \cup {o.arg}] ELSE journal
        /\ ops' = [ops EXCEPT ![t] = (@ \ {o}) \cup
              CASE t = Nil -> {}
                [] lost -> {[o EXCEPT !.stage = "failed"]}
                [] OTHER -> {[o EXCEPT !.stage = "done", !.rd = [num |-> n, from |-> 0]]}]
        /\ page' = IF t # Nil /\ o.num = Nil
                   THEN [page EXCEPT ![t].made = @ + 1, ![t].crossed = @ \/ lost] ELSE page
        /\ asked' = [asked EXCEPT ![n] = Wish(o, @)]
        /\ muddled' = muddled \cup
              (IF lost \/ Shared(t, n) \/ (o.what = "person" /\ ~o.first) THEN {n} ELSE {})
        /\ UNCHANGED <<plan, draft, wanted, home>>

\* The request is refused, or does not arrive.
RefuseRequest(t, o) ==
    /\ t # Nil
    /\ o.stage = "sent"
    /\ used.faults < MaxFaults
    /\ used' = [used EXCEPT !.faults = @ + 1]
    /\ ops' = [ops EXCEPT ![t] = (@ \ {o}) \cup {[o EXCEPT !.stage = "failed"]}]
    /\ UNCHANGED <<plan, server, journal, draft, page, recordHistory>>

(***************************************************************************)
(* Answers                                                                 *)
(***************************************************************************)
\* Requests made by sendEdits.
Edits(o) == o.first \/ o.what \in Lists \cup {"edit", "entry"}

\* Every redraw replaces the rows of the people and enables the fields.
DrawPeople(p)   == [p EXCEPT !.grant = p.copy.grant, !.rows = {}, !.removed = FALSE]
DrawIncident(p) == [DrawPeople(p) EXCEPT !.held = FALSE]
DrawVisit(p)    == DrawPeople(p)

\* A numbered report enables the submit button as well.
DrawReport(p) == [p EXCEPT !.locked = FALSE, !.armed = @ \/ p.num # Nil]

Draw(p) ==
    CASE kind = "incident" -> DrawIncident(p)
      [] kind = "report" -> DrawReport(p)
      [] OTHER -> DrawVisit(p)

\* A read that fails disables the fields.  An incident or a visit then draws what
\* it has, which enables them again; a report leaves them disabled.
DrawFailed(p) == IF kind = "report" THEN [p EXCEPT !.locked = TRUE] ELSE Draw(p)

\* Mutant: the box is emptied whether or not the submission succeeded.
ReturnedAlwaysClears(o, p, err) ==
    IF o.what = "entry" THEN [p EXCEPT !.box = Nil, !.armed = FALSE, !.timer = FALSE] ELSE p

\* What the callers of sendEdits do when it returns.
Returned(o, p, err) ==
    CASE o.what = "entry" /\ ~err -> [p EXCEPT !.box = Nil, !.armed = FALSE, !.timer = FALSE]
      [] o.what = "entry" /\ err -> [p EXCEPT !.armed = TRUE]
      [] o.what = "add" -> [p EXCEPT !.held = FALSE]
      [] OTHER -> p

\* The request that follows the create attachFile and its like waited for.
Follow(o, p, err) ==
    IF ~o.first \/ err THEN {}
    ELSE IF o.what = "link"
    THEN {[o EXCEPT !.num = p.num, !.first = FALSE, !.stage = "sent", !.rd = Nil,
                    !.arg = ListedOn(p) \cup {o.item}]}
    ELSE {[o EXCEPT !.num = p.path, !.first = FALSE, !.stage = "sent", !.rd = Nil]}

\* The operation returns with the page as p: on success a submitted text leaves
\* the box and the drafts, whatever they hold by now.
Finish(t, o, p, err) ==
    LET gone == o.what = "entry" /\ ~err
        d    == IF gone THEN ClearJournalDraft(p) ELSE draft
    IN  /\ page' = [page EXCEPT ![t] = Returned(o, p, err)]
        /\ ops' = [ops EXCEPT ![t] = (@ \ {o}) \cup Follow(o, p, err)]
        /\ draft' = d
        /\ wanted' = wanted \ (IF gone THEN WrittenOver(d) \cup {p.box} ELSE {})

\* The record is read again, by the number it has now; one without a number is
\* simply emptied.
Reload(t, o, err) ==
    LET p == page[t]
    IN  IF p.num = Nil
        THEN Finish(t, o, Draw([p EXCEPT !.copy = Blank]), err)
        ELSE /\ ops' = [ops EXCEPT ![t] = (@ \ {o}) \cup
                  {[o EXCEPT !.stage = "reading", !.err = err,
                             !.rd = [num |-> p.num, from |-> Len(server[p.num])]]}]
             /\ UNCHANGED <<page, draft, wanted>>

\* Mutant: only the address of the page learns the number.
StoreNumberInPath(t, n) == page' = [page EXCEPT ![t].path = n]

\* The answer to a create: the number is stored in pathIds and in the record that
\* is drawn, and the draft follows it.
StoreNumber(t, n) == page' = [page EXCEPT ![t].path = n, ![t].num = n]

Created(t, o) ==
    /\ o.stage = "done" /\ o.num = Nil
    /\ StoreNumber(t, o.rd.num)
    /\ draft' = MigrateJournalDraftToNumber(o.rd.num)
    /\ wanted' = wanted \ WrittenOver(MigrateJournalDraftToNumber(o.rd.num))
    /\ ops' = [ops EXCEPT ![t] = (@ \ {o}) \cup {[o EXCEPT !.stage = "named", !.num = o.rd.num]}]
    /\ muddled' = muddled \cup {n \in {o.rd.num} : page[t].crossed}
    /\ UNCHANGED <<plan, server, journal, used, home, asked>>

\* An edit was applied, or getAuthInfo after a create returned.
Edited(t, o) ==
    /\ Edits(o)
    /\ o.stage = "named" \/ (o.stage = "done" /\ o.num # Nil)
    /\ Reload(t, o, FALSE)
    /\ UNCHANGED <<plan, server, journal, used, home, asked, muddled>>

EditFailed(t, o) ==
    /\ Edits(o)
    /\ o.stage = "failed"
    /\ Reload(t, o, TRUE)
    /\ UNCHANGED <<plan, server, journal, used, home, asked, muddled>>

\* onStrikeSuccess, and the end of attachFile.
OwnRequestDone(t, o) ==
    /\ o.what \in {"file", "strike"} /\ ~o.first
    /\ o.stage = "done"
    /\ Reload(t, o, FALSE)
    /\ UNCHANGED <<plan, server, journal, used, home, asked, muddled>>

\* Mutant: the row keeps the grant it was drawn with.
PersonGrantForgotten(t, o) ==
    /\ o.what = "grant"
    /\ o.stage = "done"
    /\ ops' = [ops EXCEPT ![t] = @ \ {o}]
    /\ UNCHANGED <<plan, server, journal, draft, page, used, recordHistory>>

\* The row remembers the grant, if it is still the row on the page.
PersonGrantSet(t, o) ==
    /\ o.what = "grant"
    /\ o.stage = "done"
    /\ page' = [page EXCEPT ![t].grant = IF o.id \in page[t].rows THEN o.arg ELSE @]
    /\ ops' = [ops EXCEPT ![t] = @ \ {o}]
    /\ UNCHANGED <<plan, server, journal, draft, used, recordHistory>>

\* The others end with their answer, whatever it is: of the record nothing is read
\* again until it is announced, and the row of a removed person stays till then.
Ended(t, o) ==
    /\ ~Edits(o)
    /\ \/ o.stage = "failed"
       \/ o.stage = "done" /\ o.what \in {"relate", "person", "unperson", "involve"}
    /\ ops' = [ops EXCEPT ![t] = @ \ {o}]
    /\ page' = [page EXCEPT ![t].removed = @ \/ (o.what = "unperson" /\ o.stage = "done")]
    /\ UNCHANGED <<plan, server, journal, draft, used, recordHistory>>

\* An update of the record is broadcast to the page.
Poke(t) ==
    /\ Open(t) /\ "poke" \in plan.offers[t]
    /\ page[t].path # Nil /\ page[t].num # Nil
    /\ Begin(t, [Request("poke", page[t].num, FALSE, Nil, Nil) EXCEPT
          !.stage = "reading", !.rd = [num |-> page[t].num, from |-> Len(server[page[t].num])]])
    /\ UNCHANGED <<plan, server, journal, draft, page, wanted, home, asked>>

\* A read lands: the record becomes whatever it brought.
Land(t, o) ==
    /\ o.stage = "reading"
    /\ \E i \in o.rd.from..Len(server[o.rd.num]) :
          Finish(t, o, Draw([page[t] EXCEPT !.num = o.rd.num, !.copy = server[o.rd.num][i]]), o.err)
    /\ UNCHANGED <<plan, server, journal, used, home, asked, muddled>>

LoadFails(t, o) ==
    /\ o.stage = "reading"
    /\ used.faults < MaxFaults
    /\ used' = [used EXCEPT !.faults = @ + 1]
    /\ Finish(t, o, DrawFailed(page[t]), o.err)
    /\ muddled' = muddled \cup {o.rd.num}
    /\ UNCHANGED <<plan, server, journal, home, asked>>

(***************************************************************************)
(* The specification                                                       *)
(***************************************************************************)
Init ==
    /\ plan \in Plans
    /\ server = <<<<Blank>>>>
    /\ journal = [n \in Nums |-> {}]
    /\ draft = [k \in Nums \cup {New} |-> Nil]
    /\ page = [t \in Tabs |-> Nil]
    /\ ops = [t \in Tabs \cup {Nil} |-> {}]
    /\ used = [ops |-> 0, opens |-> 0, faults |-> 0]
    /\ wanted = {}
    /\ home = [w \in Texts |-> Nil]
    /\ asked = [n \in Nums |-> Blank]
    /\ muddled = {}

User ==
    \E t \in Tabs :
        \/ \E n \in 1..Len(server) \cup {Nil} : OpenPage(t, n)
        \/ ClosePage(t)
        \/ KillTab(t)
        \/ \E w \in Texts \cup {Nil} : TypeText(t, w)
        \/ SaveJournalDraft(t)
        \/ EditIncident(t)
        \/ EditVisit(t)
        \/ UpdateIncident(t)
        \/ SubmitJournalEntry(t)
        \/ \E y \in Types : AddIncidentType(t, y) \/ RemoveIncidentType(t, y) \/ LinkIncident(t, y)
        \/ AttachFile(t)
        \/ AttachReport(t)
        \/ DetachReport(t)
        \/ AttachPersonToRecord(t)
        \/ RemovePerson(t)
        \/ SetStrike(t)
        \/ SetPersonGrant(t)
        \/ SetPersonInvolvement(t)
        \/ Poke(t)

Network ==
    \E t \in Tabs \cup {Nil} : \E o \in ops[t] :
        \/ \E lost \in BOOLEAN : Apply(t, o, lost)
        \/ RefuseRequest(t, o)

Answers ==
    \E t \in Tabs : \E o \in ops[t] :
        \/ Created(t, o)
        \/ Edited(t, o)
        \/ EditFailed(t, o)
        \/ OwnRequestDone(t, o)
        \/ PersonGrantSet(t, o)
        \/ Ended(t, o)
        \/ Land(t, o)
        \/ LoadFails(t, o)

Next == User \/ Network \/ Answers

Spec == Init /\ [][Next]_vars

(***************************************************************************)
(* Properties                                                              *)
(***************************************************************************)
TypeOK ==
    /\ Len(server) \in Nums
    /\ \A n \in DOMAIN server : \A i \in DOMAIN server[n] : server[n][i] \in Versions
    /\ journal \in [Nums -> SUBSET Texts] /\ draft \in [Nums \cup {New} -> Box]
    /\ page \in [Tabs -> Pages \cup {Nil}]
    /\ \A t \in Tabs \cup {Nil} : \A o \in ops[t] :
          /\ o.what \in Ops /\ o.num \in Numbers
          /\ o.stage \in {"sent", "done", "failed", "named", "reading"}
    /\ wanted \subseteq Texts /\ home \in [Texts -> 0..Astray \cup {Nil}]
    /\ asked \in [Nums -> Versions] /\ muddled \subseteq Nums

\* A page creates one record, however its edits, attachments and failures come,
\* unless a second edit was made before the first create was answered, or that
\* answer was lost ("so that future edits don't keep creating new resources").
\* (And the state keeps its types.)
CreatedOnce == TypeOK /\ \A t \in Tabs : Open(t) => page[t].made <= 1 \/ page[t].crossed

\* A text typed into the journal box is in a box, in a draft or in a journal at
\* the server, through failed submissions, closed and killed tabs and pages that
\* get their number meanwhile, until its user erases it or it is written over:
\* by a newer text under the same draft, by the clearing that follows another
\* submission, or by a tab killed within the 400 ms of the debounce.
TextKept ==
    \A w \in wanted :
        \/ \E t \in Tabs : Open(t) /\ page[t].box = w
        \/ \E k \in DOMAIN draft : draft[k] = w
        \/ \E n \in Nums : w \in journal[n]

\* A text typed on the page of a record is only ever posted to that record and
\* kept under it; one typed on a new page goes to a record such a page created,
\* never to one that was there before.
TextStaysWithRecord ==
    \A w \in Texts :
        /\ \A n \in Nums : w \in journal[n] \/ draft[n] = w =>
              home[w] \in {n, Astray} \/ (home[w] = New /\ n > 1)
        /\ draft[New] = w => home[w] \in {New, Astray}

\* Once a record's requests are over it holds what its user asked for: whole lists
\* and resent grants never undo an earlier change, unless requests about the
\* record overlapped or failed, two pages were open on it, a person was added
\* again, or the involvement was changed in the row of one removed before.
ChoicesStand ==
    \A n \in 1..Len(server) : n \notin muddled /\ ~Busy(n) => Record(n) = asked[n]
=============================================================================
