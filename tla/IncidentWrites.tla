-------------------------- MODULE IncidentWrites --------------------------
(***************************************************************************)
(* The incident write path of one event: the CreateIncident and            *)
(* UpdateIncident RPCs and the updateIncident helper they share.           *)
(*                                                                         *)
(* The helper reads the incident outside any transaction, computes the new *)
(* row and the differences of its lists from what it read, and writes them *)
(* in one transaction that reads nothing.  InnoDB holds the locks of such  *)
(* a transaction until its end, so its statements are one step, Commit;    *)
(* what other requests do between the reads and that step is the point of  *)
(* the model.                                                              *)
(*                                                                         *)
(* Fields that updateIncident treats alike share one: summary stands for   *)
(* the compared scalars (priority, start, summary, location), outcome for  *)
(* the fields that are looked up first (outcome, area), attached for the   *)
(* report and visit lists.                                                 *)
(***************************************************************************)
EXTENDS Integers

CONSTANTS
  Requests,     \* calls in flight at the same time
  People, Admins,
  Writers,      \* people with EventWriteIncidents
  Grantees,     \* people granted access incident by incident
  Payloads,     \* the IncidentUpdates that callers send
  Absent,       \* a payload's field that is not present; a row not there
  Texts, NoText, Outcomes, NoOutcome, UnknownOutcome, Types, Reports,
  MaxIncidents, \* bound: incidents per event
  MaxCalls      \* bound: calls

Numbers == 1 .. MaxIncidents

(* The columns of INCIDENT.                                                *)
Row == [state : {"open", "closed"}, closed : {"null", "stamped"},
        summary : Texts \cup {NoText}, outcome : Outcomes \cup {NoOutcome},
        private : {"public", "private"}, createdBy : People]

ASSUME WritesAssumption ==
  /\ MaxIncidents \in Nat /\ MaxCalls \in Nat
  /\ \A d \in Payloads :
       /\ d.state \in {"open", "closed", Absent}
       /\ d.summary \in Texts \cup {Absent}
       /\ d.outcome \in Outcomes \cup {NoOutcome, UnknownOutcome, Absent}
       /\ d.private \in {"public", "private", Absent}
       /\ d.types = Absent \/ d.types \in SUBSET Types
       /\ d.attached = Absent \/ d.attached \in SUBSET Reports
       /\ d.links = Absent \/ d.links \in SUBSET Nat
       /\ d.entry \in {"text", Absent}
  /\ UnknownOutcome \notin Outcomes \cup {NoOutcome}
  /\ UnknownOutcome # Absent
  /\ Absent \notin Row

VARIABLES
  row,      \* row[n]: the columns of INCIDENT n, or Absent
  linked,   \* INCIDENT__LINKED_INCIDENT
  typed,    \* INCIDENT__INCIDENT_TYPE
  holder,   \* holder[r]: REPORT.INCIDENT_NUMBER, 0 for null
  pc,       \* pc[q]: where the handler is
  req,      \* req[q]: the call's rpc, caller, number and payload
  stored,   \* stored[q]: storedIncident, the row as q read it
  lists,    \* lists[q]: links, types and reports as q read them
  calls,    \* calls so far
  pokes,    \* pokes[q]: what q has yet to announce after its incident
  answers,  \* answers[n]: how many CreateIncident calls returned n (history)
  told,     \* told[n]: the row as the journal of n tells it (history)
  raced,    \* incidents once written from a stale read (history)
  unseen,   \* what changed since it was last announced (history)
  failed    \* incidents whose creation failed after the insert (history)

tables == <<row, linked, typed, holder>>
local == <<req, stored, lists, pokes>>
history == <<answers, told, raced, unseen, failed>>
vars == <<tables, pc, calls, local, history>>

Lists == [links : SUBSET Numbers, types : SUBSET Types,
          attached : SUBSET Reports]
(* What clients can be out of date about; "left" m is the view of incident *)
(* m, out of date because an edit of another incident took its report.     *)
Subjects == ({"incident", "left"} \X Numbers) \cup ({"report"} \X Reports)
              \cup {<<"dashboard", 0>>}
Dashboard == <<"dashboard", 0>>

Live == {n \in Numbers : row[n] # Absent}

Init ==
  /\ row = [n \in Numbers |-> Absent]
  /\ linked = {} /\ typed = {}
  /\ holder = [r \in Reports |-> 0]
  /\ pc = [q \in Requests |-> "idle"]
  /\ calls = 0
  /\ req = [q \in Requests |-> Absent]
  /\ stored = [q \in Requests |-> Absent]
  /\ lists = [q \in Requests |-> Absent]
  /\ pokes = [q \in Requests |-> {}]
  /\ answers = [n \in Numbers |-> 0]
  /\ told = [n \in Numbers |-> Absent]
  /\ raced = {} /\ unseen = {} /\ failed = {}

---------------------------------------------------------------------------
(* Calls begin and end.                                                    *)

Goto(q, where) == pc' = [pc EXCEPT ![q] = where]

(* NextIncidentNumber: one more than the greatest, from 1.                 *)
NextNumber(n) ==
  /\ \A m \in Live : m < n
  /\ n = 1 \/ n - 1 \in Live

(* CreateIncident up to the number it reserves, which locks nothing.       *)
StartCreate(q, c, d, n) ==
  /\ pc[q] = "idle"
  /\ calls < MaxCalls /\ calls' = calls + 1
  /\ c \in Writers
  /\ NextNumber(n)
  /\ req' = [req EXCEPT ![q] = [rpc |-> "create", caller |-> c, number |-> n,
                                payload |-> d]]
  /\ Goto(q, "insert")
  /\ UNCHANGED <<tables, stored, lists, pokes, history>>

(* The columns a bare row is inserted with.                                *)
NewRow(c) == [state |-> "open", closed |-> "null", summary |-> NoText,
              outcome |-> NoOutcome, private |-> "public", createdBy |-> c]

(* The insert, a transaction of its own; the primary key refuses a number  *)
(* that another call has taken in the meantime (Fail).                     *)
InsertRow(q) ==
  LET n == req[q].number
  IN /\ pc[q] = "insert"
     /\ row[n] = Absent
     /\ row' = [row EXCEPT ![n] = NewRow(req[q].caller)]
     /\ told' = [told EXCEPT ![n] = NewRow(req[q].caller)]
     /\ unseen' = unseen \cup {<<"incident", n>>, Dashboard}
     /\ Goto(q, "row")
     /\ UNCHANGED <<calls, linked, typed, holder, local, answers, raced, failed>>

IsJournalOnly(d) ==
  /\ d.entry # Absent
  /\ \A f \in {"state", "summary", "outcome", "private", "types", "attached",
               "links"} : d[f] = Absent

(* UpdateIncident up to its permission gate.                               *)
StartUpdate(q, c, d, n) ==
  /\ pc[q] = "idle"
  /\ calls < MaxCalls /\ calls' = calls + 1
  /\ c \in Writers \/ (c \in Grantees /\ IsJournalOnly(d))
  /\ req' = [req EXCEPT ![q] = [rpc |-> "update", caller |-> c, number |-> n,
                                payload |-> d]]
  /\ Goto(q, "gate")
  /\ UNCHANGED <<tables, stored, lists, pokes, history>>

(* requireIncidentVisible: an unknown or invisible incident is NotFound.   *)
GateOpens(q) ==
  LET n == req[q].number
      c == req[q].caller
  IN /\ pc[q] = "gate"
     /\ n \in Live
     /\ \/ row[n].private = "public"
        \/ c \in Admins \cup Grantees \cup {row[n].createdBy}
     /\ Goto(q, "row")
     /\ UNCHANGED <<calls, tables, local, history>>

(* The call is over; its local state is gone.                              *)
Forget(q) ==
  /\ Goto(q, "idle")
  /\ req' = [req EXCEPT ![q] = Absent]
  /\ stored' = [stored EXCEPT ![q] = Absent]
  /\ lists' = [lists EXCEPT ![q] = Absent]

(* Any error up to the commit: a gate or a validation refuses, a constraint *)
(* is violated, the database fails.  The transaction is rolled back; a row *)
(* that CreateIncident has inserted stays.                                 *)
Inserted(q) ==
  req[q].rpc = "create" /\ pc[q] \in {"row", "links", "commit"}

Fail(q) ==
  /\ pc[q] \in {"insert", "gate", "row", "links", "commit"}
  /\ failed' = failed \cup {n \in Numbers : Inserted(q) /\ n = req[q].number}
  /\ Forget(q)
  /\ UNCHANGED <<calls, tables, pokes, answers, told, raced, unseen>>

---------------------------------------------------------------------------
(* updateIncident.                                                         *)

Typed(n) == {t \in Types : <<n, t>> \in typed}
Held(n) == {r \in Reports : holder[r] = n}
LinkedTo(n) == {m \in Numbers : <<n, m>> \in linked}

(* storedIncident: the row, with its types and reports.                    *)
ReadRow(q) ==
  LET n == req[q].number
  IN /\ pc[q] = "row"
     /\ stored' = [stored EXCEPT ![q] = row[n]]
     /\ lists' = [lists EXCEPT ![q] =
                    [links |-> {}, types |-> Typed(n), attached |-> Held(n)]]
     /\ Goto(q, "links")
     /\ UNCHANGED <<calls, tables, req, pokes, history>>

(* The linked incidents, in a later query.                                 *)
ReadLinks(q) ==
  /\ pc[q] = "links"
  /\ lists' = [lists EXCEPT ![q] =
                 [links |-> LinkedTo(req[q].number), types |-> lists[q].types,
                  attached |-> lists[q].attached]]
  /\ Goto(q, "commit")
  /\ UNCHANGED <<calls, tables, req, stored, pokes, history>>

(* The difference of a list from what was read: sliceSubtract both ways.   *)
Added(q, f) ==
  IF req[q].payload[f] = Absent THEN {} ELSE req[q].payload[f] \ lists[q][f]
Removed(q, f) ==
  IF req[q].payload[f] = Absent THEN {} ELSE lists[q][f] \ req[q].payload[f]

(* Privacy may be set by an admin or the creator only.                     *)
Permitted(q) ==
  \/ req[q].payload.private = Absent
  \/ req[q].caller \in Admins \cup {stored[q].createdBy}

(* An outcome that references no row is refused.                           *)
Known(q) == req[q].payload.outcome # UnknownOutcome

(* No primary or foreign key stands in the way of the inserts.             *)
Insertable(q) ==
  LET n == req[q].number
  IN /\ \A t \in Added(q, "types") : <<n, t>> \notin typed
     /\ \A m \in Added(q, "links") :
          m # n /\ m \in Live /\ <<n, m>> \notin linked /\ <<m, n>> \notin linked

Given(new, old) == IF new = Absent THEN old ELSE new

(* UpdateIncidentParams: every column is written, from the stored row where *)
(* the payload is silent.                                                  *)
UpdatedRow(q) ==
  LET d == req[q].payload
      s == stored[q]
  IN [state |-> Given(d.state, s.state),
      closed |-> CASE d.state \in {Absent, s.state} -> s.closed
                   [] OTHER -> IF d.state = "closed" THEN "stamped" ELSE "null",
      summary |-> Given(d.summary, s.summary),
      outcome |-> Given(d.outcome, s.outcome),
      private |-> Given(d.private, s.private),
      createdBy |-> s.createdBy]

(* A "Changed ..." line is logged when the value differs from the stored.  *)
Logged(new, old, before) ==
  IF new = Absent \/ new = old THEN before ELSE new

(* The row as the journal tells it, once the lines of this edit are in.    *)
Told(q) ==
  LET d == req[q].payload
      s == stored[q]
      t == told[req[q].number]
  IN [state |-> Logged(d.state, s.state, t.state),
      closed |-> "null",
      summary |-> Logged(d.summary, s.summary, t.summary),
      outcome |-> Logged(d.outcome, s.outcome, t.outcome),
      private |-> Logged(d.private, s.private, t.private),
      createdBy |-> t.createdBy]

(* A link that only the edited incident shows.                             *)
RelinkedOneWay(q) ==
  LET n == req[q].number
  IN {l \in linked \cup ({n} \X Added(q, "links")) :
        ~(l[1] = n /\ l[2] \in Removed(q, "links"))}

(* LinkIncidents and UnlinkIncidents, each in both directions.             *)
Relinked(q) ==
  LET n == req[q].number
      add == Added(q, "links")
      sub == Removed(q, "links")
  IN (linked \cup ({n} \X add) \cup (add \X {n}))
       \ (({n} \X sub) \cup (sub \X {n}))

Retyped(q) ==
  LET n == req[q].number
  IN (typed \cup ({n} \X Added(q, "types"))) \ ({n} \X Removed(q, "types"))

(* AttachReportToIncident, whatever incident the report is on by now.      *)
Reheld(q) ==
  [r \in Reports |-> CASE r \in Added(q, "attached") -> req[q].number
                       [] r \in Removed(q, "attached") -> 0
                       [] OTHER -> holder[r]]

(* The reports and incidents whose rows or journals an edit changes too.   *)
Touched(q) ==
  ({"report"} \X (Added(q, "attached") \cup Removed(q, "attached")))
    \cup ({"incident"} \X (Added(q, "links") \cup Removed(q, "links")))

(* What clients see otherwise once the edit is committed.                  *)
Changed(q) ==
  LET n == req[q].number
  IN {<<"incident", n>>, Dashboard}
       \cup {<<"incident", m>> : m \in
               {k \in Numbers : (<<n, k>> \in linked) # (<<n, k>> \in linked')}}
       \cup {<<"report", r>> : r \in {k \in Reports : holder'[k] # holder[k]}}
       \cup {<<"left", m>> : m \in
               {k \in Numbers \ {n} : \E r \in Reports :
                                       holder[r] = k /\ holder'[r] # k}}

(* The transaction, from the whole-row update to the commit.               *)
Commit(q) ==
  LET n == req[q].number
  IN /\ pc[q] = "commit"
     /\ Permitted(q)
     /\ Known(q)
     /\ Insertable(q)
     /\ row' = [row EXCEPT ![n] = UpdatedRow(q)]
     /\ linked' = Relinked(q)
     /\ typed' = Retyped(q)
     /\ holder' = Reheld(q)
     /\ pokes' = [pokes EXCEPT ![q] = Touched(q)]
     /\ told' = [told EXCEPT ![n] = Told(q)]
     /\ raced' = IF stored[q] = row[n] THEN raced ELSE raced \cup {n}
     /\ unseen' = unseen \cup Changed(q)
     /\ Goto(q, "announce")
     /\ UNCHANGED <<calls, req, stored, lists, answers, failed>>

(* A poke about an incident has clients read all of it again.              *)
Shown(x) ==
  {x} \cup {y \in {"left"} \X Numbers : x = <<"incident", y[2]>>}

(* NotifyIncidentUpdate for the edited incident, after the commit.         *)
Announce(q) ==
  /\ pc[q] = "announce"
  /\ unseen' = unseen \ Shown(<<"incident", req[q].number>>)
  /\ Goto(q, "rest")
  /\ UNCHANGED <<calls, tables, local, answers, told, raced, failed>>

(* The loops over the reports and the linked incidents.                    *)
AnnounceNext(q, x) ==
  /\ pc[q] = "rest"
  /\ x \in pokes[q]
  /\ unseen' = unseen \ Shown(x)
  /\ pokes' = [pokes EXCEPT ![q] = pokes[q] \ {x}]
  /\ UNCHANGED <<calls, tables, pc, req, stored, lists, answers, told, raced,
                 failed>>

(* Metrics.InvalidateEvent, and the answer.                                *)
FinishUpdate(q) ==
  /\ pc[q] = "rest" /\ pokes[q] = {}
  /\ req[q].rpc = "update"
  /\ unseen' = unseen \ {Dashboard}
  /\ Forget(q)
  /\ UNCHANGED <<calls, tables, pokes, answers, told, raced, failed>>

FinishCreate(q) ==
  LET n == req[q].number
  IN /\ pc[q] = "rest" /\ pokes[q] = {}
     /\ req[q].rpc = "create"
     /\ answers' = [answers EXCEPT ![n] = answers[n] + 1]
     /\ unseen' = unseen \ {Dashboard}
     /\ Forget(q)
     /\ UNCHANGED <<calls, tables, pokes, told, raced, failed>>

Step(q) ==
  \/ \E c \in People, d \in Payloads, n \in Numbers :
       StartCreate(q, c, d, n) \/ StartUpdate(q, c, d, n)
  \/ InsertRow(q) \/ GateOpens(q) \/ Fail(q)
  \/ ReadRow(q) \/ ReadLinks(q) \/ Commit(q)
  \/ Announce(q) \/ (\E x \in Subjects : AnnounceNext(q, x))
  \/ FinishUpdate(q) \/ FinishCreate(q)

Next == \E q \in Requests : Step(q)

Spec == Init /\ [][Next]_vars

---------------------------------------------------------------------------
Call == [rpc : {"create", "update"}, caller : People, number : Numbers,
         payload : Payloads]
Locations == {"idle", "insert", "gate", "row", "links", "commit", "announce",
              "rest"}

TypeOK ==
  /\ row \in [Numbers -> Row \cup {Absent}]
  /\ linked \in SUBSET (Numbers \X Numbers)
  /\ typed \in SUBSET (Numbers \X Types)
  /\ holder \in [Reports -> Numbers \cup {0}]
  /\ pc \in [Requests -> Locations]
  /\ calls \in Nat
  /\ req \in [Requests -> Call \cup {Absent}]
  /\ stored \in [Requests -> Row \cup {Absent}]
  /\ lists \in [Requests -> Lists \cup {Absent}]
  /\ pokes \in [Requests -> SUBSET Subjects]
  /\ answers \in [Numbers -> Nat]
  /\ told \in [Numbers -> Row \cup {Absent}]
  /\ raced \in SUBSET Numbers
  /\ unseen \in SUBSET Subjects
  /\ failed \in SUBSET Numbers

(* An incident shows its links from both ends, however edits of the two    *)
(* ends overlap: a link and its reverse exist together, none to itself.    *)
LinksSymmetric ==
  \A n, m \in Numbers :
    <<n, m>> \in linked => n # m /\ <<m, n>> \in linked

(* STATE keeps its coupling with the CLOSED timestamp: an incident carries *)
(* a closing time exactly while it is closed, stale writers included.      *)
ClosedMatchesState ==
  \A n \in Live : row[n].state = "closed" <=> row[n].closed = "stamped"

(* Two CreateIncident calls never return the same number, although the     *)
(* number is reserved by a plain read.                                     *)
NumberIsOwn == \A n \in Numbers : answers[n] <= 1

(* The journal is honest: as long as no edit was written from a stale read *)
(* the row is what its "Changed ..." lines say, phantom lines excluded.    *)
JournalHonest ==
  \A n \in Live \ raced :
    \A f \in {"state", "summary", "outcome", "private"} :
      row[n][f] = told[n][f]

(* What a request has announced or will announce before it returns.        *)
Owed(q) ==
  CASE pc[q] = "announce" -> pokes[q] \cup {<<"incident", req[q].number>>,
                                            Dashboard}
    [] pc[q] = "rest" -> pokes[q] \cup {Dashboard}
    [] pc[q] \in {"row", "links", "commit"} /\ req[q].rpc = "create" ->
         {<<"incident", req[q].number>>, Dashboard}
    [] OTHER -> {}

(* What clients have not been poked about is owed by a request in flight,  *)
(* except the bare row that a failed CreateIncident leaves behind, and an  *)
(* incident that lost its report to an edit of another one: updateIncident *)
(* pokes the edited incident and the report (incident.go:857-863), where   *)
(* UpdateReport pokes both ends of the link (connect.go:1464-1465).        *)
NothingForgotten ==
  \A x \in unseen : \/ \E q \in Requests : x \in Owed(q)
                    \/ x \in {"incident"} \X failed
                    \/ x = Dashboard /\ failed # {}
                    \/ x \in {"left"} \X Numbers

(* The same without the second exception, which does not hold: whatever    *)
(* changed for its viewers is announced, the other end of a link included. *)
EveryChangeAnnounced ==
  \A x \in unseen : \/ \E q \in Requests : x \in Owed(q)
                    \/ x \in {"incident"} \X failed
                    \/ x = Dashboard /\ failed # {}

(* The tables after any overlap of creates and edits (incident.go,         *)
(* updateIncident): links have both their rows, closing times match the    *)
(* states, numbers are not shared, the journal explains the rows no stale  *)
(* edit overwrote, and a committed change is announced, unless it is that  *)
(* of an incident whose report was taken.                                  *)
IncidentSafe == /\ LinksSymmetric
                /\ ClosedMatchesState
                /\ NumberIsOwn
                /\ JournalHonest
                /\ NothingForgotten

(* "Privacy is writable only by an admin or the incident's creator": no    *)
(* commit of anybody else changes PRIVATE.                                 *)
PrivacyByOwnerOnly ==
  [][\A q \in Requests, n \in Live :
       (pc[q] = "commit" /\ pc'[q] = "announce"
          /\ row'[n].private # row[n].private)
         => req[q].caller \in Admins \cup {row[n].createdBy}]_vars

---------------------------------------------------------------------------
(* The inductive invariant behind the safety properties.                   *)

Past == {"row", "links", "commit", "announce", "rest"}

(* What a call holds, by where it is: a call past the insert or the gate   *)
(* is about an incident that exists, since no incident is ever deleted.    *)
CallInv ==
  \A q \in Requests :
    /\ pc[q] # "idle" => req[q] \in Call
    /\ pc[q] = "insert" => req[q].rpc = "create"
    /\ pc[q] = "gate" => req[q].rpc = "update"
    /\ pc[q] \in Past => row[req[q].number] # Absent
    /\ pc[q] \in {"links", "commit"} => stored[q] \in Row /\ lists[q] \in Lists

(* Stale rows are consistent rows.                                         *)
StoredInv ==
  \A q \in Requests :
    pc[q] \in {"links", "commit"} =>
      (stored[q].state = "closed" <=> stored[q].closed = "stamped")

Creating(q) == pc[q] \in Past /\ req[q].rpc = "create"

(* A number belongs to the one call that inserted its row.                 *)
NumberInv ==
  /\ \A q \in Requests : Creating(q) => answers[req[q].number] = 0
  /\ \A q, r \in Requests :
       Creating(q) /\ Creating(r) /\ req[q].number = req[r].number => q = r
  /\ \A n \in Numbers : row[n] = Absent => answers[n] = 0

(* The journal of a row exists as soon as the row does.                    *)
ToldInv == \A n \in Numbers : row[n] # Absent => told[n] # Absent

IInv == /\ TypeOK /\ CallInv /\ StoredInv /\ NumberInv /\ ToldInv
        /\ LinksSymmetric /\ ClosedMatchesState /\ NumberIsOwn /\ JournalHonest
        /\ NothingForgotten
===========================================================================
