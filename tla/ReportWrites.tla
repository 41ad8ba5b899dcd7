--------------------------- MODULE ReportWrites ---------------------------
(***************************************************************************)
(* The field-report write path of one event: the CreateReport and          *)
(* UpdateReport RPCs, with reconcileReportLink.                            *)
(*                                                                         *)
(* UpdateReport reads the report, then changes the link to an incident in  *)
(* statements of their own (the link, a journal entry on the report, one   *)
(* on the incident, the announcements), and only then checks the caller's  *)
(* rights and writes summary and entries in a transaction, together with   *)
(* the link as it was read.  Every autocommitted statement is a step, the  *)
(* transaction is one.                                                     *)
(***************************************************************************)
EXTENDS Integers

CONSTANTS
  Requests,    \* calls in flight at the same time
  People, Admins,
  WriteAll,    \* people with EventWriteAllReports
  WriteOwn,    \* people with EventWriteOwnReports
  Incidents,   \* the incidents that exist
  Links,       \* the values of report.incident that callers send
  Texts, NoText,
  Absent,      \* a payload's field that is not present; a row not there
  MaxReports,  \* bound: reports per event
  MaxCalls     \* bound: calls

Numbers == 1 .. MaxReports

(* The columns of REPORT; 0 for no incident.                               *)
Row == [summary : Texts \cup {NoText}, incident : Incidents \cup {0},
        createdBy : People]

Payload == [summary : Texts \cup {Absent}, link : Links \cup {Absent},
            entry : {"text", Absent}]

ASSUME ReportsAssumption ==
  /\ MaxReports \in Nat /\ MaxCalls \in Nat
  /\ Links \subseteq Int /\ Incidents \subseteq Nat \ {0}
  /\ Absent \notin Row /\ Absent \notin Int

VARIABLES
  row,       \* row[n]: the columns of REPORT n, or Absent
  wrote,     \* pairs <<c, n>>: c is the author of an entry of report n
  onReport,  \* pairs <<n, i>>: "Attached to incident: i" on report n
  onIncident,\* pairs <<n, i>>: "Report added: n" on incident i
  pc,        \* pc[q]: where the handler is
  req,       \* req[q]: the call's rpc, caller, number and payload
  stored,    \* stored[q]: storedReport, the row as q read it
  calls,     \* calls so far
  answers,   \* answers[n]: how many CreateReport calls returned n (history)
  unseen,    \* what changed since it was last announced (history)
  clobbered, \* reports whose link was written from a stale read (history)
  failed     \* reports a call failed on after it had changed them (history)

tables == <<row, wrote, onReport, onIncident>>
history == <<answers, unseen, clobbered, failed>>
vars == <<tables, pc, req, stored, calls, history>>

Locations == {"idle", "insert", "fill", "created", "read", "floor", "link",
              "reportEntry", "incidentEntry", "announceLink", "rights",
              "commit", "announce"}

Init ==
  /\ row = [n \in Numbers |-> Absent]
  /\ wrote = {} /\ onReport = {} /\ onIncident = {}
  /\ pc = [q \in Requests |-> "idle"]
  /\ req = [q \in Requests |-> Absent]
  /\ stored = [q \in Requests |-> Absent]
  /\ calls = 0
  /\ answers = [n \in Numbers |-> 0]
  /\ unseen = {} /\ clobbered = {} /\ failed = {}

---------------------------------------------------------------------------
Goto(q, where) == pc' = [pc EXCEPT ![q] = where]

Live == {n \in Numbers : row[n] # Absent}

Forget(q) ==
  /\ Goto(q, "idle")
  /\ req' = [req EXCEPT ![q] = Absent]
  /\ stored' = [stored EXCEPT ![q] = Absent]

(* reportWriteContext: either write bit opens the gate.                    *)
MayWrite(c) == c \in WriteAll \cup WriteOwn

(* The incident a payload asks for: a positive number links, any other     *)
(* detaches.                                                               *)
Target(d) == IF d.link > 0 THEN d.link ELSE 0

Reported(n) == <<"report", n>>
OnIncident(i) == {<<"incident", j>> : j \in {i} \ {0}}

(* Where an error can leave a report changed and nobody told.              *)
Halfway == {"fill", "reportEntry", "incidentEntry", "announceLink"}

(* Any error: a check refuses, a key is violated, the database fails.      *)
Fail(q) ==
  /\ pc[q] \in {"insert", "fill", "read", "floor", "link", "reportEntry",
                "incidentEntry", "rights", "commit"}
  /\ failed' = failed \cup {n \in Numbers : pc[q] \in Halfway
                                            /\ n = req[q].number}
  /\ Forget(q)
  /\ UNCHANGED <<tables, calls, answers, unseen, clobbered>>

---------------------------------------------------------------------------
(* CreateReport.                                                           *)

(* NextReportNumber: one more than the greatest, from 1.                   *)
NextNumber(n) ==
  /\ \A m \in Live : m < n
  /\ n = 1 \/ n - 1 \in Live

StartCreate(q, c, d, n) ==
  /\ pc[q] = "idle"
  /\ calls < MaxCalls /\ calls' = calls + 1
  /\ MayWrite(c)
  /\ NextNumber(n)
  /\ req' = [req EXCEPT ![q] = [rpc |-> "create", caller |-> c, number |-> n,
                                payload |-> d]]
  /\ Goto(q, "insert")
  /\ UNCHANGED <<tables, stored, history>>

(* An absent or non-positive link leaves a new report unlinked.            *)
FirstLink(d) == IF d.link = Absent THEN 0 ELSE Target(d)

(* The columns a report is created with.                                   *)
NewRow(q) ==
  [summary |-> IF req[q].payload.summary = Absent THEN NoText
               ELSE req[q].payload.summary,
   incident |-> FirstLink(req[q].payload),
   createdBy |-> req[q].caller]

(* The row with its link, autocommitted: keys refuse a number that is      *)
(* taken and an incident that is not there (Fail).                         *)
InsertReport(q) ==
  LET n == req[q].number
  IN /\ pc[q] = "insert"
     /\ row[n] = Absent
     /\ FirstLink(req[q].payload) \in Incidents \cup {0}
     /\ row' = [row EXCEPT ![n] = NewRow(q)]
     /\ unseen' = unseen \cup {Reported(n)}
                         \cup OnIncident(FirstLink(req[q].payload))
     /\ Goto(q, "fill")
     /\ UNCHANGED <<wrote, onReport, onIncident, req, stored, calls, answers,
                    clobbered, failed>>

(* The transaction with the journal entries of both timelines.             *)
FillJournals(q) ==
  LET n == req[q].number
      d == req[q].payload
      i == FirstLink(d)
      says == d.summary # Absent \/ i # 0 \/ d.entry # Absent
  IN /\ pc[q] = "fill"
     /\ onReport' = onReport \cup ({n} \X ({i} \ {0}))
     /\ onIncident' = onIncident \cup ({n} \X ({i} \ {0}))
     /\ wrote' = IF says THEN wrote \cup {<<req[q].caller, n>>} ELSE wrote
     /\ Goto(q, "created")
     /\ UNCHANGED <<row, req, stored, calls, history>>

(* The deferred announcements, and the answer.                             *)
FinishCreate(q) ==
  LET n == req[q].number
  IN /\ pc[q] = "created"
     /\ answers' = [answers EXCEPT ![n] = answers[n] + 1]
     /\ unseen' = unseen \ ({Reported(n)}
                              \cup OnIncident(FirstLink(req[q].payload)))
     /\ Forget(q)
     /\ UNCHANGED <<tables, calls, clobbered, failed>>

---------------------------------------------------------------------------
(* UpdateReport.                                                           *)

StartUpdate(q, c, d, n) ==
  /\ pc[q] = "idle"
  /\ calls < MaxCalls /\ calls' = calls + 1
  /\ MayWrite(c)
  /\ req' = [req EXCEPT ![q] = [rpc |-> "update", caller |-> c, number |-> n,
                                payload |-> d]]
  /\ Goto(q, "read")
  /\ UNCHANGED <<tables, stored, history>>

ReadReport(q) ==
  LET n == req[q].number
  IN /\ pc[q] = "read"
     /\ n \in Live
     /\ stored' = [stored EXCEPT ![q] = row[n]]
     /\ Goto(q, "floor")
     /\ UNCHANGED <<tables, req, calls, history>>

(* The ownership floor: write-all, the creator, or a previous author.      *)
ClearFloor(q) ==
  LET c == req[q].caller
  IN /\ pc[q] = "floor"
     /\ c \in WriteAll \cup {stored[q].createdBy}
          \/ <<c, req[q].number>> \in wrote
     /\ Goto(q, "link")
     /\ UNCHANGED <<tables, req, stored, calls, history>>

(* The payload asks for a link other than the one read.                    *)
AsksNewLink(q) ==
  /\ req[q].payload.link # Absent
  /\ Target(req[q].payload) # stored[q].incident

(* reconcileReportLink: nothing asked, or nothing new.                     *)
KeepLink(q) ==
  /\ pc[q] = "link"
  /\ ~AsksNewLink(q)
  /\ Goto(q, "rights")
  /\ UNCHANGED <<tables, req, stored, calls, history>>

(* The link itself; the foreign key refuses an unknown incident (Fail).    *)
Relink(q) ==
  LET n == req[q].number
      d == req[q].payload
  IN /\ pc[q] = "link"
     /\ AsksNewLink(q)
     /\ Target(d) \in Incidents \cup {0}
     /\ row' = [row EXCEPT ![n] = [summary |-> row[n].summary,
                                   incident |-> Target(d),
                                   createdBy |-> row[n].createdBy]]
     /\ unseen' = unseen \cup {Reported(n)} \cup OnIncident(Target(d))
                         \cup OnIncident(row[n].incident)
     /\ clobbered' = IF row[n].incident = stored[q].incident THEN clobbered
                     ELSE clobbered \cup {n}
     /\ Goto(q, "reportEntry")
     /\ UNCHANGED <<wrote, onReport, onIncident, req, stored, calls, answers,
                    failed>>

(* The entry on the report's timeline.                                     *)
WriteReportEntry(q) ==
  LET n == req[q].number
      i == Target(req[q].payload)
  IN /\ pc[q] = "reportEntry"
     /\ onReport' = onReport \cup ({n} \X ({i} \ {0}))
     /\ wrote' = wrote \cup {<<req[q].caller, n>>}
     /\ Goto(q, "incidentEntry")
     /\ UNCHANGED <<row, onIncident, req, stored, calls, history>>

(* Its mirror on the timeline of the incident gained, or of the one lost.  *)
WriteIncidentEntry(q) ==
  LET n == req[q].number
      i == Target(req[q].payload)
  IN /\ pc[q] = "incidentEntry"
     /\ onIncident' = onIncident \cup ({n} \X ({i} \ {0}))
     /\ Goto(q, "announceLink")
     /\ UNCHANGED <<row, wrote, onReport, req, stored, calls, history>>

(* An announcement of the new incident, none of the previous one.          *)
AnnounceTargetOnly(q) ==
  /\ pc[q] = "announceLink"
  /\ unseen' = unseen \ ({Reported(req[q].number)}
                           \cup OnIncident(Target(req[q].payload)))
  /\ Goto(q, "rights")
  /\ UNCHANGED <<tables, req, stored, calls, answers, clobbered, failed>>

(* NotifyReportUpdate and NotifyIncidentUpdates.                           *)
AnnounceLink(q) ==
  /\ pc[q] = "announceLink"
  /\ unseen' = unseen \ ({Reported(req[q].number)}
                           \cup OnIncident(Target(req[q].payload))
                           \cup OnIncident(stored[q].incident))
  /\ Goto(q, "rights")
  /\ UNCHANGED <<tables, req, stored, calls, answers, clobbered, failed>>

(* A link-only request is done.                                            *)
FinishLink(q) ==
  /\ pc[q] = "rights"
  /\ req[q].payload.summary = Absent /\ req[q].payload.entry = Absent
  /\ Forget(q)
  /\ UNCHANGED <<tables, calls, history>>

(* Mutant: who may add entries may edit the summary.                       *)
CheckRightsLoose(q) ==
  LET c == req[q].caller
      d == req[q].payload
      owners == Admins \cup {stored[q].createdBy}
  IN /\ pc[q] = "rights"
     /\ d.summary # Absent \/ d.entry # Absent
     /\ c \in owners \cup WriteAll
     /\ Goto(q, "commit")
     /\ UNCHANGED <<tables, req, stored, calls, history>>

(* reportEditRights, for what the payload does.                            *)
CheckRights(q) ==
  LET c == req[q].caller
      d == req[q].payload
      owners == Admins \cup {stored[q].createdBy}
  IN /\ pc[q] = "rights"
     /\ d.summary # Absent \/ d.entry # Absent
     /\ d.summary # Absent => c \in owners
     /\ d.entry # Absent => c \in owners \cup WriteAll
     /\ Goto(q, "commit")
     /\ UNCHANGED <<tables, req, stored, calls, history>>

(* UpdateReportParams: the new summary, and the link as it was read.       *)
WrittenBack(q) ==
  [summary |-> IF req[q].payload.summary = Absent THEN stored[q].summary
               ELSE req[q].payload.summary,
   incident |-> stored[q].incident,
   createdBy |-> stored[q].createdBy]

(* The transaction with summary, link and entries.                         *)
Commit(q) ==
  LET n == req[q].number
  IN /\ pc[q] = "commit"
     /\ row' = [row EXCEPT ![n] = WrittenBack(q)]
     /\ wrote' = wrote \cup {<<req[q].caller, n>>}
     /\ unseen' = unseen \cup {Reported(n)}
          \cup (IF row[n].incident = stored[q].incident THEN {}
                ELSE OnIncident(row[n].incident)
                       \cup OnIncident(stored[q].incident))
     /\ clobbered' = IF row[n].incident = stored[q].incident THEN clobbered
                     ELSE clobbered \cup {n}
     /\ Goto(q, "announce")
     /\ UNCHANGED <<onReport, onIncident, req, stored, calls, answers, failed>>

(* NotifyReportUpdate, deferred to the return.                             *)
FinishUpdate(q) ==
  /\ pc[q] = "announce"
  /\ unseen' = unseen \ {Reported(req[q].number)}
  /\ Forget(q)
  /\ UNCHANGED <<tables, calls, answers, clobbered, failed>>

Step(q) ==
  \/ \E c \in People, d \in Payload, n \in Numbers :
       StartCreate(q, c, d, n) \/ StartUpdate(q, c, d, n)
  \/ InsertReport(q) \/ FillJournals(q) \/ FinishCreate(q) \/ Fail(q)
  \/ ReadReport(q) \/ ClearFloor(q) \/ KeepLink(q) \/ Relink(q)
  \/ WriteReportEntry(q) \/ WriteIncidentEntry(q) \/ AnnounceLink(q)
  \/ FinishLink(q) \/ CheckRights(q) \/ Commit(q) \/ FinishUpdate(q)

Next == \E q \in Requests : Step(q)

Spec == Init /\ [][Next]_vars

---------------------------------------------------------------------------
Call == [rpc : {"create", "update"}, caller : People, number : Numbers,
         payload : Payload]
Subjects == ({"report"} \X Numbers) \cup ({"incident"} \X Incidents)

TypeOK ==
  /\ row \in [Numbers -> Row \cup {Absent}]
  /\ wrote \in SUBSET (People \X Numbers)
  /\ onReport \in SUBSET (Numbers \X Incidents)
  /\ onIncident \in SUBSET (Numbers \X Incidents)
  /\ pc \in [Requests -> Locations]
  /\ req \in [Requests -> Call \cup {Absent}]
  /\ stored \in [Requests -> Row \cup {Absent}]
  /\ calls \in Nat
  /\ answers \in [Numbers -> Nat]
  /\ unseen \in SUBSET Subjects
  /\ clobbered \in SUBSET Numbers
  /\ failed \in SUBSET Numbers

(* Two CreateReport calls never return the same number.                    *)
ReportNumberIsOwn == \A n \in Numbers : answers[n] <= 1

(* A link is visible from both timelines: the journals of the report and   *)
(* of its incident tell of it, unless a call is still writing them or has  *)
(* failed between the link and its entries.                                *)
LinkOnBothTimelines ==
  \A n \in Live \ failed :
    row[n].incident # 0 =>
      \/ <<n, row[n].incident>> \in onReport \cap onIncident
      \/ \E q \in Requests :
           /\ pc[q] \in {"fill", "reportEntry", "incidentEntry"}
           /\ req[q].number = n

(* What a request will announce before it returns.                         *)
Owed(q) ==
  CASE pc[q] \in {"fill", "created"} ->
         {Reported(req[q].number)} \cup OnIncident(FirstLink(req[q].payload))
    [] pc[q] \in {"reportEntry", "incidentEntry", "announceLink"} ->
         {Reported(req[q].number)} \cup OnIncident(Target(req[q].payload))
           \cup OnIncident(stored[q].incident)
    [] pc[q] = "announce" -> {Reported(req[q].number)}
    [] OTHER -> {}

(* No change of a report, or of an incident's reports, goes unannounced:   *)
(* both ends of a moved link are poked, unless a call fails halfway or     *)
(* overwrites a link that another has changed since it was read (it pokes  *)
(* the incident it had read, not the one the report was on).               *)
LinkChangesAnnounced ==
  failed \cup clobbered = {} => \A x \in unseen : \E q \in Requests : x \in Owed(q)

(* The reports after any overlap of calls, failed ones included            *)
(* (connect.go, UpdateReport and reconcileReportLink): numbers are not     *)
(* shared, links are told of on both timelines and both ends of a changed  *)
(* link are announced.                                                     *)
ReportSafe == /\ ReportNumberIsOwn
              /\ LinkOnBothTimelines
              /\ LinkChangesAnnounced

(* "present & >0 links, present & <=0 detaches": an update that succeeds   *)
(* leaves the report on the incident it asked for, when nobody else        *)
(* touches the report meanwhile.                                           *)
LinkAsRequested ==
  [][\A q \in Requests :
       FinishLink(q) \/ FinishUpdate(q) =>
         \/ req[q].payload.link = Absent
         \/ row[req[q].number].incident = Target(req[q].payload)]_vars

(* "Only the creator/admin may edit the summary": the commit of anybody    *)
(* else puts no text of theirs there.  (It may put back the text they had  *)
(* read, over one that was committed meanwhile.)                           *)
SummaryByOwnerOnly ==
  [][\A q \in Requests, n \in Live :
       (pc[q] = "commit" /\ pc'[q] = "announce"
          /\ row'[n].summary # row[n].summary)
         => \/ req[q].caller \in Admins \cup {row[n].createdBy}
            \/ row'[n].summary = stored[q].summary]_vars

---------------------------------------------------------------------------
(* The inductive invariant behind the safety properties.                   *)

Creating == {"fill", "created"}
Linking == {"reportEntry", "incidentEntry", "announceLink"}
HasRead == {"floor", "link", "rights", "commit", "announce"} \cup Linking

(* What a call holds, by where it is: a call past the insert or the read   *)
(* is about a report that exists (none is ever deleted) with the creator   *)
(* that was read, and a link it writes passed the foreign key.             *)
CallInv ==
  \A q \in Requests :
    /\ pc[q] # "idle" => req[q] \in Call
    /\ pc[q] \in Creating =>
         /\ row[req[q].number] # Absent
         /\ FirstLink(req[q].payload) \in Incidents \cup {0}
    /\ pc[q] \in HasRead =>
         /\ row[req[q].number] # Absent
         /\ stored[q] \in Row
         /\ stored[q].createdBy = row[req[q].number].createdBy
    /\ pc[q] \in Linking =>
         /\ req[q].payload.link # Absent
         /\ Target(req[q].payload) \in Incidents \cup {0}
    /\ pc[q] = "commit" /\ req[q].payload.summary # Absent =>
         req[q].caller \in Admins \cup {stored[q].createdBy}

(* A number belongs to the one call that inserted its row.                 *)
NumberInv ==
  /\ \A q \in Requests : pc[q] \in Creating => answers[req[q].number] = 0
  /\ \A q, r \in Requests :
       /\ pc[q] \in Creating /\ pc[r] \in Creating
       /\ req[q].number = req[r].number
       => q = r
  /\ \A n \in Numbers : row[n] = Absent => answers[n] = 0

(* Some call is about to journal that report n is on incident i.           *)
Journalling(n, i) ==
  \E q \in Requests :
    \/ /\ pc[q] = "fill"
       /\ req[q].number = n /\ FirstLink(req[q].payload) = i
    \/ /\ pc[q] \in {"reportEntry", "incidentEntry"}
       /\ req[q].number = n /\ Target(req[q].payload) = i

Journalled(n, i) ==
  \/ i = 0 \/ n \in failed
  \/ <<n, i>> \in onReport /\ <<n, i>> \in onIncident
  \/ Journalling(n, i)

(* Every link is journalled or about to be: the stored one, and the ones   *)
(* that calls have read and may write back.                                *)
JournalInv ==
  /\ \A n \in Live : Journalled(n, row[n].incident)
  /\ \A q \in Requests :
       pc[q] \in HasRead => Journalled(req[q].number, stored[q].incident)
  /\ \A q \in Requests :
       pc[q] = "incidentEntry" =>
         \/ Target(req[q].payload) = 0
         \/ <<req[q].number, Target(req[q].payload)>> \in onReport

IInv == /\ TypeOK /\ CallInv /\ NumberInv /\ JournalInv
        /\ ReportNumberIsOwn /\ LinkChangesAnnounced
===========================================================================
