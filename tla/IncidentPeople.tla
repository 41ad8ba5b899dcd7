-------------------------- MODULE IncidentPeople --------------------------
(***************************************************************************)
(* The people of one incident: the AttachPersonToIncident, RequestReport   *)
(* and DetachPersonFromIncident RPCs, the retrying transaction they run in *)
(* (store.RunInTx) and the notification and push that follow.              *)
(*                                                                         *)
(* Attach and request read the people first and decide from that snapshot; *)
(* under REPEATABLE READ the reading takes no lock, so other calls commit  *)
(* between the reading and the writes.  The writes lock what they touch    *)
(* until the commit: read and write-with-commit are two steps.  The table  *)
(* has no key on (event, incident, person): a person may have two rows.    *)
(***************************************************************************)
EXTENDS Integers, Sequences

CONSTANTS
  Requests,      \* calls in flight at the same time
  People,
  Writers,       \* people with EventWriteIncidents
  Insiders,      \* the incident's creator and the admins
  Private,       \* the incident's PRIVATE column
  MaxTxAttempts, \* maxTxAttempts
  MaxCalls       \* bound: calls

ASSUME PeopleAssumption ==
  /\ Private \in BOOLEAN /\ People # {}
  /\ Writers \subseteq People
  /\ MaxTxAttempts \in Nat \ {0} /\ MaxCalls \in Nat

(* The columns of INCIDENT__PERSON: GRANTED_ACCESS and whether             *)
(* REPORT_REQUESTED is not null.                                           *)
Row == [granted : BOOLEAN, asked : BOOLEAN]

Calls == [rpc : {"attach", "request", "detach"}, actor : People,
          person : People, grant : BOOLEAN]

VARIABLES
  rows,     \* rows[p]: the rows of person p on the incident, oldest first
  said,     \* said[p]: what the incident's timeline says of p
  pc,       \* pc[q]: where the handler is
  req,      \* req[q]: the call
  seen,     \* seen[q]: p's rows as this attempt of the transaction read them
  newly,    \* newly[q]: newlyAttached, read after the commit
  attempt,  \* attempt[q]: RunInTx's loop counter
  calls,    \* calls so far
  unseen,   \* a change was committed and not announced since
  noticed,  \* noticed[q]: the call stored a notification
  pushed,   \* pushed[q]: the call sent a push
  told,     \* people who were notified, or acted on themselves (history)
  stale     \* people whose rows were written from a reading no longer true
            \* (history)

handler == <<pc, req, seen, newly, attempt, calls>>
history == <<told, stale>>
vars == <<rows, said, handler, unseen, noticed, pushed, history>>

TypeOK ==
  /\ rows \in [People -> Seq(Row)]
  /\ said \in [People -> [attached : BOOLEAN, access : BOOLEAN]]
  /\ pc \in [Requests -> {"idle", "begin", "write", "after"}]
  /\ req \in [Requests -> Calls]
  /\ seen \in [Requests -> Seq(Row)]
  /\ newly \in [Requests -> BOOLEAN]
  /\ attempt \in [Requests -> 0 .. MaxTxAttempts - 1]
  /\ calls \in 0 .. MaxCalls
  /\ unseen \in BOOLEAN
  /\ noticed \in [Requests -> BOOLEAN]
  /\ pushed \in [Requests -> BOOLEAN]
  /\ told \subseteq People
  /\ stale \subseteq People

Init ==
  /\ rows = [p \in People |-> <<>>]
  /\ said = [p \in People |-> [attached |-> FALSE, access |-> FALSE]]
  /\ pc = [q \in Requests |-> "idle"]
  /\ req \in [Requests -> {CHOOSE c \in Calls : TRUE}]
  /\ seen = [q \in Requests |-> <<>>]
  /\ newly = [q \in Requests |-> FALSE]
  /\ attempt = [q \in Requests |-> 0]
  /\ calls = 0
  /\ unseen = FALSE
  /\ noticed = [q \in Requests |-> FALSE]
  /\ pushed = [q \in Requests |-> FALSE]
  /\ told = {}
  /\ stale = {}

(***************************************************************************)
(* Helpers.                                                                *)
(***************************************************************************)
(* The query IncidentPersonHasGrant.                                       *)
HasGrant(p) == \E k \in DOMAIN rows[p] : rows[p][k].granted

HasAsk(p) == \E k \in DOMAIN rows[p] : rows[p][k].asked

(* incidentWriteContext: the write bit, then the privacy rule.             *)
MayWrite(c) ==
  /\ c \in Writers
  /\ ~Private \/ c \in Insiders \/ HasGrant(c)

Attached(q) == seen[q] # <<>>

(* The reading is still what the table holds.                              *)
Fresh(q) == seen[q] = rows[req[q].person]

(* createNotification and dedupeRecipients both leave out the actor.       *)
Notifies(q) == req[q].person # req[q].actor

(* The row an attach inserts: the ask is carried over from the row read.   *)
Replacement(q) ==
  [granted |-> req[q].grant, asked |-> Attached(q) /\ Head(seen[q]).asked]

(* RequestReportFromPerson: every row the person has now.                  *)
Stamp(s) == [k \in DOMAIN s |-> [granted |-> TRUE, asked |-> TRUE]]

(* personChangeLog: an add tells the whole grant, an edit only a change of *)
(* it against the row read.                                                *)
AttachSays(q, old) ==
  [attached |-> old.attached \/ ~Attached(q),
   access |-> IF Attached(q) /\ Head(seen[q]).granted = req[q].grant
                THEN old.access ELSE req[q].grant]

(***************************************************************************)
(* The handlers.                                                           *)
(***************************************************************************)
(* A call past its gate.                                                   *)
Start(q) ==
  /\ pc[q] = "idle" /\ calls < MaxCalls
  /\ \E c \in Calls :
       /\ MayWrite(c.actor)
       /\ req' = [req EXCEPT ![q] = c]
  /\ pc' = [pc EXCEPT ![q] = "begin"]
  /\ attempt' = [attempt EXCEPT ![q] = 0]
  /\ calls' = calls + 1
  /\ noticed' = [noticed EXCEPT ![q] = FALSE]
  /\ pushed' = [pushed EXCEPT ![q] = FALSE]
  /\ UNCHANGED <<rows, said, seen, newly, unseen, history>>

(* Mutant: newlyAttached survives an attempt that was rolled back.         *)
ReadPeopleSticky(q) ==
  /\ pc[q] = "begin" /\ req[q].rpc \in {"attach", "request"}
  /\ seen' = [seen EXCEPT ![q] = rows[req[q].person]]
  /\ newly' = [newly EXCEPT
                 ![q] = (attempt[q] > 0 /\ @) \/ rows[req[q].person] = <<>>]
  /\ pc' = [pc EXCEPT ![q] = "write"]
  /\ UNCHANGED <<rows, said, req, attempt, calls, unseen, noticed, pushed,
                 history>>

(* An attempt begins; the people are read and newlyAttached is set anew.   *)
ReadPeople(q) ==
  /\ pc[q] = "begin" /\ req[q].rpc \in {"attach", "request"}
  /\ seen' = [seen EXCEPT ![q] = rows[req[q].person]]
  /\ newly' = [newly EXCEPT ![q] = rows[req[q].person] = <<>>]
  /\ pc' = [pc EXCEPT ![q] = "write"]
  /\ UNCHANGED <<rows, said, req, attempt, calls, unseen, noticed, pushed,
                 history>>

(* What a commit does beside its own table: the notice, if there is one.   *)
Committed(q, notice) ==
  /\ pc' = [pc EXCEPT ![q] = "after"]
  /\ unseen' = TRUE
  /\ noticed' = [noticed EXCEPT ![q] = notice /\ Notifies(q)]
  /\ told' = IF notice THEN told \cup {req[q].person} ELSE told
  /\ stale' = IF req[q].rpc = "detach" THEN stale \ {req[q].person}
              ELSE IF Fresh(q) THEN stale ELSE stale \cup {req[q].person}
  /\ UNCHANGED <<req, seen, newly, attempt, calls, pushed>>

(* Delete every row of the person, insert one, journal, notify if new.     *)
CommitAttach(q) ==
  /\ pc[q] = "write" /\ req[q].rpc = "attach"
  /\ rows' = [rows EXCEPT ![req[q].person] = <<Replacement(q)>>]
  /\ said' = [said EXCEPT ![req[q].person] = AttachSays(q, @)]
  /\ Committed(q, ~Attached(q))

CommitRequest(q) ==
  /\ pc[q] = "write" /\ req[q].rpc = "request"
  /\ rows' = [rows EXCEPT ![req[q].person] =
                IF Attached(q) THEN Stamp(@)
                ELSE Append(@, [granted |-> TRUE, asked |-> TRUE])]
  /\ said' = [said EXCEPT ![req[q].person] =
                [attached |-> TRUE, access |-> TRUE]]
  /\ Committed(q, TRUE)

CommitDetach(q) ==
  /\ pc[q] = "begin" /\ req[q].rpc = "detach"
  /\ rows' = [rows EXCEPT ![req[q].person] = <<>>]
  /\ said' = [said EXCEPT ![req[q].person] =
                [attached |-> FALSE, access |-> FALSE]]
  /\ Committed(q, FALSE)

(* Mutant: the attempts are not counted.                                   *)
RetryForever(q) ==
  /\ pc[q] \in {"begin", "write"}
  /\ pc' = [pc EXCEPT ![q] = "begin"]
  /\ UNCHANGED <<rows, said, req, seen, newly, attempt, calls, unseen,
                 noticed, pushed, history>>

(* A deadlock or a lock-wait timeout, of a statement or of the commit: the *)
(* attempt is rolled back and the whole transaction runs again, at most    *)
(* maxTxAttempts times.                                                    *)
Retry(q) ==
  /\ pc[q] \in {"begin", "write"}
  /\ attempt[q] < MaxTxAttempts - 1
  /\ attempt' = [attempt EXCEPT ![q] = @ + 1]
  /\ pc' = [pc EXCEPT ![q] = "begin"]
  /\ UNCHANGED <<rows, said, req, seen, newly, calls, unseen, noticed,
                 pushed, history>>

(* The last attempt lost too, the caller has gone, or another error.       *)
GiveUp(q) ==
  /\ pc[q] \in {"begin", "write"}
  /\ pc' = [pc EXCEPT ![q] = "idle"]
  /\ UNCHANGED <<rows, said, req, seen, newly, attempt, calls, unseen,
                 noticed, pushed, history>>

(* After the commit: who is pushed to.                                     *)
Pushes(q) ==
  CASE req[q].rpc = "attach"  -> newly[q] /\ Notifies(q)
    [] req[q].rpc = "request" -> Notifies(q)
    [] OTHER                  -> FALSE

(* NotifyIncidentUpdate, then the push; the call returns.                  *)
After(q) ==
  /\ pc[q] = "after"
  /\ unseen' = FALSE
  /\ pushed' = [pushed EXCEPT ![q] = Pushes(q)]
  /\ pc' = [pc EXCEPT ![q] = "idle"]
  /\ UNCHANGED <<rows, said, req, seen, newly, attempt, calls, noticed,
                 history>>

Step(q) ==
  \/ ReadPeople(q)
  \/ CommitAttach(q)
  \/ CommitRequest(q)
  \/ CommitDetach(q)
  \/ Retry(q)
  \/ GiveUp(q)
  \/ After(q)

Next == \E q \in Requests : Start(q) \/ Step(q)

Spec == Init /\ [][Next]_vars

(* A handler that has started keeps running: the Go scheduler starves no   *)
(* goroutine and every database call answers or times out.                 *)
FairSpec == Spec /\ \A q \in Requests : WF_vars(Step(q))

(***************************************************************************)
(* Properties of overlapping calls.                                        *)
(***************************************************************************)
(* A call that has returned pushed exactly when it stored a notification,  *)
(* however many attempts were rolled back before: newlyAttached is that of *)
(* the attempt that committed.                                             *)
PushIffNotice ==
  \A q \in Requests : pc[q] = "idle" => (pushed[q] <=> noticed[q])

(* Nobody is on an incident without having been told of it once (or having *)
(* put themselves there), although attach decides from a stale reading     *)
(* whether this is an add.                                                 *)
AttachedWasTold == \A p \in People : rows[p] # <<>> => p \in told

(* A detach, or an attach without the grant, leaves no granted row behind, *)
(* not even when overlapping requests had given the person two rows; and a *)
(* request leaves no row without the grant.                                *)
RevokeIsComplete ==
  [][\A q \in Requests : pc'[q] = "after" /\ pc[q] # "after" =>
       LET p == req[q].person IN
         \/ req[q].rpc = "attach" /\ Len(rows'[p]) = 1
                                  /\ HasGrant(p)' = req[q].grant
         \/ req[q].rpc = "detach" /\ ~HasGrant(p)'
         \/ req[q].rpc = "request" /\ (HasGrant(p)' \/ rows'[p] = <<>>)]_vars

(* A change that viewers were not poked about has a handler that will.     *)
ChangesAnnounced == unseen => \E q \in Requests : pc[q] = "after"

(* Every call returns: the retries of RunInTx are bounded.                 *)
CallsEnd == \A q \in Requests : pc[q] # "idle" ~> pc[q] = "idle"

(* The timeline records what actually changed: read to the end, it says    *)
(* who is on the incident and who was given access to it, except for a     *)
(* person whose rows an overlapping call has decided from a stale reading. *)
JournalTellsAccess ==
  \A p \in People \ stale :
    /\ said[p].attached <=> rows[p] # <<>>
    /\ said[p].access <=> HasGrant(p)

(* The people of an incident, whatever attempts were rolled back           *)
(* (connect.go, AttachPersonToIncident): pushes agree with notifications,  *)
(* nobody is attached untold, changes are announced, and the timeline      *)
(* tells who has access.                                                   *)
PeopleSafe == /\ PushIffNotice
              /\ AttachedWasTold
              /\ ChangesAnnounced
              /\ JournalTellsAccess

(* A call that is not overtaken between its reading and its commit keeps   *)
(* an ask (one that all the person's rows carry: the first row decides),   *)
(* and a request that is not leaves the person asked and able to read.     *)
FreshCallsKeepAsk ==
  [][\A q \in Requests :
       LET p == req[q].person IN
         pc[q] = "write" /\ pc'[q] = "after" /\ Fresh(q) =>
           /\ HasAsk(p) /\ (\A k \in DOMAIN rows[p] : rows[p][k].asked)
                => HasAsk(p)'
           /\ req[q].rpc = "request" => HasGrant(p)' /\ HasAsk(p)']_vars

(***************************************************************************)
(* What the comment on the query says; overlapping calls violate it.       *)
(***************************************************************************)
(* "An involvement edit must not forget an ask": a person who stays on the *)
(* incident keeps it.                                                      *)
AskKept ==
  [][\A p \in People : HasAsk(p) /\ rows'[p] # <<>> => HasAsk(p)']_vars

(***************************************************************************)
(* The inductive invariant of the proofs.                                  *)
(***************************************************************************)
(* What each point of a handler knows: before the commit nothing was sent; *)
(* at the writes newlyAttached is this attempt's, and a person who was     *)
(* read as attached has been told; after the commit the push to come is    *)
(* the notice that was stored.                                             *)
HandlerInv ==
  \A q \in Requests :
    /\ pc[q] \in {"begin", "write"} => ~pushed[q] /\ ~noticed[q]
    /\ pc[q] = "write" =>
         /\ req[q].rpc \in {"attach", "request"}
         /\ newly[q] <=> ~Attached(q)
         /\ Attached(q) => req[q].person \in told
    /\ pc[q] = "after" => (noticed[q] <=> Pushes(q))

(* Only a stale reading can give a person a second row.                    *)
SingleRow == \A p \in People \ stale : Len(rows[p]) <= 1

IInv ==
  /\ TypeOK
  /\ HandlerInv
  /\ SingleRow
  /\ PushIffNotice
  /\ AttachedWasTold
  /\ ChangesAnnounced
  /\ JournalTellsAccess
===========================================================================
