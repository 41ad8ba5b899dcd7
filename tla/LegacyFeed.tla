----------------------------- MODULE LegacyFeed -----------------------------
(***************************************************************************)
(* The event feed of the legacy web client: one server-sent event stream   *)
(* per browser, held by the tab that owns a web lock, whose events are     *)
(* broadcast to every tab (requestEventSourceLock and subscribeToUpdates   *)
(* in go/web/typescript/ims.ts), and the pages that follow it: the tables  *)
(* of incidents, reports and visits and the page of one record.            *)
(*                                                                         *)
(* The server's half is go/internal/server/eventsource.go: every update    *)
(* takes the next id and is published some time later, so two updates may  *)
(* be published in the other order; a new connection is first told the     *)
(* newest id.  The browser keeps the last id it saw and reloads everything *)
(* when the newest id is another one.                                      *)
(*                                                                         *)
(* A read is the record [scope, from]: the versions it started at.  The    *)
(* server answers it with a version not older than that, and it lands      *)
(* whenever the network delivers it.  Filters, sorting and the drawing of  *)
(* a row change no state that is followed here.                            *)
(***************************************************************************)
EXTENDS Naturals, Sequences, FiniteSets, Functions

CONSTANTS
    Tabs,        \* browsing contexts of one browser
    Incidents,   \* records of one event, by kind
    Reports,
    Visits,
    Pages,       \* [Tabs -> sets of pages]  what each tab may open
    Nothing,
    MaxSaves,    \* bound: writes by anybody
    MaxOpens,    \* bound: pages opened
    MaxFaults    \* bound: connections lost, server restarts and failed parts of a read

FeedRecords == Incidents \cup Reports \cup Visits
Kinds   == {"incident", "report", "visit"}

ASSUME FeedAssumption ==
    /\ Incidents \cap Reports = {} /\ Incidents \cap Visits = {} /\ Reports \cap Visits = {}
    /\ Nothing \notin Tabs \cup FeedRecords \cup Nat /\ Kinds \cap FeedRecords = {}
    /\ Pages \in [Tabs -> SUBSET ([type : {"table"}, on : Kinds] \cup [type : {"record"}, on : FeedRecords])]
    /\ {MaxSaves, MaxOpens, MaxFaults} \subseteq Nat

VARIABLES
    ver,      \* [Records -> Nat]  the version the server holds
    counter,  \* IdCounter: the id given out last
    pokes,    \* updates that have an id and are not published yet
    last,     \* localStorage last_sse_id, Nothing when it is not set
    lock,     \* the tab holding ims_eventsource_lock, or Nothing
    loop,     \* [Tabs -> ...]  where the tab's reconnection loop stands
    stream,   \* [Tabs -> ...]  the tab's EventSource
    wire,     \* [Tabs -> Seq]  events on their way to the tab's EventSource
    page,     \* [Tabs -> the page [type, on], or Nothing]
    phase,    \* [Tabs -> {"closed", "loading", "listening"}]
    drawn,    \* [Tabs -> [FeedRecords -> Nat \cup {Nothing}]]
    reads,    \* [Tabs -> set of reads]  issued and not landed
    used,     \* how much of each bound is used
    \* History only
    aged,     \* last was taken from an earlier life of the server
    missed,   \* records whose update the feed may have passed over
    doubt     \* [Tabs -> SUBSET Records]  rows a tab may hold an old version of

server  == <<ver, counter, pokes>>
browser == <<last, lock, loop, stream, wire>>
tabs    == <<page, phase, drawn, reads>>
history == <<aged, missed, doubt>>
feedVars    == <<server, browser, tabs, used, history>>

(***************************************************************************)
(* Records, messages and pages                                             *)
(***************************************************************************)
KindOf(r) == CASE r \in Incidents -> "incident" [] r \in Reports -> "report" [] OTHER -> "visit"

Of(k) == CASE k = "incident" -> Incidents [] k = "report" -> Reports [] OTHER -> Visits

\* A broadcast on the channel of a kind: one record, or update_all.
About(m) == IF m.rec = Nothing THEN Of(m.kind) ELSE {m.rec}

Table(k)  == [type |-> "table", on |-> k]
Record(r) == [type |-> "record", on |-> r]

\* What a page draws.  An incident's page merges the reports of the event into
\* its journal and its lists; its visits are switched off (visitsEnabled).
Shows(pg) ==
    IF pg.type = "table" THEN Of(pg.on)
    ELSE {pg.on} \cup (IF pg.on \in Incidents THEN Reports ELSE {})

(* What each page reads again on a broadcast: its onmessage handlers. *)

\* update_all reloads the table; one incident replaces or adds its row.
IncidentsTableRereads(m) == IF m.kind = "incident" THEN About(m) ELSE {}

\* Any report reloads the table of reports.
ReportsTableRereads(m) == IF m.kind = "report" THEN Reports ELSE {}

VisitsTableRereads(m) == IF m.kind = "visit" THEN Visits ELSE {}

\* The incident's own update, or update_all, reads the incident and the reports
\* again; a report is read alone.
IncidentPageRereads(r, m) ==
    CASE m.kind = "report" -> About(m)
      [] m.kind = "incident" /\ r \in About(m) -> Shows(Record(r))
      [] OTHER -> {}

\* The handler compares the event's id with its name: only update_all reloads.
ReportPageRereads(r, m) == IF m.kind = "report" /\ m.rec = Nothing THEN {r} ELSE {}

VisitPageRereads(r, m) == IF m.kind = "visit" /\ r \in About(m) THEN {r} ELSE {}

Rereads(pg, m) ==
    CASE pg = Table("incident") -> IncidentsTableRereads(m)
      [] pg = Table("report") -> ReportsTableRereads(m)
      [] pg = Table("visit") -> VisitsTableRereads(m)
      [] pg.on \in Incidents -> IncidentPageRereads(pg.on, m)
      [] pg.on \in Reports -> ReportPageRereads(pg.on, m)
      [] OTHER -> VisitPageRereads(pg.on, m)

\* The rows an unfinished read of the tab covers.
BeingRead(t) == UNION {rd.scope : rd \in reads[t]}

\* Every tab that listens reads again what the broadcasts ask it to; a tab that
\* is still loading has not set onmessage yet and hears nothing.
Hears(t, ms) == UNION {Rereads(page[t], m) : m \in ms}

Post(ms) ==
    /\ reads' = [t \in Tabs |->
          IF phase[t] = "listening" /\ Hears(t, ms) # {}
          THEN reads[t] \cup {[scope |-> Hears(t, ms), from |-> ver]} ELSE reads[t]]
    /\ doubt' = [t \in Tabs |->
          CASE phase[t] = "listening" ->
                  (doubt[t] \ Hears(t, ms)) \cup (BeingRead(t) \cap Hears(t, ms))
            [] phase[t] = "loading" -> doubt[t] \cup Hears(t, ms)
            [] OTHER -> doubt[t]]

(***************************************************************************)
(* The server                                                              *)
(***************************************************************************)
\* A write commits and its notification takes the next id.  (An id taken later
\* only announces again what a reload has already read.)
ServerSaves(r) ==
    /\ used.saves < MaxSaves
    /\ used' = [used EXCEPT !.saves = @ + 1]
    /\ ver' = [ver EXCEPT ![r] = @ + 1]
    /\ counter' = counter + 1
    /\ pokes' = pokes \cup {[id |-> counter + 1, rec |-> r]}
    /\ UNCHANGED <<browser, tabs, history>>

\* The ids of a lost update that the browser will not notice: one below the id
\* it already has.  A visit is never caught up with: InitialEvent broadcasts
\* update_all to incidents and reports only.
PassedOver(lost) ==
    {p.rec : p \in {q \in lost : q.rec \in Visits \/ (last # Nothing /\ q.id <= last)}}

\* The update reaches every open stream.  The number of an incident that is
\* private, or whose lookup fails, is withheld: the message asks for a reload.
Publish(p) ==
    \E redacted \in IF p.rec \in Incidents THEN BOOLEAN ELSE {FALSE} :
      LET m == [id |-> p.id, kind |-> KindOf(p.rec), about |-> p.rec,
                rec |-> IF redacted THEN Nothing ELSE p.rec]
      IN
        /\ pokes' = pokes \ {p}
        /\ wire' = [t \in Tabs |-> IF stream[t] = "open" THEN Append(wire[t], m) ELSE wire[t]]
        /\ missed' = IF \E t \in Tabs : stream[t] = "open" THEN missed
                     ELSE missed \cup PassedOver({p})
        /\ UNCHANGED <<ver, counter, last, lock, loop, stream, tabs, used, aged, doubt>>

LostOn(t) == {[id |-> e.id, rec |-> e.about] : e \in {x \in Range(wire[t]) : x.kind \in Kinds}}

\* A restart: the ids begin again, and what was not published never will be.
ServerRestarts ==
    /\ used.faults < MaxFaults
    /\ used' = [used EXCEPT !.faults = @ + 1]
    /\ counter' = 0
    /\ pokes' = {}
    /\ stream' = [t \in Tabs |-> IF stream[t] = "open" THEN "connecting" ELSE stream[t]]
    /\ wire' = [t \in Tabs |-> <<>>]
    /\ aged' = (last # Nothing)
    /\ missed' = missed \cup PassedOver(pokes \cup UNION {LostOn(t) : t \in Tabs})
    /\ UNCHANGED <<ver, last, lock, loop, tabs, doubt>>

(***************************************************************************)
(* The stream and its leader                                               *)
(***************************************************************************)
\* The lock is granted: tryAcquireLock opens the EventSource.
Acquire(t) ==
    /\ loop[t] = "queued" /\ lock = Nothing
    /\ lock' = t
    /\ loop' = [loop EXCEPT ![t] = "holding"]
    /\ stream' = [stream EXCEPT ![t] = "connecting"]
    /\ UNCHANGED <<server, last, wire, tabs, used, history>>

\* The connection is accepted; Replay answers with the newest id.
Connect(t) ==
    /\ stream[t] = "connecting"
    /\ stream' = [stream EXCEPT ![t] = "open"]
    /\ wire' = [wire EXCEPT ![t] = <<[id |-> counter, kind |-> "initial"]>>]
    /\ UNCHANGED <<server, last, lock, loop, tabs, used, history>>

\* The error handler that calls closed() without looking at readyState.
DropReleases(t) ==
    /\ stream[t] = "open" /\ used.faults < MaxFaults
    /\ used' = [used EXCEPT !.faults = @ + 1]
    /\ stream' = [stream EXCEPT ![t] = "connecting"]
    /\ wire' = [wire EXCEPT ![t] = <<>>]
    /\ lock' = Nothing
    /\ loop' = [loop EXCEPT ![t] = "resting"]
    /\ missed' = missed \cup PassedOver(LostOn(t))
    /\ UNCHANGED <<server, last, tabs, aged, doubt>>

\* The connection breaks and EventSource reconnects by itself.
Drop(t) ==
    /\ stream[t] = "open" /\ used.faults < MaxFaults
    /\ used' = [used EXCEPT !.faults = @ + 1]
    /\ stream' = [stream EXCEPT ![t] = "connecting"]
    /\ wire' = [wire EXCEPT ![t] = <<>>]
    /\ missed' = missed \cup PassedOver(LostOn(t))
    /\ UNCHANGED <<server, last, lock, loop, tabs, aged, doubt>>

\* The loop without its while: the lock is asked for once.
GiveUpForGood(t) ==
    /\ stream[t] \in {"open", "connecting"} /\ used.faults < MaxFaults
    /\ used' = [used EXCEPT !.faults = @ + 1]
    /\ stream' = [stream EXCEPT ![t] = "off"]
    /\ wire' = [wire EXCEPT ![t] = <<>>]
    /\ lock' = Nothing
    /\ loop' = [loop EXCEPT ![t] = "none"]
    /\ missed' = missed \cup PassedOver(LostOn(t))
    /\ UNCHANGED <<server, last, tabs, aged, doubt>>

\* The browser gives the EventSource up (readyState CLOSED): closed() releases
\* the lock and the loop waits out its ten seconds.
GiveUp(t) ==
    /\ stream[t] \in {"open", "connecting"} /\ used.faults < MaxFaults
    /\ used' = [used EXCEPT !.faults = @ + 1]
    /\ stream' = [stream EXCEPT ![t] = "off"]
    /\ wire' = [wire EXCEPT ![t] = <<>>]
    /\ lock' = Nothing
    /\ loop' = [loop EXCEPT ![t] = "resting"]
    /\ missed' = missed \cup PassedOver(LostOn(t))
    /\ UNCHANGED <<server, last, tabs, aged, doubt>>

\* The loop goes round: the tab asks for the lock again.
Reattempt(t) ==
    /\ loop[t] = "resting"
    /\ loop' = [loop EXCEPT ![t] = "queued"]
    /\ UNCHANGED <<server, last, lock, stream, wire, tabs, used, history>>

\* The id is remembered before it is compared.
InitialEventForgets(t, e) ==
    /\ e.kind = "initial"
    /\ last' = e.id /\ aged' = FALSE
    /\ UNCHANGED <<reads, doubt, missed>>

\* InitialEvent: another id than the last one seen means an update was missed.
InitialEvent(t, e) ==
    /\ e.kind = "initial"
    /\ IF e.id = last
       THEN /\ missed' = IF aged THEN FeedRecords ELSE missed
            /\ UNCHANGED <<last, aged, reads, doubt>>
       ELSE /\ last' = e.id /\ aged' = FALSE
            /\ Post({[kind |-> "incident", rec |-> Nothing], [kind |-> "report", rec |-> Nothing]})
            /\ missed' = missed \cap Visits

\* Incident, Report and Visit events: remember the id, tell every tab.
UpdateEvent(t, e) ==
    /\ e.kind \in Kinds
    /\ last' = e.id /\ aged' = FALSE
    /\ Post({[kind |-> e.kind, rec |-> e.rec]})
    /\ missed' = missed \ About(e)

Receive(t) ==
    /\ stream[t] = "open" /\ wire[t] # <<>>
    /\ \/ InitialEvent(t, Head(wire[t]))
       \/ UpdateEvent(t, Head(wire[t]))
    /\ wire' = [wire EXCEPT ![t] = Tail(@)]
    /\ UNCHANGED <<server, lock, loop, stream, page, phase, drawn, used>>

(***************************************************************************)
(* The pages                                                               *)
(***************************************************************************)
NoRows == [r \in FeedRecords |-> Nothing]

\* commonPageInit: the rights are fetched; whoever is not signed in is sent to
\* the login page, whoever may not see the page gets a message.  Otherwise the
\* page's first load is issued.
OpenPage(t, pg) ==
    /\ phase[t] = "closed" /\ used.opens < MaxOpens
    /\ used' = [used EXCEPT !.opens = @ + 1]
    /\ \/ /\ phase' = [phase EXCEPT ![t] = "loading"]
          /\ page' = [page EXCEPT ![t] = pg]
          /\ reads' = [reads EXCEPT ![t] = {[scope |-> Shows(pg), from |-> ver]}]
       \/ UNCHANGED <<phase, page, reads>>
    /\ UNCHANGED <<server, browser, drawn, history>>

\* (A viewer without any incident to see is sent on to the table of reports.)
OpenIncidents(t) == Table("incident") \in Pages[t] /\ OpenPage(t, Table("incident"))

OpenReports(t) == Table("report") \in Pages[t] /\ OpenPage(t, Table("report"))

OpenVisits(t) == Table("visit") \in Pages[t] /\ OpenPage(t, Table("visit"))

OpenIncident(t) == \E r \in Incidents : Record(r) \in Pages[t] /\ OpenPage(t, Record(r))

OpenReport(t) == \E r \in Reports : Record(r) \in Pages[t] /\ OpenPage(t, Record(r))

OpenVisit(t) == \E r \in Visits : Record(r) \in Pages[t] /\ OpenPage(t, Record(r))

\* The answers to a read: any version from its start on.
AnswersTo(rd) == {f \in [rd.scope -> 0 .. MaxSaves] :
                   \A r \in rd.scope : rd.from[r] <= f[r] /\ f[r] <= ver[r]}

Draw(t, rows) ==
    drawn' = [drawn EXCEPT ![t] = [r \in FeedRecords |-> IF r \in DOMAIN rows THEN rows[r] ELSE @[r]]]

\* The table of incidents: a reload that fails draws no rows at all, and the
\* table is initialised all the same; a row that fails stays as it was.
IncidentsTableLands(t, rd, lost, seen) ==
    /\ lost \in {{}, rd.scope}
    /\ Draw(t, CASE lost = {} -> seen
                 [] lost # {} /\ phase[t] = "loading" -> <<>>
                 [] lost # {} /\ phase[t] # "loading" ->
                       IF rd.scope = Incidents THEN [r \in Incidents |-> Nothing] ELSE <<>>)

\* The tables of reports and visits: a reload that fails never calls back, so
\* the rows stay, and a first load that fails leaves the table uninitialised.
ReportsTableLands(t, rd, lost, seen) ==
    /\ lost \in {{}, rd.scope}
    /\ Draw(t, IF lost = {} THEN seen ELSE <<>>)

VisitsTableLands(t, rd, lost, seen) ==
    /\ lost \in {{}, rd.scope}
    /\ Draw(t, IF lost = {} THEN seen ELSE <<>>)

\* An incident's page reads its incident and then the reports: each part that
\* fails stays as it was.
IncidentPageLands(t, rd, lost, seen) ==
    /\ lost \in SUBSET rd.scope
    /\ Draw(t, [r \in rd.scope \ lost |-> seen[r]])

ReportPageLands(t, rd, lost, seen) ==
    /\ lost \in {{}, rd.scope}
    /\ Draw(t, IF lost = {} THEN seen ELSE <<>>)

VisitPageLands(t, rd, lost, seen) ==
    /\ lost \in {{}, rd.scope}
    /\ Draw(t, IF lost = {} THEN seen ELSE <<>>)

PageLands(t, rd, lost, seen) ==
    CASE page[t] = Table("incident") -> IncidentsTableLands(t, rd, lost, seen)
      [] page[t] = Table("report") -> ReportsTableLands(t, rd, lost, seen)
      [] page[t] = Table("visit") -> VisitsTableLands(t, rd, lost, seen)
      [] page[t].on \in Incidents -> IncidentPageLands(t, rd, lost, seen)
      [] page[t].on \in Reports -> ReportPageLands(t, rd, lost, seen)
      [] OTHER -> VisitPageLands(t, rd, lost, seen)

\* A page whose first load failed listens only if it is the table of incidents,
\* or an incident's page that has its incident.
Starts(pg, lost) ==
    IF pg.type = "table" THEN pg.on = "incident" \/ lost = {} ELSE pg.on \notin lost

Land(t, rd) ==
    \E lost \in SUBSET rd.scope, seen \in AnswersTo(rd) :
      /\ used.faults + Cardinality(lost) <= MaxFaults
      /\ used' = [used EXCEPT !.faults = @ + Cardinality(lost)]
      /\ PageLands(t, rd, lost, seen)
      /\ reads' = [reads EXCEPT ![t] = @ \ {rd}]
      /\ doubt' = [doubt EXCEPT ![t] = @ \cup lost]
      /\ IF phase[t] = "loading"
         THEN /\ Starts(page[t], lost)
              /\ phase' = [phase EXCEPT ![t] = "listening"]
              /\ loop' = [loop EXCEPT ![t] = "queued"]
         ELSE UNCHANGED <<phase, loop>>
      /\ UNCHANGED <<server, last, lock, stream, wire, page, aged, missed>>

\* The other pages stop there: they show an error, never listen and never ask
\* for the lock, as if they were closed.
Stop(t) ==
    /\ phase[t] = "loading" /\ used.faults < MaxFaults
    /\ \E lost \in SUBSET Shows(page[t]) : ~Starts(page[t], lost)
    /\ used' = [used EXCEPT !.faults = @ + 1]
    /\ phase' = [phase EXCEPT ![t] = "closed"]
    /\ page' = [page EXCEPT ![t] = Nothing]
    /\ reads' = [reads EXCEPT ![t] = {}]
    /\ doubt' = [doubt EXCEPT ![t] = {}]
    /\ UNCHANGED <<server, browser, drawn, aged, missed>>

\* The tab closes or navigates away: its lock, stream and reads go with it.
ClosePage(t) ==
    /\ phase[t] # "closed"
    /\ phase' = [phase EXCEPT ![t] = "closed"]
    /\ page' = [page EXCEPT ![t] = Nothing]
    /\ drawn' = [drawn EXCEPT ![t] = NoRows]
    /\ reads' = [reads EXCEPT ![t] = {}]
    /\ loop' = [loop EXCEPT ![t] = "none"]
    /\ stream' = [stream EXCEPT ![t] = "off"]
    /\ wire' = [wire EXCEPT ![t] = <<>>]
    /\ lock' = IF lock = t THEN Nothing ELSE lock
    /\ doubt' = [doubt EXCEPT ![t] = {}]
    /\ missed' = missed \cup PassedOver(LostOn(t))
    /\ UNCHANGED <<server, last, used, aged>>

(***************************************************************************)
(* The specification                                                       *)
(***************************************************************************)
FeedInit ==
    /\ ver = [r \in FeedRecords |-> 0] /\ counter = 0 /\ pokes = {}
    /\ last = Nothing /\ lock = Nothing
    /\ loop = [t \in Tabs |-> "none"]
    /\ stream = [t \in Tabs |-> "off"]
    /\ wire = [t \in Tabs |-> <<>>]
    /\ page = [t \in Tabs |-> Nothing]
    /\ phase = [t \in Tabs |-> "closed"]
    /\ drawn = [t \in Tabs |-> NoRows]
    /\ reads = [t \in Tabs |-> {}]
    /\ used = [saves |-> 0, opens |-> 0, faults |-> 0]
    /\ aged = FALSE /\ missed = {}
    /\ doubt = [t \in Tabs |-> {}]

FeedNext ==
    \/ \E r \in FeedRecords : ServerSaves(r)
    \/ \E p \in pokes : Publish(p)
    \/ ServerRestarts
    \/ \E t \in Tabs :
          \/ Acquire(t) \/ Connect(t) \/ Drop(t) \/ GiveUp(t) \/ Reattempt(t) \/ Receive(t)
          \/ OpenIncidents(t) \/ OpenReports(t) \/ OpenVisits(t)
          \/ OpenIncident(t) \/ OpenReport(t) \/ OpenVisit(t)
          \/ \E rd \in reads[t] : Land(t, rd)
          \/ Stop(t) \/ ClosePage(t)

FeedSpec == FeedInit /\ [][FeedNext]_feedVars

(***************************************************************************)
(* Properties                                                              *)
(***************************************************************************)
Quiet ==
    /\ pokes = {} /\ \E t \in Tabs : stream[t] = "open"
    /\ \A t \in Tabs : wire[t] = <<>> /\ reads[t] = {}

FeedTypeOK ==
    LET Versions == 0..MaxSaves IN
    /\ ver \in [FeedRecords -> Versions] /\ counter \in Versions
    /\ \A p \in pokes : p.id \in Versions /\ p.rec \in FeedRecords
    /\ last \in Versions \cup {Nothing} /\ lock \in Tabs \cup {Nothing}
    /\ loop \in [Tabs -> {"none", "queued", "holding", "resting"}]
    /\ stream \in [Tabs -> {"off", "connecting", "open"}]
    /\ \A t \in Tabs : /\ \A e \in Range(wire[t]) : e.id \in Versions /\ e.kind \in Kinds \cup {"initial"}
                       /\ page[t] \in Pages[t] \cup {Nothing}
                       /\ phase[t] \in {"closed", "loading", "listening"}
                       /\ drawn[t] \in [FeedRecords -> Versions \cup {Nothing}]
                       /\ \A rd \in reads[t] : rd.scope \subseteq FeedRecords /\ rd.from \in [FeedRecords -> Versions]
                       /\ doubt[t] \subseteq FeedRecords
    /\ aged \in BOOLEAN /\ missed \subseteq FeedRecords

\* A report's own page is left out: it follows no update of one report.
Followed(pg) == IF pg.type = "record" /\ pg.on \in Reports THEN {} ELSE Shows(pg)

\* Once the feed is quiet, a page that listens shows the current version of
\* every record it follows: what happened while the stream was down, or while
\* the lock passed from tab to tab, was noticed by comparing ids and read again.
\* Left are the rows the code can miss: a read failed or was overtaken by a
\* later one, the update was broadcast before the page listened, a later id was
\* seen before the update was lost, the restarted server counted up to the same
\* id, or a visit changed while no stream was open.
QuietTablesCurrent ==
    Quiet => \A t \in Tabs : phase[t] = "listening" =>
        \A r \in Followed(page[t]) \ (doubt[t] \cup missed) : drawn[t][r] = ver[r]

\* Only one tab has a connection, and it holds the lock: a tab that opened one
\* because another's stream hiccuped would double the load of every browser.
\* (And the state keeps its types.)
OneStream ==
    /\ FeedTypeOK
    /\ \A t \in Tabs : stream[t] # "off" => lock = t /\ phase[t] = "listening"

\* As long as a page listens, the feed is never abandoned: a listening tab owns a
\* stream that is open or reconnecting, or the lock is free or soon asked for by
\* a tab whose loop still turns.  Closing the leader, an EventSource given up for
\* good or a restart must not leave the others waiting for a feed nobody holds.
FeedNeverAbandoned ==
    (\E t \in Tabs : phase[t] = "listening") =>
        IF lock = Nothing THEN \E t \in Tabs : loop[t] \in {"queued", "resting"}
        ELSE stream[lock] # "off" /\ phase[lock] = "listening"
=============================================================================
