------------------------------ MODULE LiveHub ------------------------------
(***************************************************************************)
(* The client's live hub for one event: the stream loop (watchEvents), the *)
(* hub's entry (who watches, whether a stream has ever been open) and the  *)
(* query cache that the hub invalidates and patches, against the server's  *)
(* feed (PokeFeed, which WatchHub implements).  A poke says what changed,  *)
(* never how: what the screens show comes from reads that overlap with     *)
(* further changes, with pokes and with each other.                        *)
(*                                                                         *)
(* A record is the number of the commit that last changed it.  A read has  *)
(* three moments: it is sent, the server reads, the answer arrives.        *)
(***************************************************************************)
EXTENDS Integers, Sequences, FiniteSets

CONSTANTS Screens,     \* the screens that watch the event
          Incidents, Reports,
          Reads,       \* Reads[s]: the queries that screen s observes
          MaxCommits   \* bound: changes on the server

Items == Incidents \cup Reports
Lists == {"incidents", "reports"}
Queries == Lists \cup Items
Absent == -1
Pending == -2

ASSUME LiveAssumption ==
  /\ Incidents \cap Reports = {}
  /\ Lists \cap Items = {}
  /\ Reads \in [Screens -> SUBSET Queries]
  /\ MaxCommits \in Nat

VARIABLES
  db, hidden, commits,  \* the server: the records, those this viewer may not see
  stage, due, owed,     \* the feed of this client's one stream
  refs,                 \* the entry's refs: the mounted screens
  active,               \* the app is in the foreground
  gap,                  \* entry.gap
  loop,                 \* where watchEvents is; "off" without a controller
  everOpened,           \* watchEvents' everOpened
  data, loaded,         \* the cache: answers, and the queries that have one
  invalid,              \* queries marked isInvalidated
  fetch, answer,        \* a read in flight, and what the server read
  patches, patchSeq,    \* patchIncidentList calls in flight; patchSeq
  missed,               \* queries that may show an old answer (history)
  late                  \* reads in flight that may bring one (history)

serverVars == <<db, hidden, commits>>
feedVars == <<stage, due, owed>>
hubVars == <<refs, active, gap, loop, everOpened>>
cacheVars == <<data, loaded, invalid, fetch, answer, missed, late>>
patchVars == <<patches, patchSeq>>
vars == <<serverVars, feedVars, hubVars, cacheVars, patchVars>>

Me == "stream"
Feed == INSTANCE PokeFeed WITH Sessions <- {Me}, Pokes <- Items,
                                Audience <- [i \in Items |-> {Me}]

Covers(q) == CASE q = "incidents" -> Incidents
               [] q = "reports" -> Reports
               [] OTHER -> {q}

View(i) == IF i \in hidden THEN Absent ELSE db[i]
Nothing == [i \in Items |-> Absent]
Observed == UNION {Reads[s] : s \in refs}

Init ==
  /\ db = [i \in Items |-> 0] /\ hidden = {} /\ commits = 0
  /\ Feed!Init
  /\ refs = {} /\ active = TRUE /\ gap = FALSE
  /\ loop = "off" /\ everOpened = FALSE
  /\ data = [q \in Queries |-> Nothing] /\ loaded = {} /\ invalid = {}
  /\ fetch = [q \in Queries |-> "idle"]
  /\ answer = [q \in Queries |-> Nothing]
  /\ patches = {} /\ patchSeq = [i \in Incidents |-> 0]
  /\ missed = {} /\ late = {}

---------------------------------------------------------------------------
(* The query cache.                                                        *)

(* The reads of Q are sent; any of them in flight is cancelled.            *)
Send(Q) ==
  /\ fetch' = [q \in Queries |-> IF q \in Q THEN "sent" ELSE fetch[q]]
  /\ answer' = [q \in Queries |-> IF q \in Q THEN Nothing ELSE answer[q]]
  /\ late' = late \ Q

(* A first load is not started again: it swallows the invalidation.        *)
Loading(q) == fetch[q] # "idle" /\ q \notin loaded

(* invalidate: marked, and sent again where a screen observes them.        *)
Invalidate(Q) ==
  LET again == {q \in Q \cap Observed : ~Loading(q)}
  IN /\ invalid' = invalid \cup (Q \cap loaded)
     /\ fetch' = [q \in Queries |-> IF q \in again THEN "sent" ELSE fetch[q]]
     /\ answer' = [q \in Queries |-> IF q \in again THEN Nothing ELSE answer[q]]
     /\ late' = (late \ again) \cup {q \in Q : Loading(q)}
     /\ UNCHANGED <<data, loaded, missed>>

(* refetchEvent: both lists and every detail.                              *)
RefetchEvent == Invalidate(Queries)

(* The server reads.  A record that the viewer may not see is not found.   *)
Answer(q) ==
  /\ fetch[q] = "sent"
  /\ q \in Items => q \notin hidden
  /\ fetch' = [fetch EXCEPT ![q] = "read"]
  /\ answer' = [answer EXCEPT ![q] = [i \in Items |->
                  IF i \in Covers(q) THEN View(i) ELSE Absent]]
  /\ UNCHANGED <<serverVars, feedVars, hubVars, patchVars, data, loaded, invalid,
                 missed, late>>

Arrive(q) ==
  /\ fetch[q] = "read"
  /\ data' = [data EXCEPT ![q] = answer[q]]
  /\ loaded' = loaded \cup {q}
  /\ invalid' = invalid \ {q}
  /\ missed' = (missed \ {q}) \cup ({q} \cap late)
  /\ fetch' = [fetch EXCEPT ![q] = "idle"]
  /\ answer' = [answer EXCEPT ![q] = Nothing]
  /\ late' = late \ {q}
  /\ UNCHANGED <<serverVars, feedVars, hubVars, patchVars>>

ReadFails(q) ==
  /\ fetch[q] # "idle"
  /\ missed' = missed \cup ({q} \cap loaded)
  /\ fetch' = [fetch EXCEPT ![q] = "idle"]
  /\ answer' = [answer EXCEPT ![q] = Nothing]
  /\ late' = late \ {q}
  /\ UNCHANGED <<serverVars, feedVars, hubVars, patchVars, data, loaded, invalid>>

(* A list polled only while the stream is down.                            *)
PollWhenDown(q) ==
  /\ q \in Lists \cap Observed
  /\ active
  /\ fetch[q] = "idle"
  /\ loop # "open"
  /\ Send({q})
  /\ UNCHANGED <<serverVars, feedVars, hubVars, patchVars, data, loaded, invalid,
                 missed>>

(* refetchInterval of the two lists: only while the app is in front, as    *)
(* the focus manager is told; a read in flight is shared.                  *)
Poll(q) ==
  /\ q \in Lists \cap Observed
  /\ active
  /\ fetch[q] = "idle"
  /\ Send({q})
  /\ UNCHANGED <<serverVars, feedVars, hubVars, patchVars, data, loaded, invalid,
                 missed>>

---------------------------------------------------------------------------
(* The hub's entry and its stream.                                         *)

(* open: a new controller, unless there is one or the app is away.         *)
Open(on) ==
  IF on /\ loop = "off"
  THEN loop' = "connecting" /\ everOpened' = FALSE
  ELSE UNCHANGED <<loop, everOpened>>

(* A release that closes the stream other screens still share.             *)
CloseAlways(claims) ==
  IF loop # "off"
  THEN loop' = "off" /\ everOpened' = FALSE /\ Feed!Over(Me)
  ELSE UNCHANGED <<loop, everOpened, feedVars>>

(* close, once no screen is left or the app is in the background.          *)
Close(claims) ==
  IF claims = {} /\ loop # "off"
  THEN loop' = "off" /\ everOpened' = FALSE /\ Feed!Over(Me)
  ELSE UNCHANGED <<loop, everOpened, feedVars>>

(* Of the queries Q those without an answer, or marked, are read, and any  *)
(* whose answer is older than QUERY_STALE_MS.                              *)
Unread(Q, stale) == {q \in Q : /\ fetch[q] = "idle"
                               /\ q \notin loaded \/ q \in invalid \cup stale}
ReadAgain(Q) == \E stale \in SUBSET (Q \cap loaded) : Send(Unread(Q, stale))

(* A screen mounts: watch, and its reads.                                  *)
Mount(s) ==
  /\ s \notin refs
  /\ refs' = refs \cup {s}
  /\ Open(active)
  /\ ReadAgain(Reads[s])
  /\ UNCHANGED <<serverVars, feedVars, active, gap, patchVars, data, loaded, invalid,
                 missed>>

(* The release.  A read that nothing observes any more is cancelled.       *)
Unmount(s) ==
  /\ s \in refs
  /\ refs' = refs \ {s}
  /\ gap' = (gap /\ refs' # {})
  /\ Close(refs')
  /\ LET kept == UNION {Reads[t] : t \in refs'}
     IN /\ fetch' = [q \in Queries |-> IF q \in kept THEN fetch[q] ELSE "idle"]
        /\ answer' = [q \in Queries |-> IF q \in kept THEN answer[q] ELSE Nothing]
        /\ late' = late \cap kept
  /\ UNCHANGED <<serverVars, active, patchVars, data, loaded, invalid,
                 missed>>

(* setActive: every watched entry is closed, or opened again; back in      *)
(* front the queries on screen are focused too (refetchOnWindowFocus).     *)
Background ==
  /\ active
  /\ active' = FALSE
  /\ Close({})
  /\ UNCHANGED <<serverVars, refs, gap, cacheVars, patchVars>>

Foreground ==
  /\ ~active
  /\ active' = TRUE
  /\ Open(refs # {})
  /\ ReadAgain(Observed)
  /\ UNCHANGED <<serverVars, feedVars, refs, gap, patchVars, data, loaded, invalid,
                 missed>>

(* The server accepts the request and subscribes the session.              *)
Subscribe ==
  /\ loop = "connecting"
  /\ Feed!Attach(Me)
  /\ UNCHANGED <<serverVars, hubVars, cacheVars, patchVars>>

(* A patch already read when the stream resumes is older than the resume.  *)
Aged(p) == [p EXCEPT !.old = p.view # Pending]

(* An onOpen that only trusts what this loop has seen itself.              *)
OnOpenForgetsGap ==
  /\ loop = "connecting" /\ stage[Me] # "off" /\ stage[Me] # "over"
  /\ loop' = "open" /\ everOpened' = TRUE /\ gap' = TRUE
  /\ IF everOpened
     THEN RefetchEvent
     ELSE IF gap THEN UNCHANGED cacheVars
     ELSE /\ missed' = loaded /\ late' = {q \in Queries : fetch[q] # "idle"}
          /\ UNCHANGED <<data, loaded, invalid, fetch, answer>>
  /\ patches' = {Aged(p) : p \in patches}
  /\ UNCHANGED <<serverVars, feedVars, refs, active, patchSeq>>

(* The first beat: onOpen.  After a gap everything is read again; the      *)
(* first stream of an entry trusts what the screens have read themselves.  *)
OnOpen ==
  /\ loop = "connecting"
  /\ stage[Me] \in {"on", "cut"}
  /\ loop' = "open" /\ everOpened' = TRUE /\ gap' = TRUE
  /\ IF everOpened \/ gap
     THEN RefetchEvent
     ELSE /\ missed' = loaded /\ late' = {q \in Queries : fetch[q] # "idle"}
          /\ UNCHANGED <<data, loaded, invalid, fetch, answer>>
  /\ patches' = {Aged(p) : p \in patches}
  /\ UNCHANGED <<serverVars, feedVars, refs, active, patchSeq>>

(* The stream ends, fails, or is silent for staleMs: onDrop, then sleep.   *)
Drop ==
  /\ loop \in {"connecting", "open"}
  /\ loop' = "backoff"
  /\ Feed!Over(Me)
  /\ UNCHANGED <<serverVars, refs, active, gap, everOpened, cacheVars, patchVars>>

(* The sleep between two attempts, of a jittered length, is over.          *)
SleepOver == loop = "backoff"

(* The next attempt.                                                       *)
Retry ==
  /\ SleepOver
  /\ loop' = "connecting"
  /\ UNCHANGED <<serverVars, feedVars, refs, active, gap, everOpened, cacheVars,
                 patchVars>>

---------------------------------------------------------------------------
(* Pokes.                                                                  *)

(* onPoke for an incident: its detail is invalidated, its row is fetched.  *)
PokeIncident(i) ==
  /\ Invalidate({i})
  /\ patchSeq' = [patchSeq EXCEPT ![i] = patchSeq[i] + 1]
  /\ patches' = patches \cup {[item |-> i, seq |-> patchSeq[i] + 1,
                               view |-> Pending, old |-> FALSE]}

(* onPoke for a report: its detail and the list.                           *)
PokeReport(r) ==
  /\ Invalidate({r, "reports"})
  /\ UNCHANGED patchVars

(* The server sends the oldest poke that the viewer may still see.         *)
Poke ==
  /\ loop = "open"
  /\ Feed!Give(Me)
  /\ LET i == Head(owed[Me])
     IN IF i \in hidden THEN UNCHANGED <<cacheVars, patchVars>>
        ELSE IF i \in Incidents THEN PokeIncident(i) ELSE PokeReport(i)
  /\ UNCHANGED <<serverVars, hubVars>>

(* getIncident of a patch: the server reads; a hidden incident is          *)
(* NotFound.                                                               *)
PatchRead(p) ==
  /\ p.view = Pending
  /\ patches' = (patches \ {p}) \cup {[p EXCEPT !.view = View(p.item)]}
  /\ UNCHANGED <<serverVars, feedVars, hubVars, cacheVars, patchSeq>>

(* Only the latest fetch may write.                                        *)
Latest(p) == p.seq = patchSeq[p.item]

(* The row replaces, is inserted or is removed in the cached list.  A list *)
(* answer already read is older than the row; a list that was marked is no *)
(* longer so.                                                              *)
PatchWrites(p) ==
  /\ p.view # Pending
  /\ patches' = patches \ {p}
  /\ IF Latest(p) /\ "incidents" \in loaded
     THEN /\ data' = [data EXCEPT !["incidents"][p.item] = p.view]
          /\ invalid' = invalid \ {"incidents"}
          /\ missed' = missed \cup {q \in {"incidents"} : q \in invalid \/ p.old}
     ELSE UNCHANGED <<data, invalid, missed>>
  /\ late' = IF fetch["incidents"] = "read" THEN late \cup {"incidents"} ELSE late
  /\ UNCHANGED <<serverVars, feedVars, hubVars, patchSeq, loaded, fetch, answer>>

(* Any other error: fall back to the list, whatever the sequence number.   *)
PatchFails(p) ==
  /\ patches' = patches \ {p}
  /\ Invalidate({"incidents"})
  /\ UNCHANGED <<serverVars, feedVars, hubVars, patchSeq>>

---------------------------------------------------------------------------
(* The server: someone changes a record, or hides or shows it; the commit  *)
(* is announced to a session that is attached.                             *)
Tell(i) == \E cut \in SUBSET {Me} : Feed!Announce(i, cut)

Commit(i) ==
  /\ commits < MaxCommits
  /\ commits' = commits + 1
  /\ db' = [db EXCEPT ![i] = commits + 1]
  /\ hidden' \in {hidden, hidden \cup {i}, hidden \ {i}}
  /\ Tell(i)
  /\ UNCHANGED <<hubVars, cacheVars, patchVars>>

Next ==
  \/ \E s \in Screens : Mount(s) \/ Unmount(s)
  \/ Background \/ Foreground
  \/ Subscribe \/ OnOpen \/ Drop \/ Retry \/ Poke
  \/ \E q \in Queries : Answer(q) \/ Arrive(q) \/ ReadFails(q) \/ Poll(q)
  \/ \E p \in patches : PatchRead(p) \/ PatchWrites(p) \/ PatchFails(p)
  \/ \E i \in Items : Commit(i)

Spec == Init /\ [][Next]_vars

(* The poll timers of the lists fire while the app is in front, and reads  *)
(* do not fail for ever there.  Nothing is owed in the background, nor by  *)
(* the stream, the screens, the phone or the writers.                      *)
FairSpec ==
  /\ Spec
  /\ \A q \in Lists : /\ WF_vars(Poll(q))
                       /\ SF_vars(active /\ Answer(q))
                       /\ SF_vars(active /\ Arrive(q))

---------------------------------------------------------------------------
TypeOK ==
  /\ db \in [Items -> 0 .. MaxCommits] /\ hidden \subseteq Items
  /\ commits \in 0 .. MaxCommits
  /\ stage[Me] \in {"off", "on", "cut", "over"} /\ due[Me] \in Nat /\ owed[Me] \in Seq(Items)
  /\ refs \subseteq Screens /\ active \in BOOLEAN /\ gap \in BOOLEAN
  /\ loop \in {"off", "connecting", "open", "backoff"} /\ everOpened \in BOOLEAN
  /\ \A q \in Queries : data[q] \in [Items -> Absent .. MaxCommits]
  /\ loaded \cup invalid \cup missed \subseteq Queries
  /\ fetch \in [Queries -> {"idle", "sent", "read"}]
  /\ \A p \in patches : p.seq <= patchSeq[p.item]

(* One stream while it is wanted and none otherwise: whatever the order of *)
(* mounts, releases, background and drops, a controller exists exactly     *)
(* when some screen watches and the app is in front, and a session of the  *)
(* server is only ever held by a loop that is there to read it.  (And the  *)
(* state keeps its types.)                                                 *)
OneStreamWhileWatched ==
  /\ TypeOK
  /\ loop # "off" <=> refs # {} /\ active
  /\ stage[Me] \in {"on", "cut"} => loop \in {"connecting", "open"}

Quiet ==
  /\ loop = "open" /\ stage[Me] = "on" /\ owed[Me] = <<>>
  /\ patches = {}
  /\ \A q \in Queries : fetch[q] = "idle"

(* With the stream open and nothing outstanding the screens show what is   *)
(* committed: pokes, overlapping patches, gaps and time in the background  *)
(* included.  Excused are records hidden from the viewer (their poke is    *)
(* withheld) and the answers in "missed": kept because the read again      *)
(* failed, read before the entry's first stream opened, read by a first    *)
(* load that swallowed an invalidation, older than a patch written while   *)
(* they were on their way, patched from before a gap, or patched in one    *)
(* row while the whole list was marked.                                    *)
ShownIsCommitted ==
  Quiet => \A q \in (Observed \cap loaded) \ missed :
             \A i \in Covers(q) \ hidden : data[q][i] = db[i]

(* The polls make up for all of that, and for a stream that never opens: a *)
(* list that stays on screen, of an app that stays in front, shows in the  *)
(* end exactly what the viewer may see, rows that became private gone.     *)
ListsCatchUp ==
  \A q \in Lists :
    <>[](active /\ q \in Observed) => <>[](\A i \in Covers(q) : data[q][i] = View(i))

(* An incident that became private to the viewer leaves the cached list:   *)
(* what the head of hub.ts says a poke does.                               *)
PrivateRowLeaves ==
  Quiet /\ {"incidents"} \subseteq loaded \ missed =>
    \A i \in Incidents \cap hidden : data["incidents"][i] = Absent
===========================================================================
