# OCF-IMS: a TLA+ verification project

OCF-IMS is an incident management system: a Go server over MariaDB (Connect
RPCs, a few REST routes, two live feeds), an Expo client for phones and wide
screens, and a legacy web client of server-rendered pages with TypeScript. What
is hard to get right in it is the overlap of things: RPC handlers that read,
decide and write in separate statements; caches filled by readers and emptied
by writers; a broadcast hub that may never block a writer; and clients whose
screens go on while saves, reads, pokes, uploads, timers and renders of theirs
are under way and come back in any order, or not at all.

This directory models those parts in TLA+, checks them with TLC on small
instances and proves with TLAPS, for all instances, every safety property that
the runs check; liveness is model-checked only.

1. [Inventory](#1-inventory)
2. [Modules and how they correspond to the code](#2-modules)
3. [Runs, bounds, fairness](#3-runs)
4. [Proofs](#4-proofs)
5. [Where the code does not do what one would expect](#5-exceptions)
6. [What is not modelled](#6-not-modelled)
7. [Plan](#7-plan)

## 1. Inventory

**Server** (`go/`)

| Component | State | Operations | Interacts with | Hard |
|---|---|---|---|---|
| Reference-data and metrics caches (`lib/cache`, `server/refdatacache.go`, `server/metricscache.go`) | per key a value with a time and a mutex; the container's map and mutex | Get, Invalidate, InvalidateEvent, InvalidateAll, expiry | every registry's write RPC invalidates after its commit | a refresh in flight while a write commits; lock order container → cell |
| Live feed (`server/watchhub.go`, `server/watchstream.go`, `incident/watch.go`) | attached sessions, a bounded queue each, the reason one was ended | Subscribe, Publish, Close, Stream's select loop, heartbeat | writers publish; authorization is asked per poke; the shutdown hook closes it | slow subscribers, end/close races, expiry and privacy changing while queued |
| Incident write path (`incident/connect.go`, `incident/incident.go`) | INCIDENT rows, types, reports, links, journal | CreateIncident, UpdateIncident | publishes pokes after the commit | whole-row write from a row read before the transaction |
| Report write path (`incident/connect.go`) | REPORT rows, link to an incident, two journals | CreateReport, UpdateReport, reconcileReportLink | announces report and both incidents | several autocommitted statements, then a transaction |
| People of an incident (`incident/connect.go`, `store/tx.go`, `notification`, `server/pushfanout.go`) | INCIDENT__PERSON rows, journal, notifications | AttachPersonToIncident, RequestReport, DetachPersonFromIncident | grants decide who may read and write a private incident; push after commit | unlocked reads, retried transactions, no unique key |
| Legacy event feed (`server/eventsource.go`) | event ids, channel | notify, publish, replay of the newest id | the legacy client's tabs | ids taken before publication, restart |
| Rate limiter, authentication, authorization, registries, people, visits, attachments, metrics | | | | section 6 |

**Client** (`packages/interface/src`)

| Component | State | Operations | Interacts with | Hard |
|---|---|---|---|---|
| Session (`session/session.ts`, `api/refresh.ts`, `api/transport.ts`, `api/tokens.ts`) | status, cached access token, refresh token in the secure store, shared refresh and shared end | bootstrap, signIn, signOut, refreshAuthStatus, the interceptor | every RPC of every screen | answers that arrive after the state they were asked in |
| Live hub (`features/live`, `api/stream.ts`, query defaults) | watchers, the stream loop, backoff, cached queries | watch, release, poke → invalidate or patch, reconnect, poll | the server's feed; every screen's reads | the gap between two streams; patches and reads that overlap |
| Record editors (`features/incidents`, `features/reports`) | cached record, saves under way, typed text | one save per row with an optimistic write, put-back, read afterwards; walking between records | the live hub's reads | overlapping saves of one record, lost answers, late reads |
| Composers, forms, drafts, photos (`features/compose`, and the filing screens of `features/incidents`, `features/reports`) | text, photo, drafts under one storage key, sends | type, debounce, flush, send, file, upload, retry, leave, sign out, restart | storage, the record's cache | sends that outlive their screen; a read-modify-write per draft |
| Roster (`features/people`) | list, marks, panel and form; hovercard, timers, drag | role, enrol, create, crew; hover, press, keys, drag | the list's reads | optimistic rows, timers and measurements that answer later |
| Tables (`features/dispatch`, `features/reports`) | URL, stored preference, search box, drawer, pushed page | filter, search, sort, walk, open, push | the router, the device's storage | handlers that work on the last render |

**Legacy web client** (`go/web/typescript`)

| Component | State | Operations | Interacts with | Hard |
|---|---|---|---|---|
| Feed and tables (`ims.ts`, `incidents.ts`, `reports.ts`, `sanctuary_visits.ts`) | the web lock, the event source, the last id seen, rows | subscribe, take and pass on the lock, reconnect, read again | the event feed; other tabs by broadcast | which tab is connected; what was missed meanwhile |
| Record pages (`incident.ts`, `report.ts`, `sanctuary_visit.ts`, `ims.ts`) | number, lists and grants as drawn, the journal box, its drafts | one request per edit, the first creates the record | localStorage, other tabs | edits before the create is answered; whole lists sent back |

What makes each of the modelled parts correct:

* **Caches.** A Get that begins after a write's Invalidate returned never
  returns the old list, although a refresh that read the old rows may be in
  flight; nobody waits forever although InvalidateAll waits for cells while it
  holds the container's mutex.
* **Live feed.** No poke is lost without the subscriber being told; the writer
  never sends on a closed channel; the reported reason for an end is the truth;
  an expired token or a hidden incident stops messages at once; an ended stream
  returns.
* **Incidents.** Links are symmetric, a closing time belongs to a closed
  incident, a number to one incident, the journal explains the row, and a
  committed change is announced (but the loss of a report that an edit of another
  incident took, section 5), under every overlap of calls.
* **Reports.** The same for numbers and announcements; a link is on both
  timelines; only the owner writes a new summary.
* **People.** Pushes match stored notifications however many attempts were
  rolled back; nobody is attached untold; a revocation leaves no access; the
  timeline tells who has access; calls end.
* **Session.** A signed-in device can resume after a crash; the cached token is
  that of the user on the screen; a session ends by its user or by a definitive
  refusal, with one exception (section 5); booting ends.
* **Live hub.** One stream exactly while one is wanted; when nothing is
  outstanding the screens show what is committed; the polls repair the rest.
* **Editors.** Once the saves are over the rows show what the server has; an
  old read undoes no choice; typed text is neither lost nor saved elsewhere.
* **Composers.** A text and its photo go to the record they were entered on; a
  failure keeps the text; the draft reaches the device; a form is filed once, but
  for answers that were lost.
* **Roster.** The list ends up as the server has it; a change of role keeps the
  wristband; a pinned hovercard stays and a hovered one closes.
* **Tables.** A chosen filter is shown; the stored one gets into no link, except
  that of the pushed page; drawer and search box follow the URL; the pushed page
  walks the table's rows.
* **Legacy feed.** One tab is connected, the feed is never left to nobody, and
  what was missed is read again.
* **Legacy pages.** A page creates one record; texts are kept and stay with
  their record; whole lists and resent grants undo nothing.

Most of these hold only with exceptions; each property names the ones the code
has, and section 5 collects them. `PROJECT.json` lists the hazards behind the
properties, each at its source line.

## 2. Modules

Each component is one module with its state, one action per step of the code,
its properties and, for the server's parts, the inductive invariant of its
proof; an `MC` module with the constants TLC needs; and, where theorems are
proved, a `_proofs` module, which for the clients' parts states the inductive
invariant as well. Definitions named in `PROJECT.json` as mutated forms
(marked *Mutant* in their comment) are not used by any specification: each is a
plausible bug, and putting it in the place of the real definition makes TLC
report the property it belongs to. A history variable records how the state
came about and guards no action.

```
  WatchHub --implements--> PokeFeed <--client of-- LiveHub
  Ladder --EXTENDS--> Roster        MCScreens --EXTENDS--> Ladder, Dispatch
  Sync_proofs --EXTENDS--> LiveHub, Session
  Client_proofs --EXTENDS--> RecordEditor, Compose, LegacyFeed
  Screens_proofs --EXTENDS--> Ladder, Dispatch
  InMemory_proofs --EXTENDS--> RefDataCache, WatchHub
```

Where one module of proofs (or one MC module) extends several components, their
names have to be disjoint: `CacheInit`, `SessionInit`, `ComposeNext`, `FeedSpec`,
`LadderInit`, `TableInit` and the like are the `Init`, `Next` and `Spec` of
RefDataCache, Session, Compose, LegacyFeed, Ladder and Dispatch.

### Server

**RefDataCache.** `data[k]`, `valid`, `writeMu[k]` are a cell of `cache.go`;
`created`, `cmu` the container. A key's rows are abstracted to the number of
writes committed to them, which is all that "stale" can mean. `GetCell`,
`LoadHit`, `LoadMiss`, `LockedHit`, `LockedMiss`, `RefreshReads`,
`RefreshFails`, `StoreCell` are `maybeRefreshAndGet` in the order of its lock,
re-check, refresher and store; `CommitWrite`, `FindCell`, `EmptyCell` and
`CommitGlobalWrite`, `LockContainer`, `EmptyNextCell`, `UnlockContainer` the
two ways a write invalidates. `acked`, `floor`, `ret` are history.

**WatchHub.** `subs`, `pokes[s]`, `closed`, `reason[s]` are `WatchHub` and
`WatchSession`; `pc[s]`, `hand[s]`, `result[s]` the Stream handler. Publish
and Close hold the hub's mutex from beginning to end and are one action each;
every case of Stream's `select` is an action (`ContextDone`, `Tick`, `Take`,
`ChannelClosed`), and visibility (`CheckPasses`, `Withhold`) and sending are
steps after it. The authorization policy is an environment that hides and
shows pokes (`Hide`, `Show`) at any time, as is token expiry.

**PokeFeed** is what the feed promises, without queues, reasons or a handler: a
session is off, on, cut or over, and is owed the pokes published while it was on.
A poke is queued for every attached session of its audience, in order, or the
session is cut; a cut session is still given what it was owed. `due` counts what
a session was to get, so that a poke that is skipped cannot pass for no step.
`WatchHub!Feed` maps a session's queue and the poke in its handler's hand to
`owed`, and `ImplementsFeed` is the abstract specification.

**IncidentWrites.** A request goes through `StartCreate`/`InsertRow` or
`StartUpdate`/`GateOpens`, then `ReadRow` and `ReadLinks` (plain reads outside
the transaction), then `Commit`, one step, because the transaction's first
statement locks the incident's row, and then `Announce`, `AnnounceNext`,
`FinishUpdate`/`FinishCreate`. `Fail` is an error at any of them. `UpdatedRow`,
`Relinked`, `Retyped`, `Reheld`, `Told` are what `updateIncident` computes from
the *stale* reads. `told[n]` is what a reader of the journal believes; `unseen`
what clients have not been poked about: every record whose view a commit has
changed (`Changed`), the incident that lost a report to the edited one included.

**ReportWrites.** As above for reports; every autocommitted statement of
`reconcileReportLink` is a step (`Relink`, `WriteReportEntry`,
`WriteIncidentEntry`, `AnnounceLink`), after which `CheckRights` and `Commit`
write summary, entries and the link that was read at the start. `clobbered`
and `failed` are history: reports whose link was written by a call that had
read another one, and reports a call failed on halfway.

**IncidentPeople.** `ReadPeople` takes the snapshot of one attempt;
`CommitAttach`, `CommitRequest`, `CommitDetach` are the writes with the commit
(the writes lock what they touch, the reads do not); `Retry` and `GiveUp` are
`RunInTx`; `After` is the announcement and the push. `rows[p]` is a sequence
because the table has no unique key on (event, incident, person). `said[p]` is
what the timeline says, `told` and `stale` are history.

### Client

JavaScript runs to completion between awaits, so an action of these modules goes
from one event or answer to the next await and includes everything that happens
on the way.

**Session.** `Refreshed` resumes every caller that shares the refresh; `end` is
`runEnd`, the one shared end of a session. The server accepts a refresh token
until it is refused for good (`Refuse`), an access token until it expires
(`Age`). `Relaunch` kills the app: only the secure store survives. `old` and
`crossed` record answers that belong to a session which has ended since;
`denied` (by the refusal of the refresh token, or by an anonymous whoami) and
`left` why a session may end. The web platform's cookie is not modelled.

**LiveHub.** `refs`, `active`, `loop`, `gap`, `everOpened` are the hub's entry
and the loop of `watchEvents`; `data`, `loaded`, `invalid`, `fetch` the query
cache; `patches` the single-row reads with their sequence numbers. The server's
half is PokeFeed: `Subscribe`, `Drop`, `Tell` and `Poke` take its actions. A read
is sent (`Send`, by a mount or a return to the front, which read again what is
marked or older than its stale time, by an invalidation, or by a poll, which runs
only in front), answered (`Answer`) and lands (`Arrive`) or fails, and writes may
commit between any two of these.
`missed` is history: the answers that the named exceptions leave old.

**RecordEditor.** Both editors, told apart by `Fields`: `Begin` cancels the read,
writes the optimistic value and sends; `Commit` is the server's; `SaveSucceeds`,
`SaveFails` the answer with the invalidation; `Returns` what the row does when
the awaited read is over. `Type`, `CommitText` are `SavingField`; the `Offer…`
operators say what the pickers, switches and lists of each row may send, from
the value on screen; `Go` walks to another record and, with `Keyed`, remounts.

**Compose.** One composer or form at a time (`comp`), the sends under way
(`sends`), the drafts on the device (`disk`) and the requests to the storage
(`queue`, answered in order). Saving and clearing a draft are each a read of the
whole map and a write of it. The text is sent first, the photo after it; a send
goes on when its screen is left. Numbers stand for texts in the order they were
typed. `filings` counts what the server has taken of a form, heard of or not;
`unheard` the answers to it that were lost.

**Roster** has the list with its read, the role, enrol, create and crew writes
from their press to their settling, the marks and the Add person form, the
server's half of each write with its ceiling, and other users who set roles, give
bands and take people off the roster (people not present or ejected stay listed,
in no column); **Ladder**
extends it with the pointer, the hovercard and its two timers, measurements, the
drag with its spring, and the keys. A write of the ladder is Roster's action with
what the screen does around it. `cause` and `slipped` are history: what last
closed the hovercard, and that the pointer left it in a way no timer sees.

**Dispatch.** `shown` is what the last render saw, and handlers compute from it;
`Render` and `RunEffects` are actions of their own, so that two events may be
handled before a render. `url`, `text`, `top` are what the user sees; `pref` and
`saved` the remembered state. Incidents and reports share the module; operators
prefixed `Report` are what the reports' table does differently.

### Legacy web client

**LegacyFeed.** `ServerSaves` takes an id, `Publish` sends it, in any order;
`lock`, `loop`, `stream`, `wire` are the web lock, the loop that asks for it, the
event source and the events on its way; `last` the last id in localStorage.
`Receive` is the leader's handler with the broadcast to every tab; `Rereads` says
what each page reads again for it, `PageLands` what it does with the answer.
`doubt`, `missed`, `aged` are history.

**LegacyRecord.** Requests (`ops`) are posted from what the page shows, applied
(`Apply`) or refused, answered (`Created`, `Edited`, `EditFailed`, …) and
followed by a reload (`Land`, `LoadFails`) of any version not older than the
request. `draft` is localStorage, `page[t]` a tab's variables. `wanted`, `home`,
`asked`, `muddled` are history.

In all modules payloads, texts and people are model values or numbers, journal
text is what it tells a reader, a record is its version or its list of versions,
and times are absent unless a property depends on them.

## 3. Runs

| Run | Instance | States | Shows |
|---|---|---|---|
| `cache` | 2 goroutines, 2 keys, 1 write per key | 73 k | NoStaleRead, CallsReturn |
| `hub` | 1 stream, pokes of its event, of another and of none, queue 1, 4 publishes | 21 k | HubSafe, ImplementsFeed, EndedStreamsReturn |
| `incident` | 2 requests, 2 incidents, 4 calls, a writer and a grantee | 582 k | IncidentSafe |
| `report` | 2 requests, 1 report, 2 incidents and one that does not exist, 3 calls | 1.6 M | ReportSafe, SummaryByOwnerOnly |
| `people` | 2 requests, 2 people, 3 calls, 2 attempts | 589 k | PeopleSafe, CallsEnd |
| `session` | 2 users, 3 asks, 2 ages, 1 refusal, 1 relaunch | 284 k | SessionSafe, NeverStuck |
| `live` | 2 screens, an incident and a report, 2 changes | 142 k | OneStreamWhileWatched, ShownIsCommitted, ListsCatchUp |
| `editor` | 2 incidents, a text row and a person's row, 2 saves | 684 k | QuietShowsServer, ChoiceStands, SavedWhereTyped, TypedTextKept, SaveReturns |
| `compose` | 2 incidents and the form, 2 texts, 2 sends, 3 mounts, 2 ends of the session or the app | 1.8 M | SentWhereTyped, DraftIsStored, JournalIsTrue, FiledOnce, TextLeavesOnlySent |
| `legacy_feed` | 2 tabs, a record of each kind, 2 writes, 2 pages opened, 1 fault | 1.2 M | QuietTablesCurrent, OneStream, FeedNeverAbandoned |
| `legacy_record` | 2 tabs, 2 texts, 2 list members, 8 plans of 2 or 3 requests, 1 fault | 595 k | CreatedOnce, TextKept, TextStaysWithRecord, ChoicesStand |
| `screens` | the roster (3 people, 12 scenes) or a table (3 rows, 8 shifts) | 1.5 M | RosterCurrent, WristbandKept, HoverCloses, PinStays; PreferenceStaysLocal, ChoiceShown, ViewFollows, PageWalksTable |

`HubSafe`, `IncidentSafe`, `ReportSafe`, `PeopleSafe` and `SessionSafe` are
conjunctions of the named properties of section 4 and of their module. The type
invariants of the client's modules are a conjunct of one invariant of their run
(said in its comment); those of the modules with proofs are theorems.

**Why the bounds are enough to be interesting.** The hazards are between two
calls: a reader and a writer, two writers of one row, a publisher and a handler,
a save and a read, a send and the screen it left. Two requests overlap at every
pair of steps; a third or fourth *call* lets one of them run against what an
earlier one left (a closed incident, a person with two rows, a report already
linked). A queue of length 1 (64 in the code) is full after one publish, so full,
empty and one-too-many all occur. Two attempts (4 in the code) already have a
rolled-back attempt before the committed one. Two keys make InvalidateAll wait
for one cell while the other is refreshed. One *fault* per behaviour, of any kind
and at any moment, is shared by refused requests, lost answers, failed reads and
killed tabs; two independent failures of one screen are not looked at. Three
mounts let a send outlive its screen and meet the same target again; `MaxSteps`
in Compose bounds sends and mounts together, so that no behaviour spends both
bounds. A **plan** (LegacyRecord), **scene** (Roster) or **shift** (Dispatch) is
chosen at the start and says which operations the user takes part in: each scene
pairs the operations that touch the same state, and every operation occurs in
one; what three unrelated kinds of operation do together is not looked at. The
proofs of section 4 remove the bounds for the safety properties they cover.

**Symmetry** is used over interchangeable requests (`incident`, `report`),
records (`compose`), texts and list members (`legacy_record`), all in runs
without liveness. **Deadlock** is checked in `cache` (goroutines can always start
another call until the bounds are used up, and time always passes); elsewhere
the bounded number of calls lets the system rest, which is not an error.

**Fairness.**

* `RefDataCache`: strong fairness of each goroutine's `Step`. Go's `sync.Mutex`
  hands the lock to a waiter starved for a millisecond, so a goroutine that can
  get the mutex again and again gets it. Starting calls is not fair.
* `WatchHub`: weak fairness of a handler's straight-line steps, strong fairness
  of the select's cases, because `select` chooses among ready cases at random.
  No client has to leave, no token has to expire, nothing has to be published.
* `IncidentPeople`: weak fairness per request: the scheduler starves no
  goroutine and a database call answers or times out. That it is *weak* fairness
  of all steps together leaves the outcome (retry, give up, commit) open.
* `Session`: weak fairness of the mount effect, of settling promises (fetch and
  the secure store answer or fail) and of the sign-out timer. Nothing the user
  does is fair.
* `LiveHub`: the poll timer of a mounted list fires (weak; it is enabled only
  while the app is in front, as refetchInterval stops with the focus), and its
  reads do not fail for ever there (strong fairness of the answer and the arrival
  in front). ListsCatchUp promises accordingly: of a list that stays on screen of
  an app that stays in front. The stream may stay down for good.
* `RecordEditor`: a request and a read end, one way or the other, and what
  awaited them goes on (weak). The user and the pokes owe nothing.
* The other modules state safety only.

## 4. Proofs

| Module | Theorems | Constants assumed |
|---|---|---|
| `InMemory_proofs` | CacheNoStaleRead, CacheSingleFlight, CacheTypeCorrect; HubIsSafe from HubNoSilentLoss, HubNoSendOnClosed, HubReasonIsHonest, HubAtMostOneLateSend, HubHiddenPokesWithheld; HubTypeCorrect; HubImplementsFeed | "nobody" is not a goroutine; MaxVersion is a natural number; the queue holds at least one poke |
| `IncidentWrites_proofs` | WritesAreSafe from WritesLinksSymmetric, WritesClosedMatchesState, WritesNumberIsOwn, WritesJournalHonest, WritesNothingForgotten; WritesTypeCorrect | every field of a payload is absent or a value of its kind (for the outcome, possibly an unknown one) |
| `ReportWrites_proofs` | ReportsAreSafe from ReportsLinkOnBothTimelines, ReportsLinkChangesAnnounced, ReportsNumberIsOwn; ReportsSummaryByOwnerOnly; ReportsTypeCorrect | links are integers, incident numbers positive; "absent" is neither a row nor a number |
| `IncidentPeople_proofs` | PeopleAreSafe from PeoplePushIffNotice, PeopleAttachedWasTold, PeopleChangesAnnounced, PeopleJournalTellsAccess; PeopleRevokeIsComplete, PeopleFreshCallsKeepAsk, PeopleTypeCorrect | there is a person; at least one attempt |
| `Sync_proofs` | LiveOneStream, LiveShownIsCommitted; SessionIsSafe | screens read known queries, lists are no items; "nobody" is no user; the bounds are natural numbers |
| `Client_proofs` | EditorShowsServer, EditorChoiceStands, EditorSavesWhereTyped, EditorKeepsText; ComposerShowsEntries, ComposerKeepsText, ComposerFilesOnce, ComposerSendsWhereTyped, ComposerStoresDraft; FeedHasOneStream, FeedIsHeld, FeedShowsCurrent | the rows are those of one editor; the form is not a timeline; a tab, a record and a kind are told apart; "nothing" is none of them |
| `Screens_proofs` | RosterStaysCurrent, RosterKeepsBands, LadderPinStays, LadderHoverCloses; TableKeepsPreference, TableShowsChoice, TableViewFollows, TablePageWalksTable | the rosters of the scenes and the tables of the shifts are typed; "nobody" is no person, list or timer; the first URL is one that the table itself would write |
| `LegacyRecord_proofs` | RecordCreatesOnce, RecordKeepsText, RecordTextStays, RecordChoicesStand | "nothing" is no tab, text, type, number, page or read; there is a record |

Three theorems have a hypothesis of their own. ComposerSendsWhereTyped and
ComposerStoresDraft need the composer keyed by its record: it is on the
incident's screen, and on the report's page it is not (section 5).
EditorSavesWhereTyped needs the same of the text row.

Each invariant is proved from an inductive invariant (`IInv`; of the caches
`CacheInv`), stated at the end of the component's module or of its proofs and
checked by TLC on the run's instance before it was proved: `Init => IInv`, one
step per action for `IInv /\ [Next]_vars => IInv'`, and `IInv =>` the property.

* **Cache.** NoStaleRead alone does not survive a step: a value about to be
  *stored* may be stale as well. `FreshInv` says that a valid value, and one in
  the hands of a refresher, is at least as new as every acknowledged write and
  as every write InvalidateAll has already passed; it holds because Invalidate
  needs `writeMu`, which the refresher keeps from reading to storing
  (`LockInv`). `CreatedInv` covers writes that find no cell to empty,
  `VersionInv` orders versions, `FloorInv` carries the promise through a Get.
* **Hub.** NoSilentLoss is an equation (published = dealt with + in hand +
  queued + the one dropped). It needs `AttachInv` (attached sessions are open
  and being served, an end is recorded once) and `HandInv` (where a handler
  holds a poke); ReasonIsHonest follows with `ResultInv`: the recorded reason is
  returned only after the closed queue has been drained. `LateInv` says that a
  message can be late only when the expiry came between check and send.
* **Incident writes.** The stale rows and lists that requests carry must be
  consistent themselves (`CallInv`, `StoredInv`), numbers under creation belong
  to one call (`NumberInv`), and the journal exists with the row (`ToldInv`).
* **Reports.** LinkOnBothTimelines is not inductive: a call that read a link
  may write it back long after. `JournalInv` says that every link, the stored
  one and each one a call has *read*, is journalled on both timelines, about to
  be journalled by the call that set it, or belongs to a report some call failed
  on. `CallInv` carries the creator that was read (it never changes) and the
  rights check to the commit, which gives SummaryByOwnerOnly.
* **People.** `HandlerInv` says what each point of a handler knows: before the
  commit nothing was sent; at the writes newlyAttached is the *current*
  attempt's, and somebody read as attached has been told, which stays true
  however stale the reading gets since nobody is ever untold; after the commit
  the push to come equals the notice stored. `SingleRow` says that only a stale
  reading gives a person two rows, which is why comparing the first row's grant
  suffices for the journal. RevokeIsComplete and FreshCallsKeepAsk are action
  properties proved from the same invariant.
* **Refinement.** HubImplementsFeed is `Spec => Feed!Spec`: the initial states
  map to the feed's, and every step maps to one of its actions or to nothing.
  It needs IInv and that nothing is queued for a session before it is attached
  (`Unattached`: then Subscribe is an `Attach` with nothing owed). Taking a
  poke from the queue maps to no step, sending and withholding it to `Give`, a
  publication to an `Announce` that cuts the sessions with a full queue.

* **Live hub.** What is said of the loop needs the types of the hub, the cache
  and the patches (`LInv`) and nothing of the data: a loop is started by the
  first claim or the return to the front, and only close(), which ends the
  server's session in the same step, stops it. ShownIsCommitted speaks of rest
  only, so `SInv` says what makes up for a difference before: `DataInv` that a
  cached answer is the committed record, or its query is marked, or a poke or a
  patch for it is to come; `AnswerInv` and `RowInv` the same of what a read or a
  patch brings; `MarkInv` that a marked query on screen is being read. While
  the stream is down nothing is said: its resumption marks everything.
* **Session.** A caller waits where the session left it (`IInv`): no two
  of starting, signing in and having signed in overlap unless a session ended
  between them, the tokens handed out are the stored session's, and a call that
  is out carries one of them. An answer applied across an end is `crossed`.
* **Record editors.** QuietShowsServer follows from `CacheInv`: a cached record
  is the server's, or it is marked, or its last read failed, or a save of it is
  out, and the end of every save starts a read. A read that began while a save
  was out may bring either state; `ChoiceInv` says that it cannot land on a
  choice that was made after it. `RowInv` ties an open text row to the record
  on screen, which is where the key of the screen is needed.
* **Composers.** One invariant for each of four theorems: `JournalInv` (a record
  that is not to be read again, with no send out, shows the server's entries);
  `FilingInv` (a form whose filing is out has not been filed, and one that was
  is marked so); `TargetInv` (what is in the drafts, the composer and the sends
  was entered on their record); `DraftInv` (the last text typed on a target is
  on its way to the storage, stored, sent, erased, or undone by another
  target's write, which is the exception `lost`).
* **Legacy feed.** `LeaderInv` ties the lock, the loop and the stream of each
  tab together; FeedNeverAbandoned needs that a tab that gives the lock up is
  gone or asks again. `CurrentInv` is the one about data: a row on screen is
  fresh, in `doubt`, in `missed`, or an event or the catching up for it is to
  come; `ReadsInv` says that one read at the most covers a row without doubt,
  and `CountInv` that no id runs ahead of the counter.
* **Roster.** `RosterStep` is what any step of the screen does to the roster, so
  that its invariants are proved over eleven actions and not over the screen's
  thirty. `CurrentInv`: a read begun before a write was accepted is given up by
  that write's answer, so with no request out the list is of our last write or
  later. `BandInv`: a row and a request carry the band of the version the row
  was read in, and unless the person is in `raced` no band was given or taken since;
  `ReadFirst` says that nothing is written before the list is read.
* **Hovercard.** `PinInv`: behind a pin in the queue of measurements there is no
  hover, and while a card is pinned, or is to be, no hover timer of before runs.
  It is what clearing *both* timers in openHovercard is for. `HoverInv`, unless
  the pointer slipped: the refs of the handlers say where the pointer is, a
  running close timer means that it is over neither card nor popover, and a
  hovercard it is not over has a timer or a measurement to come. It rests on
  `AtDrawn` (a card under the pointer is drawn), or the open timer could fire
  for a card that is not measured.
* **Tables.** `TableInv` says: the last render saw what there is unless another
  is due (`DrawnInv`); the URL and the URL last seen name only states that the
  visitor named (`NamedInv`), and the last choice is what the URL stands for
  with or without the stored state (`ChoiceInv`); the drawer is the one asked for
  or gone for a lost row (`DrawerInv`, `LostInv`); after its effects a render
  needs no more of them (`NormalInv`); the box shows what is searched for
  (`TextInv`); a carried query filters as the table does (`PageInv`).
* **Legacy pages.** The thirty actions are eleven kinds of step (`NextIsPages`:
  the page opens, is left, is typed on, stores its draft, sends, learns its
  number, starts a read, finishes or drops a request; a request takes effect or
  is refused), and each invariant is shown for the kinds. CreatedOnce:
  `RecordCreateInv` says that until the first answer nothing of a page carries a
  number and one create is out, and afterwards everything carries its own, but
  for pages whose creates `crossed`. TextStaysWithRecord: `RecordHomeInv` says
  the same of the boxes and the entries on their way as of drafts and journals.
  TextKept: `RecordKeepInv`; a text whose timer has run is in a draft
  (`SavedInv`), and an entry that is posted is in a journal before its answer
  may clear box and draft. ChoicesStand: `RecordStandsInv`; of a record that is
  not `muddled` one request is out at a time (`Lone`), it says what the record
  is (`SaysInv`), a read of it brings its last version (`ReadsInv`), and the page
  shows that version unless its own request is about to (`ShowsInv`). The proof
  is what found the removed person's row (section 5): the invariant failed in
  the step that changes the involvement, and TLC then showed ChoicesStand itself
  broken with a grant, a removal and that change; the instance had allowed two
  requests. The exception was added to the history and a third request to the run.

Some assumptions on constants were added for the proofs, none of them a
restriction of the program: they tell the placeholder for "none" or "nothing"
from the values it stands beside, and they type what the MC modules enumerate.
One is a real limit: Dispatch's first URL is one that serializeQuery writes, so a
hand-typed one is outside the theorems (section 5).

Only model-checked: every liveness property (CallsReturn, EndedStreamsReturn,
CallsEnd, NeverStuck, ListsCatchUp, SaveReturns: fairness is outside the
prover's reach). Every safety property that a run checks is a theorem. The
inductive invariants of the editors, composers, legacy feed and pages, roster
and tables were checked by TLC on the instances of their runs before they were
proved.

## 5. Exceptions

The passing properties are stated so that what the code does otherwise is
visible as a named exception rather than hidden: `stale`, `clobbered`, `failed`,
`crossed`, `missed`, `doubt`, `muddled`, `raced`, `late`, `outran` and the like
are history variables, set exactly where the code takes the disputed step.
Where a sentence of the repository says more than the code keeps, the stronger
formula is in the module as well; naming it as an INVARIANT or PROPERTY of the
module's cfg makes TLC show a behaviour that breaks it:

| Formula | What the code does |
|---|---|
| `WatchHub!ShutdownEndsStreams` | The hub does not remember that it was closed: a Stream call between its gate and Subscribe attaches afterwards, is not ended, and holds the drain open (`watchstream.go:24`, `serve.go:201`). |
| `IncidentWrites!PrivacyByOwnerOnly` | UpdateIncident writes every column from a row read before its transaction: an edit of a summary that overlaps the creator's privacy change makes the incident public again (`incident.go:480`, `:594`). |
| `ReportWrites!LinkAsRequested` | One UpdateReport with a new link and a summary changes the link first, then its transaction writes the old one back (`connect.go:1098`, `:1192`). No concurrency is needed. |
| `IncidentPeople!AskKept` | Attach copies the ask from a row read without a lock: a RequestReport that commits in between is forgotten (`queries.sql:611`, `connect.go:578`). FreshCallsKeepAsk is the part that holds. |
| `Session!SignOutStands` | refreshAuthStatus checks the status before it awaits: the late answer signs a device in again that was signed out meanwhile (`session.ts:226`, `:26`). |
| `LiveHub!PrivateRowLeaves` | An incident that turns private stays in a viewer's cached list until the next poll: the poke that would take it out is withheld from that viewer (`hub.ts:124`, `watch.go:91`). |
| `RecordEditor!PokeKeepsText` | A failed background read of the open incident replaces the rows by the error, and typed text is gone (`IncidentScreen.tsx:204`). |
| `IncidentWrites!EveryChangeAnnounced` | UpdateIncident announces the incident it edits and the reports it took or gave up; the incident that a taken report belonged to before is not announced (`incident.go:857-863`), where UpdateReport announces both ends of the same move (`connect.go:1464-1465`). |
| `Session!OnlyRefusalEnds` | Only a definitive Unauthenticated from RefreshToken ends a session (`session.ts:24-26`, #189); but with an expired access token and a refresh that failed for a moment, GetAuthStatus answers anonymously, and that ends the session with a good refresh token (`session.ts:225-229`). |
| `Compose!FiledOnceDespiteLoss` | Filing has no key that a retry repeats: an answer lost after the server's commit leaves the form open with its error, and the next press files it again (`NewIncidentScreen.tsx:125`). FiledOnce allows one more filing for each lost answer and no other. |
| `Dispatch!PreferenceNeverInLinks` | Only an explicit choice takes the state to the URL (`useDispatchQuery.ts:37-43`); but "full page" pushes the resolved query, and the stored preference with it (`DispatchScreen.tsx:75-95`). PreferenceStaysLocal excepts that one URL. |
| `Compose!SignOutClearsDrafts` | A forced end of the session unmounts the composer, which flushes its draft after clearDrafts (`features/compose/hooks.ts:300`). |

Other things the code does, met while modelling and excepted in the properties
or outside them:

* **Server.** An entry-only report update writes back an old summary; a report
  is removed from an incident although it has moved meanwhile; a denied report
  update keeps its link change; RequestReport after an overlapping detach
  updates no row and still notifies.
* **Composers.** Two drafts saved at once overwrite each other (one storage
  key); the clear after a send also takes a text typed since; removing a photo
  while its text is being sent does not stop the upload; Send during a photo's
  Retry uploads it twice; the report page's composer has no key and carries its
  text to the next report; reopening while a send is out restores the text as
  unsent.
* **Roster.** A write of a row that has left the list cancels the list's read
  for good; a rollback restores an old row, whose band the next write sends;
  enrolling somebody who is not on the list clears a wristband; overlapping
  writes clear each other's marks; Enrol is offered again between the answer and
  the settling; Back to search and then a late create answer jumps to the
  notice.
* **Hovercard and drag.** It stays open when the pointer crosses another card,
  although `docs/plans/09aa-roster-design.md:250` and `:407` say that it closes
  once the pointer has left card and popover; and when the pointer leaves while
  the card is measured, or what it was over is taken away; a hover begun while a
  pin is measured downgrades the pin; a drop outside followed by a move cancels
  the spring's callback, and the drag sticks; the press after such a drag is
  swallowed; Enter for a selected person whose card is gone clears the timers
  and opens nothing, and so does moving on to a third card while the hover is
  suppressed after a drop. The hover that was reported meanwhile is not
  replayed, although the comment says so (`PeopleScreen.tsx:512`): it is handed
  to the handler of the render of the drop, which still has `dragging` set and
  returns; a card under a resting pointer opens with the next enter.
* **Tables.** A hand-typed `?state=open` beside a stored "closed" loses its state
  with the first other patch, because serializeQuery drops the default, although
  the comment says that every other patch keeps it (`useDispatchQuery.ts:139`); a
  stored state that arrives after the default was chosen undoes the choice; a
  handler or effect that works from a render out of date overwrites the whole
  query; a failed read takes bar, table and drawer down; a failed save of the
  preference brings the old state back after a reload.
* **Legacy feed.** An update is missed when a read failed or was overtaken, when
  it was broadcast before the page listened, when a later id was seen before it
  was lost, when a restarted server has counted to the same id, and for visits,
  which are not told to read everything. The report page compares an event's id
  with its name, so only "update all" reloads it. A failed reload draws the
  incidents table empty and the next success of one row clears the error.
* **Legacy pages.** Two edits before the first create's answer, or a retry after
  a lost one, create two records; after a failed reload the next whole-list edit
  undoes the previous one; adding a person again clears the grant and a stale row
  resends an old one; changing the involvement in the row of a person who has
  just been removed (it stays until the announcement) puts the person back, grant
  and all (`incident.ts:1585`, `:1626`); the success of a submission clears what
  was typed meanwhile and another tab's draft; two new pages share one draft; the
  reload of a numbered report enables Submit again while one is out; visits have
  no drafts.

## 6. Not modelled

* **Reads** (Get and List of incidents and reports) change no state; their
  visibility rule appears as `Hide`/`Show` in WatchHub, `hidden` in LiveHub and
  as the write gate in IncidentPeople.
* **Journal strikes** (server), **visits** (server), **registries**, **person
  administration**, **rate limiter**: single statements or one critical section
  each. The guard on the last administrator reads and writes apart; it is the
  next thing to model (section 7).
* **Authorization masks** reach the models as sets of people; token signing and
  password hashing are cryptography.
* **Attachments, pictures, S3, push delivery, metrics queries, action log,
  migrations, configuration, generated code, deployment**: I/O or start-up code
  without a protocol of its own.
* **Client:** the board and the shell (views derived from lists that LiveHub
  keeps), alerts and push registration, the persisted query cache, the login and
  password forms, pickers and mentions, the design system: rendering, or one call
  around which nothing overlaps that the modelled parts do not show.
* **Legacy client:** the administration, dashboard and account pages (one edit
  and a reload each), the filters and sorting of the tables, themes and the
  service worker.
* Within modelled parts: involvement texts, journal wording, timestamps, event
  moves, the roster's search and filters and its Show everyone toggle
  (`PeopleScreen.tsx:158-163`, `useRoster.ts:76-84`: it reads a second list under
  a key of its own, which the writes invalidate alike); the database is taken to
  honour its isolation level and its locks, the browser its web locks, and the
  storage of the device the order of its requests.

## 7. Plan

Done, in this order: RefDataCache, WatchHub, IncidentWrites, ReportWrites,
IncidentPeople and their proofs; Session; PokeFeed with its refinement and
LiveHub as its client; RecordEditor, Compose; LegacyFeed, LegacyRecord; Roster,
Ladder, Dispatch.

Next:

1. **Refinements** of the client: the editors and the tables against what they
   promise without reads and renders.
2. **An atomic cache** (a read returns something at least as new as the last
   acknowledged write) as the abstract specification of RefDataCache.
3. **RateLimiter** (backoff at its numeric limits, pruning against a lockout in
   force) and **Administration** (the guard on the last administrator under two
   overlapping calls, registries).
4. Journal strikes as actions of the two write models, and visits as a third.
5. **Permissions**: the masks as an operator checked against the documented
   roles.

