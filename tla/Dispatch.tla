------------------------------ MODULE Dispatch ------------------------------
(***************************************************************************)
(* The wide client's tables of incidents and of reports                    *)
(* (packages/interface/src/features/dispatch and features/reports): the    *)
(* view is in the URL, and every handler works on the query of the last    *)
(* render, spreads it and replaces the whole of the URL's query with the   *)
(* result.  An effect after each render drops a drawer whose row is gone   *)
(* and selects the row of the drawer.  The incidents table remembers the   *)
(* state filter on the device: URL before stored before default.  "Full    *)
(* page" pushes a page that carries the table's query; the table stays     *)
(* mounted beneath it.                                                     *)
(*                                                                         *)
(* `shown` is what the last render saw; `dirty` says that another render   *)
(* is due, and `effects` that those of the last one have not run yet.      *)
(* The filters other than the state (the link, for reports) are members of *)
(* Filters, the columns other than the number are the one called "column". *)
(***************************************************************************)
EXTENDS Naturals, Sequences, FiniteSets, SequencesExt

CONSTANTS
    Numbers,    \* of the records; 0 stands for none
    Filters,    \* "days" is one of them: it depends on the clock
    Passing,    \* [Filters -> the numbers that pass]
    Searches,   \* what may be typed, "" included
    Matching,   \* [Searches -> the numbers whose text matches]
    Bare,       \* [Searches -> the number it is, or 0]
    Shifts      \* bound: how the screen is reached and how much happens on it

\* What the state filter shows of a kind of rows: one of two, or all.
DefaultOf(kind) == IF kind = "incidents" THEN "open" ELSE "unlinked"
OtherOf(kind)   == IF kind = "incidents" THEN "closed" ELSE "linked"

DefaultSort == [key |-> "number", dir |-> "desc"]
Bar == [tab |-> "none", narrow |-> {}, q |-> "", sort |-> DefaultSort, sel |-> 0, open |-> 0]

Num == Numbers \cup {0}
UrlsWith(states) ==
    [tab : states, narrow : SUBSET Filters, q : Searches,
     sort : [key : {"number", "column"}, dir : {"asc", "desc"}], sel : Num, open : Num]

\* A link is one that the table wrote: the default state is absent from it.  A
\* record's page opened by a link has a bare table beneath; only the incidents
\* remember a state.
ASSUME DispatchAssumption ==
    /\ Numbers \subseteq Nat \ {0} /\ "" \in Searches /\ "days" \in Filters
    /\ Passing \in [Filters -> SUBSET Numbers] /\ Matching \in [Searches -> SUBSET Numbers]
    /\ Bare \in [Searches -> Num]
    /\ \A s \in Shifts :
          /\ s.kind \in {"incidents", "reports"}
          /\ s.url \in UrlsWith({OtherOf(s.kind), "all", "none"})
          /\ s.rows \in [Numbers -> {DefaultOf(s.kind), OtherOf(s.kind), "none"}]
          /\ s.page \in Num /\ (s.page # 0 => s.url = Bar)
          /\ s.kind = "reports" => s.saved = "none"
          /\ {s.acts, s.changes} \subseteq Nat

VARIABLES
    shift,     \* [kind, url, saved, page, rows, acts, changes, offers], chosen at the start
    views,     \* [Numbers -> "none" or the state (the link) of the row], the query's data
    loaded,    \* the rows have been read once
    failed,    \* the last read of the rows failed
    aged,      \* the numbers that the clock has moved out of the "days" filter
    url,       \* the table's part of the URL
    pref,      \* [stored, reading]: storedState; the read under way, or "done"
    saved,     \* the device's storage
    shown,     \* what the last render saw
    dirty,
    effects,   \* [due, box]
    text,      \* the search box
    focus,     \* the search box has the focus
    help,
    top,      \* the page on top: [number, url, carried, help], number 0 for none
    mounted,   \* the table is mounted
    left,      \* [acts, changes] still to come
    \* History only
    named,     \* the states that the link named or the visitor chose
    choice,    \* the last state the visitor chose
    late,      \* the stored state arrived after the choice and undid it, or after the push
    outran,    \* a handler or an effect worked on a URL that had changed since the render
    drawer,    \* the number last opened and not closed
    lost       \* the numbers that were missing from the rows

viewVars  == <<url, text, focus, help, top, mounted>>
dataVars  == <<views, loaded, failed, aged>>
prefVars  == <<pref, saved>>
tableHist == <<named, choice, late, outran, drawer, lost>>
tableVars == <<shift, dataVars, viewVars, prefVars, shown, dirty, effects, left, tableHist>>

Incidental == shift.kind = "incidents"
Default == DefaultOf(shift.kind)
Other   == OtherOf(shift.kind)
States    == {Default, Other, "all"}
Can(o)  == o \in shift.offers

NoPage == [number |-> 0, url |-> Bar, carried |-> FALSE, help |-> FALSE]

(***************************************************************************)
(* The query (query.ts, reportQuery.ts)                                    *)
(***************************************************************************)
\* An absent state is the fallback; a default state is absent.
ParseQuery(u, fallback) == [u EXCEPT !.tab = IF @ = "none" THEN fallback ELSE @]
SerializeQuery(q)       == [q EXCEPT !.tab = IF @ = Default THEN "none" ELSE @]

ReportParseQuery(u)       == ParseQuery(u, "unlinked")
ReportSerializeQuery(q)   == [q EXCEPT !.tab = IF @ = "unlinked" THEN "none" ELSE @]
ParamsOf(q) == IF Incidental THEN SerializeQuery(q) ELSE ReportSerializeQuery(q)

IsFiltered(q)       == q.tab # "open" \/ q.narrow # {} \/ q.q # ""
ReportIsFiltered(q) == q.tab # "unlinked" \/ q.q # ""
ClearFilters(q)       == [q EXCEPT !.tab = "open", !.narrow = {}, !.q = ""]
ReportClearFilters(q) == [q EXCEPT !.tab = "unlinked", !.q = ""]

DefaultDir(key)       == IF key = "number" THEN "desc" ELSE "asc"
ReportDefaultDir(key) == "desc"

\* Of the rows and the aged numbers, as a render had them.
ApplyQuery(rows, old, q) ==
    {n \in Numbers : /\ rows[n] # "none"
                     /\ q.tab \in {"all", rows[n]}
                     /\ \A f \in q.narrow : n \in Passing[f] /\ (f = "days" => n \notin old)
                     /\ n \in Matching[q.q]}
ReportApplyQuery(rows, q) ==
    {n \in Numbers : rows[n] # "none" /\ q.tab \in {"all", rows[n]} /\ n \in Matching[q.q]}

\* By the column, ties by the number against the direction.
Precedes(rows, sort, a, b) ==
    LET less(x, y) == rows[x] = Default /\ rows[y] = Other
        up(x, y)   == IF sort.key = "number" THEN x < y ELSE less(x, y)
        tied       == ~up(a, b) /\ ~up(b, a)
    IN  IF sort.dir = "asc" THEN up(a, b) \/ (tied /\ a > b) ELSE up(b, a) \/ (tied /\ a < b)
SortRows(rows, sort, kept) == SetToSortSeq(kept, LAMBDA a, b : Precedes(rows, sort, a, b))

VisibleIn(rows, old, q) ==
    SortRows(rows, q.sort, IF Incidental THEN ApplyQuery(rows, old, q) ELSE ReportApplyQuery(rows, q))

Place(vis, n) == IF \E i \in DOMAIN vis : vis[i] = n THEN CHOOSE i \in DOMAIN vis : vis[i] = n ELSE 0
\* The record before (delta -1) or after n, 0 for none.
NeighboursOf(vis, n, delta) ==
    LET i == Place(vis, n)
    IN  IF i = 0 \/ i + delta \notin DOMAIN vis THEN 0 ELSE vis[i + delta]
ReportNeighboursOf(vis, n, delta) == NeighboursOf(vis, n, delta)
Neighbour(vis, n, delta) ==
    IF Incidental THEN NeighboursOf(vis, n, delta) ELSE ReportNeighboursOf(vis, n, delta)

(***************************************************************************)
(* What a render makes of the URL (useDispatchQuery.ts, useReportQuery.ts) *)
(***************************************************************************)
\* What the device's storage says, if that is a state; a save may fail.
LoadStatePreference    == IF saved \in States THEN saved ELSE "none"
SaveStatePreference(t) == saved' \in {t, saved}

FallbackState == IF Incidental /\ pref.reading = "done" /\ pref.stored # "none" THEN pref.stored ELSE Default

Query    == IF Incidental THEN ParseQuery(shown.url, shown.fallback) ELSE ReportParseQuery(shown.url)
RawState == IF Incidental THEN ParseQuery(shown.url, "open").tab ELSE Query.tab
Visible  == VisibleIn(shown.rows, shown.aged, Query)
Present(n) == n # 0 /\ shown.rows[n] # "none"
Opened   == IF Present(Query.open) THEN Query.open ELSE 0

\* The bar, the table and the drawer are up once the rows are read, and until a read fails.
BodyDrawn == loaded /\ ~failed

Data     == [n \in Numbers |-> IF loaded THEN views[n] ELSE "none"]
Snapshot == [url |-> url, rows |-> Data, loaded |-> loaded, aged |-> aged,
             fallback |-> FallbackState, drawn |-> BodyDrawn]

\* The search box is a new one when the body is drawn again.
Render ==
    /\ mounted /\ dirty /\ ~effects.due
    /\ shown' = Snapshot /\ dirty' = FALSE
    /\ effects' = [due |-> TRUE, box |-> shown.drawn /\ BodyDrawn /\ shown.url.q # url.q]
    /\ text' = IF BodyDrawn /\ ~shown.drawn THEN url.q ELSE text
    /\ focus' = (focus /\ BodyDrawn)
    /\ UNCHANGED <<shift, dataVars, prefVars, url, help, top, mounted, left, tableHist>>

Race == outran' = (outran \/ url # shown.url)
Navigate(next) ==
    /\ url' = ParamsOf(next)
    /\ dirty' = TRUE /\ Race

\* Mutant: the spread of the resolved query, with the stored state in it.
BaseResolved == Query
\* What a handler spreads: the query of the render, with the URL's own state.
Base == [Query EXCEPT !.tab = RawState]

\* Mutant: as before the rows were waited for.
NormaliseEagerly ==
    LET o == Query.open
    IN  IF o = 0 THEN UNCHANGED <<url, dirty, outran>>
        ELSE IF ~Present(o) THEN Navigate([Base EXCEPT !.open = 0, !.sel = 0])
        ELSE IF Query.sel # o THEN Navigate([Base EXCEPT !.sel = o])
        ELSE UNCHANGED <<url, dirty, outran>>

\* The drawer of a row that is gone is closed; the row of a drawer is selected.
Normalise ==
    LET o == Query.open
    IN  IF o = 0 THEN UNCHANGED <<url, dirty, outran>>
        ELSE IF shown.loaded /\ ~Present(o) THEN Navigate([Base EXCEPT !.open = 0, !.sel = 0])
        ELSE IF Query.sel # o THEN Navigate([Base EXCEPT !.sel = o])
        ELSE UNCHANGED <<url, dirty, outran>>
ReportNormalise == Normalise

RunEffects ==
    /\ mounted /\ effects.due
    /\ effects' = [due |-> FALSE, box |-> FALSE]
    /\ text' = IF effects.box THEN shown.url.q ELSE text
    /\ IF Incidental THEN Normalise ELSE ReportNormalise
    /\ UNCHANGED <<shift, dataVars, prefVars, shown, focus, help, top, mounted, left,
                   named, choice, late, drawer, lost>>

(***************************************************************************)
(* The handlers of the table                                               *)
(***************************************************************************)
OnTop   == mounted /\ top.number = 0
Act     == left.acts > 0 /\ left' = [left EXCEPT !.acts = @ - 1]
Hand    == OnTop /\ shown.drawn /\ Act
ActKeep == UNCHANGED <<shift, dataVars, shown, effects, top, mounted, late, lost>>

Patch(next) == Navigate(next) /\ UNCHANGED <<named, choice, prefVars>>
Opens(n)    == Patch([Base EXCEPT !.sel = n, !.open = n]) /\ drawer' = n
Selects(n)  == Patch([Base EXCEPT !.sel = n]) /\ UNCHANGED drawer
Closes      == Patch([Base EXCEPT !.open = 0]) /\ drawer' = 0

\* Mutant: the chosen state is saved, but this screen does not remember it.
ChoosesUnremembered(t, next) ==
    /\ saved' = t /\ UNCHANGED pref
    /\ named' = named \cup {t} /\ choice' = t
    /\ Navigate(next)
\* A patch that names the state also remembers it.
Chooses(t, next) ==
    /\ IF Incidental THEN pref' = [pref EXCEPT !.stored = t] /\ SaveStatePreference(t)
                     ELSE UNCHANGED prefVars
    /\ named' = named \cup {t} /\ choice' = t
    /\ Navigate(next)

SetState(t) ==
    /\ Incidental /\ Hand /\ Can("state")
    /\ Chooses(t, [Base EXCEPT !.tab = t])
    /\ UNCHANGED <<text, focus, help, drawer>> /\ ActKeep
SetLink(t) ==
    /\ ~Incidental /\ Hand /\ Can("state")
    /\ Chooses(t, [Query EXCEPT !.tab = t])
    /\ UNCHANGED <<text, focus, help, drawer>> /\ ActKeep

\* The bar's Clear and the empty table's "Clear filters".
Clear ==
    /\ Incidental /\ Hand /\ Can("state") /\ IsFiltered(Query)
    /\ Chooses("open", ClearFilters(Query))
    /\ UNCHANGED <<text, focus, help, drawer>> /\ ActKeep
ReportClear ==
    /\ ~Incidental /\ Hand /\ Can("state") /\ ReportIsFiltered(Query)
    /\ Chooses("unlinked", ReportClearFilters(Query))
    /\ UNCHANGED <<text, focus, help, drawer>> /\ ActKeep

ToggleFilter(f) ==
    /\ Incidental /\ Hand /\ Can("filter")
    /\ Patch([Base EXCEPT !.narrow = IF f \in @ THEN @ \ {f} ELSE @ \cup {f}])
    /\ UNCHANGED <<text, focus, help, drawer>> /\ ActKeep

Resorted(sort, key, dir) ==
    IF sort.key = key THEN [key |-> key, dir |-> IF sort.dir = "asc" THEN "desc" ELSE "asc"]
    ELSE [key |-> key, dir |-> dir]
OnSort(key) ==
    /\ Incidental /\ Hand /\ Can("sort")
    /\ Patch([Base EXCEPT !.sort = Resorted(@, key, DefaultDir(key))])
    /\ UNCHANGED <<text, focus, help, drawer>> /\ ActKeep
ReportOnSort(key) ==
    /\ ~Incidental /\ Hand /\ Can("sort")
    /\ Patch([Base EXCEPT !.sort = Resorted(@, key, ReportDefaultDir(key))])
    /\ UNCHANGED <<text, focus, help, drawer>> /\ ActKeep

\* The box shows what is typed at once; the URL follows.
TypeIn(s) ==
    /\ Hand /\ Can("search") /\ focus /\ s # text
    /\ text' = s /\ Patch([Base EXCEPT !.q = s])
    /\ UNCHANGED <<focus, help, drawer>> /\ ActKeep
IncidentSearch(s) == Incidental /\ TypeIn(s)
ReportSearch(s)   == ~Incidental /\ TypeIn(s)

\* Enter in the box: a bare number jumps to its record, else the table gets the focus.
Submit ==
    /\ Hand /\ Can("search") /\ focus
    /\ LET n == Bare[Query.q]
       IN  IF Present(n) THEN Opens(n)
           ELSE IF Query.sel = 0 /\ Visible # <<>> THEN \E first \in Numbers : first = Visible[1] /\ Selects(first)
           ELSE UNCHANGED <<url, dirty, outran, named, choice, prefVars, drawer>>
    /\ focus' = FALSE
    /\ UNCHANGED <<text, help>> /\ ActKeep
SubmitSearch       == Incidental /\ Submit
ReportSubmitSearch == ~Incidental /\ Submit

\* A press on a visible row; with the drawer open, on what of the table it leaves.
RowPress(n) ==
    /\ Hand /\ n \in Range(Visible)
    /\ Opens(n) /\ UNCHANGED <<text, focus, help>> /\ ActKeep

DrawerStep(delta) ==
    /\ Hand /\ Opened # 0
    /\ \E n \in Numbers : n = Neighbour(Visible, Opened, delta) /\ Opens(n)
    /\ UNCHANGED <<text, focus, help>> /\ ActKeep
\* The drawer's incident opens one it is linked to, listed or not.
DrawerLink(n) ==
    /\ Incidental /\ Hand /\ Opened # 0 /\ n # Opened
    /\ Opens(n) /\ UNCHANGED <<text, focus, help>> /\ ActKeep
DrawerClose ==
    /\ Hand /\ Opened # 0
    /\ Closes /\ UNCHANGED <<text, focus, help>> /\ ActKeep
DrawerNext  == Incidental /\ (DrawerClose \/ \E delta \in {1, -1} : DrawerStep(delta))
ReportDrawerNext == ~Incidental /\ (DrawerClose \/ \E delta \in {1, -1} : DrawerStep(delta))

\* Mutant: the page gets the URL's own state.
CarriedRaw == Base
\* The query of the table as it shows it.
Carried == Query
\* Enter on an open drawer and its "Full page": the query without the selection, marked "from".
OnFull ==
    /\ Opened # 0
    /\ top' = [number |-> Opened, carried |-> TRUE, help |-> FALSE,
                url |-> [ParamsOf(Carried) EXCEPT !.sel = 0, !.open = 0]]
    /\ Race
    /\ late' = (late \/ pref.reading # "done" \/ shown.fallback # FallbackState)
    /\ UNCHANGED <<shift, dataVars, prefVars, shown, dirty, effects, url, text, focus, help, mounted,
                   named, choice, drawer, lost>>
FullPage       == Incidental /\ Hand /\ Can("page") /\ OnFull
ReportFullPage == ~Incidental /\ Hand /\ Can("page") /\ OnFull

(***************************************************************************)
(* The keys (useKeyboardMap.ts)                                            *)
(***************************************************************************)
\* The keys of the table: it has the focus of the navigator, drawn or not.
Key     == OnTop /\ Can("keys") /\ Act
Bound   == Key /\ ~focus

KeySlash == Bound /\ shown.drawn /\ Can("search") /\ focus' = TRUE
            /\ UNCHANGED <<url, dirty, text, help, prefVars, named, choice, outran, drawer>> /\ ActKeep

KeyEsc ==
    /\ Key
    /\ \/ /\ focus
          /\ focus' = FALSE /\ UNCHANGED <<url, dirty, outran, named, choice, prefVars, drawer, help>>
       \/ /\ ~focus /\ help
          /\ help' = FALSE /\ UNCHANGED <<url, dirty, outran, named, choice, prefVars, drawer, focus>>
       \/ /\ ~focus /\ ~help /\ Query.open # 0
          /\ Closes /\ UNCHANGED <<focus, help>>
       \/ /\ ~focus /\ ~help /\ Query.open = 0 /\ Query.sel # 0
          /\ Selects(0) /\ UNCHANGED <<focus, help>>
       \/ /\ ~focus /\ ~help /\ Query.open = 0 /\ Query.sel = 0 /\ Query.q # ""
          /\ Patch([Base EXCEPT !.q = ""]) /\ UNCHANGED <<focus, help, drawer>>
    /\ UNCHANGED text /\ ActKeep

\* The row `delta` on from the selected one, within the table; from outside it, an end.
Walked(delta) ==
    LET i == Place(Visible, Query.sel)
    IN  IF i = 0 THEN (IF delta = 1 THEN 1 ELSE Len(Visible))
        ELSE IF i + delta \in DOMAIN Visible THEN i + delta ELSE i
Move(delta) ==
    /\ Visible # <<>>
    /\ \E n \in Numbers :
          n = Visible[Walked(delta)] /\ IF Query.open # 0 THEN Opens(n) ELSE Selects(n)
KeyWalk(delta) == Bound /\ Move(delta) /\ UNCHANGED <<text, focus, help>> /\ ActKeep
KeyJK(delta)       == Incidental /\ KeyWalk(delta)
ReportKeyJK(delta) == ~Incidental /\ KeyWalk(delta)

KeyReturn ==
    /\ Bound
    /\ \/ Query.open # 0 /\ Can("page") /\ OnFull
       \/ /\ Query.open = 0
          /\ IF Query.sel # 0 THEN Opens(Query.sel) ELSE Move(1)
          /\ UNCHANGED <<text, focus, help>> /\ ActKeep

KeyHelp == Bound /\ Can("help") /\ help' = ~help
           /\ UNCHANGED <<url, dirty, text, focus, prefVars, named, choice, outran, drawer>> /\ ActKeep

(***************************************************************************)
(* The page (IncidentPage.tsx, ReportPage.tsx)                             *)
(***************************************************************************)
PageQuery   == IF Incidental THEN ParseQuery(top.url, "open") ELSE ReportParseQuery(top.url)
PageVisible == IF top.carried THEN VisibleIn(Data, aged, PageQuery) ELSE <<>>

PageKeep == UNCHANGED <<shift, dataVars, prefVars, url, text, focus, help, tableHist>>

\* Prev, Next, j and k: in place, along the carried query.
PageGoTo(delta) ==
    /\ top.number # 0 /\ Act
    /\ \E n \in Numbers :
          n = Neighbour(PageVisible, top.number, delta) /\ top' = [top EXCEPT !.number = n]
    /\ UNCHANGED <<mounted, shown, dirty, effects>> /\ PageKeep
IncidentPageGoTo(delta) == Incidental /\ PageGoTo(delta)
ReportPageGoTo(delta)   == ~Incidental /\ PageGoTo(delta)

\* A new mount of the table: nothing is rendered yet, the stored state is read.
Mounts(link, data) ==
    /\ mounted' = TRUE /\ url' = link /\ dirty' = TRUE
    /\ effects' = [due |-> FALSE, box |-> FALSE]
    /\ pref' = [stored |-> "none", reading |-> IF Incidental THEN LoadStatePreference ELSE "done"]
    /\ shown' = [url |-> link, aged |-> aged, fallback |-> Default, loaded |-> data, drawn |-> FALSE,
                 rows |-> [n \in Numbers |-> IF data THEN views[n] ELSE "none"]]
    /\ text' = "" /\ focus' = FALSE /\ help' = FALSE

\* Esc and the header's back: to the table beneath, or to a new one.
PageGoBack ==
    /\ top.number # 0 /\ Act /\ ~top.help
    /\ top' = NoPage
    /\ IF mounted THEN UNCHANGED <<mounted, shown, dirty, effects>> /\ PageKeep
       ELSE /\ Mounts(Bar, loaded)
            /\ UNCHANGED <<shift, dataVars, saved, tableHist>>
IncidentPageGoBack == Incidental /\ PageGoBack
ReportPageGoBack   == ~Incidental /\ PageGoBack

PageHelp ==
    /\ top.number # 0 /\ Act /\ Can("help")
    /\ top' = [top EXCEPT !.help = ~@]
    /\ UNCHANGED <<mounted, shown, dirty, effects>> /\ PageKeep

(***************************************************************************)
(* The device, the rows and the clock                                      *)
(***************************************************************************)
\* The stored state arrives; it takes the place of one chosen in the meantime.
StatePreferenceLoaded ==
    /\ mounted /\ pref.reading # "done"
    /\ pref' = [stored |-> pref.reading, reading |-> "done"]
    /\ dirty' = TRUE
    /\ late' = (late \/ (choice # "none" /\ url.tab = "none"
                         /\ choice # (IF pref.reading = "none" THEN Default ELSE pref.reading)))
    /\ UNCHANGED <<shift, dataVars, viewVars, saved, shown, effects, left, named, choice, outran, drawer, lost>>

\* The visitor loads the same URL again.
ReloadTable ==
    /\ OnTop /\ Can("reload") /\ Act
    /\ Mounts(url, FALSE)
    /\ loaded' = FALSE /\ failed' = FALSE
    /\ choice' = IF choice = (IF url.tab = "none" THEN saved ELSE url.tab) THEN choice ELSE "none"
    /\ late' = FALSE /\ outran' = FALSE /\ drawer' = url.open
    /\ UNCHANGED <<shift, views, aged, saved, top, named, lost>>

Missing == {n \in Numbers : views[n] = "none"}
RowsKeep == UNCHANGED <<shift, aged, viewVars, prefVars, shown, effects, named, choice, late, outran, drawer>>
RowsLoaded ==
    /\ ~loaded \/ failed
    /\ loaded' = TRUE /\ failed' = FALSE /\ dirty' = mounted /\ lost' = lost \cup Missing
    /\ UNCHANGED <<views, left>> /\ RowsKeep
Change == left.changes > 0 /\ left' = [left EXCEPT !.changes = @ - 1]
RowsFailed ==
    /\ Change /\ Can("outage") /\ ~failed
    /\ failed' = TRUE /\ dirty' = mounted
    /\ UNCHANGED <<views, loaded, lost>> /\ RowsKeep
\* The live hub patches a row: edited by somebody, gone private, or new.
RowPatched(n, s) ==
    /\ Change /\ loaded /\ s # views[n]
    /\ views' = [views EXCEPT ![n] = s] /\ dirty' = mounted
    /\ lost' = IF s = "none" THEN lost \cup {n} ELSE lost
    /\ UNCHANGED <<loaded, failed>> /\ RowsKeep
MinuteClock(n) ==
    /\ Change /\ Can("filter") /\ n \notin aged
    /\ aged' = aged \cup {n} /\ dirty' = mounted
    /\ UNCHANGED <<shift, views, loaded, failed, viewVars, prefVars, shown, effects, tableHist>>

(***************************************************************************)
(* The specification                                                       *)
(***************************************************************************)
TableInit ==
    /\ shift \in Shifts
    /\ views = shift.rows /\ loaded = FALSE /\ failed = FALSE /\ aged = {}
    /\ url = shift.url /\ text = "" /\ focus = FALSE /\ help = FALSE
    /\ mounted = (shift.page = 0)
    /\ top = [NoPage EXCEPT !.number = shift.page]
    /\ saved = shift.saved
    /\ pref = [stored |-> "none", reading |-> IF Incidental THEN LoadStatePreference ELSE "done"]
    /\ shown = [Snapshot EXCEPT !.fallback = Default]
    /\ dirty = mounted /\ effects = [due |-> FALSE, box |-> FALSE]
    /\ left = [acts |-> shift.acts, changes |-> shift.changes]
    /\ named = {url.tab} /\ choice = "none" /\ late = FALSE /\ outran = FALSE
    /\ drawer = url.open /\ lost = {}

BarNext ==
    \/ \E t \in States : SetState(t) \/ SetLink(t)
    \/ Clear \/ ReportClear
    \/ \E f \in Filters : ToggleFilter(f)
    \/ \E key \in {"number", "column"} : OnSort(key) \/ ReportOnSort(key)
    \/ \E s \in Searches : IncidentSearch(s) \/ ReportSearch(s)
    \/ SubmitSearch \/ ReportSubmitSearch
DrawersNext ==
    \/ \E n \in Numbers : RowPress(n) \/ DrawerLink(n)
    \/ DrawerNext \/ ReportDrawerNext \/ FullPage \/ ReportFullPage
KeysNext ==
    \/ KeySlash \/ KeyEsc \/ KeyReturn \/ KeyHelp
    \/ \E delta \in {1, -1} : KeyJK(delta) \/ ReportKeyJK(delta)
PageNext ==
    \/ \E delta \in {1, -1} : IncidentPageGoTo(delta) \/ ReportPageGoTo(delta)
    \/ IncidentPageGoBack \/ ReportPageGoBack \/ PageHelp
DataNext ==
    \/ StatePreferenceLoaded \/ ReloadTable \/ RowsLoaded \/ RowsFailed
    \/ \E n \in Numbers : MinuteClock(n) \/ \E s \in {Default, Other, "none"} : RowPatched(n, s)

TableNext == Render \/ RunEffects \/ BarNext \/ DrawersNext \/ KeysNext \/ PageNext \/ DataNext

TableSpec == TableInit /\ [][TableNext]_tableVars

(***************************************************************************)
(* Properties                                                              *)
(***************************************************************************)
Settled == mounted /\ ~dirty /\ ~effects.due

TableTypeOK ==
    LET Url == UrlsWith(States \cup {"none"}) IN
    /\ views \in [Numbers -> {Default, Other, "none"}] /\ aged \cup lost \subseteq Numbers
    /\ url \in Url /\ text \in Searches
    /\ shown.fallback \in States
    /\ pref.stored \in States \cup {"none"} /\ pref.reading \in States \cup {"none", "done"}
    /\ top.number \in Num /\ top.url \in Url
    /\ {loaded, failed, dirty, focus, help, mounted, late, outran} \subseteq BOOLEAN
    /\ named \subseteq States \cup {"none"} /\ choice \in States \cup {"none"} /\ drawer \in Num

(* No URL names a state that neither the link named nor the visitor chose: *)
(* the stored preference, which the view falls back to, gets into no link  *)
(* through the handlers of the table (useDispatchQuery.ts, setQuery and    *)
(* rawState).  Excepted, against what the header of useDispatchQuery.ts    *)
(* says, is the page that "Full page" pushes: DispatchScreen.tsx, onFull,  *)
(* gives it the query of the render, with the stored state in it.          *)
PreferenceStaysLocal ==
    /\ url.tab \in named \cup {"none"}
    /\ top.url.tab \in named \cup {"none"} \/ (top.carried /\ top.url.tab = shift.saved)

(* Without the exception; the code does not keep it: see README.           *)
PreferenceNeverInLinks == {url.tab, top.url.tab} \subseteq named \cup {"none"}

(* Once everything is rendered, the table shows the state the visitor      *)
(* chose last, whatever the URL can say of it, what is stored and what was *)
(* reloaded (useDispatchQuery.ts, setQuery and the fallback).  Excepted,   *)
(* and shown otherwise by the code: the stored state arrives after the     *)
(* choice, and a change made from a render that did not show the choice.   *)
ChoiceShown ==
    Settled /\ choice # "none" /\ pref.reading = "done" /\ ~late /\ ~outran => Query.tab = choice

(* Once everything is rendered, the drawer is the one last opened, by a    *)
(* link or by hand, and not closed, unless its row went away or is not     *)
(* listed; an open drawer has a row once the rows are there, and it is the *)
(* selected one; the search box shows what is searched for                 *)
(* (useDispatchQuery.ts, the normalising effect; FilterBar.tsx, Search).   *)
(* Excepted from the last and the first: a handler that worked on a URL    *)
(* that had changed since its render.  (And the state keeps its types.)    *)
ViewFollows ==
    /\ TableTypeOK
    /\ Settled =>
        /\ Query.open # 0 => Query.sel = Query.open /\ (shown.loaded => Present(Query.open))
        /\ ~outran => Query.open = drawer \/ (Query.open = 0 /\ drawer \in lost)
        /\ ~outran /\ shown.drawn => text = Query.q

(* The page pushed from the table walks the rows the table shows, in its   *)
(* order, whether the table's state came from the URL or from the stored   *)
(* preference (DispatchScreen.tsx, onFull; IncidentPage.tsx).  Excepted: a *)
(* push before the stored state was read, or from a render out of date.    *)
PageWalksTable ==
    Settled /\ top.carried /\ ~late /\ ~outran => PageVisible = Visible
=============================================================================
