---------------------------- MODULE RecordEditor ----------------------------
(***************************************************************************)
(* The record editors of the client: the incident screen with its rows     *)
(* (IncidentScreen, useEditIncident) and the report screen (ReportScreen,  *)
(* useEditReport).  One user walks between records of one kind; every row  *)
(* saves itself: the chosen value is written into the cached record at     *)
(* once, sent, and put back when the save fails; afterwards the record is  *)
(* read again.  Saves overlap with each other and with reads that pokes    *)
(* and pulls start.  A text row (SavingField) holds what is typed until    *)
(* its save has settled.  What other users change reaches the screen by    *)
(* the same reads; LiveHub is about those.                                 *)
(***************************************************************************)
EXTENDS Integers, FiniteSets

CONSTANTS Records,     \* the incidents, or the reports, the user walks through
          Keyed,       \* the screen is remounted for each record
          Fields,      \* the rows of this instance
          Text,        \* the text row among them
          Texts, Malformed,   \* what can be typed; what validate rejects
          Rights,      \* the rights of the user on these records
          Choices, Members, Persons, Involvements,
          MaxWrites    \* bound: saves

(* The rows of the two screens.  Every other row is a choice.              *)
TextRows == {"summary", "started", "description", "booth"}
ListRows == {"types", "links", "reports"}
IncidentRows == TextRows \cup ListRows
                  \cup {"state", "priority", "private", "outcome", "area", "people",
                         "strike"}
ReportRows == {"summary", "incident", "strike"}

(* A person's row on an incident: involvement and grant travel together.   *)
Person == [involvement : Involvements, granted : BOOLEAN]
NoPerson == [involvement |-> "none", granted |-> FALSE]
None == "none"

Values(f) == CASE f \in TextRows -> Texts
               [] f \in ListRows -> SUBSET Members
               [] f = "people" -> [Persons -> Person \cup {NoPerson}]
               [] f = "state" -> {"open", "closed"}
               [] f = "priority" -> {"low", "normal", "high"}
               [] f \in {"private", "strike"} -> BOOLEAN
               [] OTHER -> Choices \cup {None}

NoDraft == "no draft"

ASSUME EditorAssumption ==
  /\ Records # {} /\ Keyed \in BOOLEAN
  /\ Fields \subseteq IncidentRows \/ Fields \subseteq ReportRows
  /\ Text \in Fields \cap TextRows
  /\ Malformed \subseteq Texts /\ Texts # Malformed /\ NoDraft \notin Texts
  /\ MaxWrites \in Nat

VARIABLES
  srv,                \* the records on the server
  cache, loaded,      \* the cached answers and which records have one
  failed,             \* records whose last read failed (query.error)
  invalid,            \* records marked isInvalidated
  read, answer,       \* the read of the record on screen and what it brings
  writes, begun,      \* run(...) calls that have not returned; saves begun
  screen,             \* the record on screen
  local,              \* what is typed in the open text row
  home                \* the record the text was typed on (history)

queryVars == <<cache, loaded, failed, invalid, read, answer>>
saveVars == <<writes, begun>>
viewVars == <<screen, local, home>>
vars == <<srv, queryVars, saveVars, viewVars>>

Blank == [f \in Fields |-> CHOOSE v \in Values(f) :
                             CASE f \in TextRows -> v \notin Malformed
                               [] f \in ListRows -> v = {}
                               [] f = "people" -> \A p \in Persons : v[p] = NoPerson
                               [] OTHER -> v \in {FALSE, None, "open", "normal"}]

Init ==
  /\ srv = [r \in Records |-> Blank]
  /\ cache = [r \in Records |-> Blank] /\ loaded = {}
  /\ failed = {} /\ invalid = {}
  /\ screen = CHOOSE r \in Records : TRUE
  /\ read = "sent" /\ answer = Blank
  /\ writes = {} /\ begun = 0
  /\ local = NoDraft /\ home = screen

(* renderBody: the rows are there when the record is, and its last read    *)
(* did not fail.                                                           *)
Body(r) == r \in loaded /\ r \notin failed
Shown(f) == cache[screen][f]

(* The gates: writeIncidents for an incident's rows, the private switch    *)
(* for its creator and admins too; a report's rows each have their own.    *)
MayStrike == "writeIncidents" \in Rights
MayIncident(f) == CASE f = "private" -> {"writeIncidents", "togglePrivate"} \subseteq Rights
                    [] f = "strike" -> MayStrike
                    [] OTHER -> "writeIncidents" \in Rights
MayReport(f) == CASE f = "summary" -> "editSummary" \in Rights
                  [] f = "incident" -> "writeReports" \in Rights
                  [] f = "strike" -> Rights \cap {"ownEntry", "writeIncidents"} # {}
May(f) == IF Fields \subseteq ReportRows THEN MayReport(f) ELSE MayIncident(f)

(* saving.current of the mounted text row.                                 *)
Saving == \E w \in writes : w.mine

---------------------------------------------------------------------------
(* Reads.                                                                  *)

(* The one read, of the record on screen, is sent again or is over; a read *)
(* that nobody observes any more is cancelled.                             *)
Reading(stage) == read' = stage /\ answer' = Blank

(* Whoever awaited the read of r goes on.                                  *)
Released(W, r) == {IF w.rec = r THEN [w EXCEPT !.waits = FALSE] ELSE w : w \in W}
Overtaken(W, r) == {IF w.rec = r THEN [w EXCEPT !.overtaken = TRUE] ELSE w : w \in W}
Orphaned(W) == {[w EXCEPT !.mine = FALSE] : w \in W}

(* The text row goes with its screen.                                      *)
Unmount == local' = NoDraft /\ UNCHANGED home

(* A poke, a pull to refresh or a retry.                                   *)
Refetch ==
  /\ screen \in loaded \/ read = "idle"
  /\ Reading("sent")
  /\ writes' = Overtaken(Released(writes, screen), screen)
  /\ UNCHANGED <<srv, cache, loaded, failed, invalid, begun,
                 viewVars>>

Answer ==
  /\ read = "sent"
  /\ read' = "read" /\ answer' = srv[screen]
  /\ UNCHANGED <<srv, cache, loaded, failed, invalid,
                 saveVars, viewVars>>

Arrive ==
  /\ read = "read"
  /\ cache' = [cache EXCEPT ![screen] = answer]
  /\ loaded' = loaded \cup {screen}
  /\ failed' = failed \ {screen} /\ invalid' = invalid \ {screen}
  /\ Reading("idle")
  /\ writes' = Released(writes, screen)
  /\ UNCHANGED <<srv, begun, viewVars>>

(* The error takes the whole body's place, its open row included.          *)
ReadFails ==
  /\ read # "idle"
  /\ failed' = failed \cup {screen}
  /\ Reading("idle")
  /\ writes' = Orphaned(Released(writes, screen))
  /\ Unmount
  /\ UNCHANGED <<srv, cache, loaded, invalid, begun,
                 screen>>

---------------------------------------------------------------------------
(* run: the dance of every save.                                           *)

Save(f, v, who, isText) ==
  [id |-> begun + 1, rec |-> screen, field |-> f, value |-> v, before |-> Shown(f),
   who |-> who, stage |-> "sent", applied |-> FALSE, waits |-> FALSE,
   mine |-> isText, home |-> IF isText THEN home ELSE screen,
   overtaken |-> FALSE]

(* A save begun while a read is on its way.                                *)
BeginBesideRead(f, v, who, isText) ==
  /\ begun < MaxWrites
  /\ writes' = Overtaken({w \in writes : w.field = f}, screen)
                 \cup {w \in writes : w.field # f} \cup {Save(f, v, who, isText)}
  /\ begun' = begun + 1
  /\ cache' = [cache EXCEPT ![screen][f] = v]
  /\ UNCHANGED <<srv, loaded, failed, invalid, screen>>
  /\ UNCHANGED <<read, answer>>

(* Reads of the record are cancelled, the row's value is remembered and    *)
(* replaced, the request goes out.                                         *)
Begin(f, v, who, isText) ==
  /\ begun < MaxWrites
  /\ writes' = Released(Overtaken({w \in writes : w.field = f}, screen)
                          \cup {w \in writes : w.field # f}, screen)
                 \cup {Save(f, v, who, isText)}
  /\ begun' = begun + 1
  /\ cache' = [cache EXCEPT ![screen][f] = v]
  /\ Reading("idle")
  /\ UNCHANGED <<srv, loaded, failed, invalid, screen>>

(* The server commits a save; of the people only the row named.            *)
Commit(w) ==
  /\ w.stage = "sent" /\ ~w.applied
  /\ srv' = [srv EXCEPT ![w.rec][w.field] =
               IF w.field = "people" THEN [@ EXCEPT ![w.who] = w.value[w.who]]
                                     ELSE w.value]
  /\ writes' = (writes \ {w}) \cup {[w EXCEPT !.applied = TRUE]}
  /\ UNCHANGED <<queryVars, begun, viewVars>>

(* invalidateQueries: marked, and read again if it is on screen.           *)
Invalidate(r) ==
  /\ invalid' = invalid \cup {r}
  /\ IF r = screen THEN Reading("sent") ELSE UNCHANGED <<read, answer>>

Settled(w, stage) == [w EXCEPT !.stage = stage, !.waits = (w.rec = screen)]
After(w) == Overtaken(Released(writes \ {w}, w.rec), w.rec)

SaveSucceeds(w) ==
  /\ w.stage = "sent" /\ w.applied
  /\ Invalidate(w.rec)
  /\ writes' = After(w) \cup {Settled(w, "ok")}
  /\ UNCHANGED <<srv, cache, loaded, failed, begun, viewVars>>

(* A failed save that is not followed by a read.                           *)
SaveFailsUnread(w) ==
  /\ w.stage = "sent"
  /\ cache' = [cache EXCEPT ![w.rec][w.field] = w.before]
  /\ writes' = After(w) \cup {[Settled(w, "failed") EXCEPT !.waits = FALSE]}
  /\ UNCHANGED <<srv, loaded, failed, invalid, read, answer,
                 begun, viewVars>>

(* Refused, or the answer lost after the commit: the row is put back.      *)
SaveFails(w) ==
  /\ w.stage = "sent"
  /\ cache' = [cache EXCEPT ![w.rec][w.field] = w.before]
  /\ Invalidate(w.rec)
  /\ writes' = After(w) \cup {Settled(w, "failed")}
  /\ UNCHANGED <<srv, loaded, failed, begun, viewVars>>

(* The promise of the save resolves only for a save that succeeded.        *)
ReturnsIfOk(w) ==
  /\ w.stage = "ok" /\ ~w.waits
  /\ writes' = writes \ {w}
  /\ IF w.mine THEN Unmount
               ELSE UNCHANGED <<local, home>>
  /\ UNCHANGED <<srv, queryVars, begun, screen>>

(* The text row drops what is typed whatever came of the save.             *)
ReturnsAndDrops(w) ==
  /\ w.stage \in {"ok", "failed"} /\ ~w.waits
  /\ writes' = writes \ {w}
  /\ IF w.mine THEN Unmount
               ELSE UNCHANGED <<local, home>>
  /\ UNCHANGED <<srv, queryVars, begun, screen>>

(* run returns once the read that it asked for has ended: the text row     *)
(* closes after a success and stays open, with its text, after a failure.  *)
Returns(w) ==
  /\ w.stage \in {"ok", "failed"} /\ ~w.waits
  /\ writes' = writes \ {w}
  /\ IF w.mine /\ w.stage = "ok" THEN Unmount
                                 ELSE UNCHANGED <<local, home>>
  /\ UNCHANGED <<srv, queryVars, begun, screen>>

---------------------------------------------------------------------------
(* The rows.                                                               *)

(* The row is opened, if it was not, and typed in.                         *)
Type(t) ==
  /\ Body(screen) /\ May(Text)
  /\ local' = t /\ home' = screen
  /\ UNCHANGED <<srv, queryVars, saveVars, screen>>

RowOpen == local # NoDraft
WellFormed(t) == Text = "started" => t \notin Malformed
Unchanged == local = Shown(Text)

(* commit of an unchanged text: the row closes.                            *)
CommitUnchanged ==
  /\ Body(screen) /\ RowOpen /\ ~Saving /\ Unchanged
  /\ Unmount
  /\ UNCHANGED <<srv, queryVars, saveVars, screen>>

CommitText ==
  /\ Body(screen) /\ RowOpen /\ ~Saving /\ ~Unchanged
  /\ WellFormed(local)
  /\ Begin(Text, local, "all", TRUE)
  /\ UNCHANGED <<local, home>>

(* A segment that is the value shown is not sent...                        *)
OfferSegment(f) == Values(f) \ {Shown(f)}
(* ...a switch turns, the chip shown clears...                             *)
OfferSwitch(f) == {~Shown(f)}
OfferStrike(f) == {~Shown(f)}
OfferOutcome(f) == {IF v = Shown(f) THEN None ELSE v : v \in Choices}
OfferArea(f) == Choices \cup {None}
(* ...and a report is linked only where it is not, and detached where it   *)
(* is.                                                                     *)
OfferLink(f) == IF Shown(f) = None THEN Choices ELSE {None}

(* Lists are sent whole: the list shown with one member more or less.      *)
WithMember(f, m) == Shown(f) \cup {m}
WithoutMember(f, m) == Shown(f) \ {m}
OfferList(f) == {WithMember(f, m) : m \in Members}
                  \cup {WithoutMember(f, m) : m \in Shown(f)}

(* A person is attached, the involvement or the grant of the row shown is  *)
(* changed and the row sent whole, or the person is detached.              *)
OfferPerson(p) ==
  LET old == Shown("people")[p]
  IN IF old = NoPerson
       THEN {row \in Person : ~row.granted}
       ELSE {NoPerson} \cup {row \in Person : row.involvement = old.involvement
                                              \/ row.granted = old.granted}
PeopleWith(p, row) == [Shown("people") EXCEPT ![p] = row]

(* What the control of a row may ask for: the value, and whose row it is.  *)
Offers(f) ==
  IF f = "people"
    THEN UNION {{<<PeopleWith(p, row), p>> : row \in OfferPerson(p)} : p \in Persons}
    ELSE (CASE f \in ListRows -> OfferList(f)
            [] f \in {"state", "priority"} -> OfferSegment(f)
            [] f = "private" -> OfferSwitch(f)
            [] f = "strike" -> OfferStrike(f)
            [] f = "outcome" -> OfferOutcome(f)
            [] f = "area" -> OfferArea(f)
            [] f = "incident" -> OfferLink(f)) \X {"all"}

PressRow(f) ==
  /\ Body(screen) /\ f \in Fields \ TextRows /\ May(f)
  /\ \E ask \in Offers(f) : Begin(f, ask[1], ask[2], FALSE)
  /\ UNCHANGED <<local, home>>

(* A screen that is not remounted for the next record.                     *)
RemountsUnkeyed(r) == ~Body(r)

(* The rows and what is typed in them go when the screen is keyed by the   *)
(* record, or when the next record is not there yet.                       *)
Remounts(r) == Keyed \/ ~Body(r)

(* Prev, Next or a link.  The next record is read on mount unless its      *)
(* answer is young and not invalidated.                                    *)
Go(r, stage) ==
  /\ r # screen
  /\ stage = "idle" => r \in loaded \ (invalid \cup failed)
  /\ screen' = r
  /\ Reading(stage)
  /\ LET W == Overtaken(Released(writes, screen), r)
     IN IF Remounts(r) THEN writes' = Orphaned(W) /\ Unmount
                       ELSE writes' = W /\ UNCHANGED <<local, home>>
  /\ UNCHANGED <<srv, cache, loaded, failed, invalid, begun>>

---------------------------------------------------------------------------

Rowing ==
  \/ CommitUnchanged  \/ CommitText
  \/ \E t \in Texts : Type(t)
  \/ \E f \in Fields : PressRow(f)

Next ==
  \/ Rowing
  \/ Refetch \/ Answer \/ Arrive \/ ReadFails
  \/ \E r \in Records, stage \in {"idle", "sent"} : Go(r, stage)
  \/ \E w \in writes : Commit(w) \/ SaveSucceeds(w) \/ SaveFails(w) \/ Returns(w)

Spec == Init /\ [][Next]_vars

(* A request and a read end, one way or the other, and what awaited them   *)
(* goes on; nothing is assumed of the user or of pokes.                    *)
FairSpec ==
  /\ Spec
  /\ WF_vars(\E w \in writes : Commit(w) \/ SaveSucceeds(w) \/ SaveFails(w))
  /\ WF_vars(\E w \in writes : Returns(w))
  /\ WF_vars(Answer \/ Arrive \/ ReadFails)

---------------------------------------------------------------------------

IsRecord(x) == DOMAIN x = Fields /\ \A f \in Fields : x[f] \in Values(f)

TypeOK ==
  /\ \A r \in Records : IsRecord(srv[r]) /\ IsRecord(cache[r])
  /\ loaded \cup failed \cup invalid \subseteq Records
  /\ read \in {"idle", "sent", "read"} /\ IsRecord(answer)
  /\ begun \in 0 .. MaxWrites
  /\ \A w \in writes : /\ w.id \in 1 .. begun /\ w.rec \in Records /\ w.field \in Fields
                       /\ {w.value, w.before} \subseteq Values(w.field)
                       /\ w.stage \in {"sent", "ok", "failed"}
  /\ {screen, home} \subseteq Records /\ local \in Texts \cup {NoDraft}

(* Once no save of the record is out and no read is on its way, its rows   *)
(* show what the server has: run puts back values that an overlapping save *)
(* remembered, and an answer may be lost after the commit; the read it     *)
(* asks for afterwards has to repair both on every path.  (And the state   *)
(* keeps its types.)                                                       *)
QuietShowsServer ==
  /\ TypeOK
  /\ (/\ Body(screen) /\ read = "idle"
      /\ \A w \in writes : w.rec = screen => w.stage # "sent")
     => cache[screen] = srv[screen]

(* A read that was on its way when a row was changed never undoes the      *)
(* change on screen: run cancels it first.                                 *)
ChoiceStands ==
  \A w \in writes :
    w.stage = "sent" /\ ~w.overtaken => cache[w.rec][w.field] = w.value

(* A text is saved to the record it was typed on: the key on               *)
(* IncidentDetail and on the drawer's ReportScreen.                        *)
SavedWhereTyped == \A w \in writes : w.home = w.rec

(* While the user stays on the record, typed text is dropped only when it  *)
(* has been saved or is what the row shows anyway, but for two cases: the  *)
(* text changed while a save was out (SavingField drops it when that save  *)
(* returns), and a read failed (the error replaces the rows).              *)
TypedTextKept ==
  [][local # NoDraft /\ local' = NoDraft /\ screen' = screen
     => \/ Unchanged
        \/ \E w \in writes \ writes' : w.mine /\ w.stage = "ok"
        \/ failed' # failed]_vars

(* The same without the second case: no read, and no failure of one, drops *)
(* a text that is not saved.                                               *)
PokeKeepsText ==
  [][local # NoDraft /\ local' = NoDraft /\ screen' = screen
     => \/ Unchanged
        \/ \E w \in writes \ writes' : w.mine /\ w.stage = "ok"]_vars

(* A text row that saves becomes free again: commit returns early while    *)
(* saving.current is set, so a save that never returned would block it.    *)
SaveReturns == Saving ~> ~Saving
=============================================================================
