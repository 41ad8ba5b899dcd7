--------------------------- MODULE Screens_proofs ---------------------------
(***************************************************************************)
(* Proofs about the screens that list: the roster with its hovercard and   *)
(* drag (Roster, Ladder) and the tables of incidents and reports           *)
(* (Dispatch).                                                             *)
(***************************************************************************)
EXTENDS Ladder, Dispatch, TLAPS

(***************************************************************************)
(* The roster: types.                                                      *)
(***************************************************************************)
ListRow(n) == [rung : Columns \cup {"none", "gone"}, band : Bands, crew : BOOLEAN, at : 0 .. n]

Request(n) ==
  [kind : {"role", "crew", "create"}, p : People, rung : Columns \cup {"gone", "in", "out"},
   before : ListRow(n), new : BOOLEAN,
   stage : {"sent", "accepted", "refused", "settling", "failing", "done"},
   live : SUBSET {"body", "form", "submit"}]

BookTypes == /\ scene \in Scenes /\ spent \in [others : Nat, faults : Nat]
             /\ book \in Seq([People -> Row]) /\ Len(book) \in Nat \ {0}
ListTypes == /\ list \in {None} \cup [People -> ListRow(Now)]
             /\ read \in {None} \cup 1 .. Now
             /\ listErr \in {"none", "failed", "denied"}
WriteTypes == /\ rows \in [People -> [pending : BOOLEAN, error : BOOLEAN]]
              /\ writes \in Seq(Request(Now)) /\ Len(writes) <= scene.writes
              /\ \A i \in DOMAIN writes :
                   writes[i].kind \in {"role", "create"} => writes[i].rung \in Columns \cup {"gone"}
FormTypes == /\ panel \in {None, "addPerson", "myCrews"}
             /\ form # None => panel = "addPerson"
             /\ \A i \in DOMAIN writes : "form" \in writes[i].live => panel = "addPerson"
HistoryTypes == /\ ours \in 1 .. Now /\ dropped \in BOOLEAN
                /\ given \in [People -> 1 .. Now] /\ raced \in SUBSET People

RosterTypes == BookTypes /\ ListTypes /\ WriteTypes /\ FormTypes /\ HistoryTypes

(* What a step of the screen does to the roster.                           *)
RosterWrites == \E p \in People, rung \in Columns \cup {"gone"}, new \in BOOLEAN : WriteRole(p, rung, new)
RosterReads == ReadLands \/ Retry \/ Refocus \/ \E how \in {"failed", "denied"} : ReadFails(how)
RosterPanels ==
  \/ ClosePanel \/ SearchAgain \/ CreateNew \/ AddAnother \/ BackToSearch
  \/ \E which \in {"addPerson", "myCrews"} : OpenPanel(which)
RosterSends ==
  \/ \E p \in People, rung \in Columns : Create(p, rung)
  \/ \E p \in People, member \in BOOLEAN : CrewWrite(p, member)
RosterStep ==
  \/ RosterWrites \/ RosterReads \/ RosterPanels \/ RosterSends \/ ServerNext
  \/ UNCHANGED rosterVars

(* The rows and requests of a version are rows and requests of any later.  *)
LEMMA RowsOfVersions ==
  ASSUME NEW m \in Nat, NEW n \in Nat, m <= n
  PROVE  ListRow(m) \subseteq ListRow(n) /\ Request(m) \subseteq Request(n) /\ 1 .. m \subseteq 1 .. n
BY DEF ListRow, Request

(* So is the row of who is not on the list.                                *)
LEMMA OffTyped == ASSUME NEW n \in Nat PROVE Off \in ListRow(n)
BY DEF Off, ListRow, Bands

(* A row of the server's roster as the list shows it.                      *)
LEMMA ListedTyped ==
  ASSUME BookTypes, NEW v \in 1 .. Now
  PROVE  Listed(v) \in [People -> ListRow(Now)]
<1>1. SUFFICES ASSUME NEW p \in People PROVE Listed(v)[p] \in ListRow(Now)
  BY DEF Listed
<1>2. book[v] \in [People -> Row] /\ Now \in Nat
  BY DEF BookTypes, Now
<1>3. book[v][p] \in Row
  BY <1>2
<1>4. Listed(v)[p] = IF book[v][p].rung \in OffList THEN Off
                     ELSE [rung |-> book[v][p].rung, band |-> book[v][p].band, crew |-> book[v][p].crew, at |-> v]
  BY DEF Listed
<1>5. v \in 0 .. Now
  BY <1>2
<1>6. /\ book[v][p].band \in Bands /\ book[v][p].crew \in BOOLEAN
      /\ book[v][p].rung \notin OffList => book[v][p].rung \in Columns \cup {"none", "gone"}
  BY <1>3 DEF Row, OffLadder, OffList
<1>7. CASE book[v][p].rung \in OffList
  BY <1>2, <1>4, <1>7, OffTyped
<1>8. CASE book[v][p].rung \notin OffList
  BY <1>4, <1>5, <1>6, <1>8 DEF ListRow
<1> QED BY <1>7, <1>8

(* The types hold at first, and are what the runs check.                   *)
LEMMA RosterInitTypes == RosterInit => RosterTypes
<1> SUFFICES ASSUME RosterInit PROVE RosterTypes
  OBVIOUS
<1>1. /\ scene \in Scenes /\ book = <<scene.start>> /\ scene.start \in [People -> Row]
      /\ writes = <<>> /\ scene.writes \in Nat
  BY RosterAssumption DEF RosterInit
<1>2. book \in Seq([People -> Row]) /\ Len(book) = 1 /\ Len(writes) = 0 /\ DOMAIN writes = {}
  BY <1>1
<1>3. Now = 1 /\ spent \in [others : Nat, faults : Nat]
  BY <1>2 DEF RosterInit, Now
<1>4. BookTypes /\ ListTypes
  BY <1>1, <1>2, <1>3 DEF RosterInit, BookTypes, ListTypes
<1>5. rows \in [People -> [pending : BOOLEAN, error : BOOLEAN]]
  BY DEF RosterInit
<1>6. WriteTypes /\ FormTypes
  BY <1>1, <1>2, <1>3, <1>5 DEF RosterInit, WriteTypes, FormTypes
<1>7. HistoryTypes
  <2>1. given = [p \in People |-> 1] /\ 1 \in 1 .. Now
    BY <1>3 DEF RosterInit
  <2>2. given \in [People -> 1 .. Now]
    BY <2>1
  <2>3. ours \in 1 .. Now /\ dropped \in BOOLEAN /\ raced \in SUBSET People
    BY <2>1 DEF RosterInit
  <2> QED BY <2>2, <2>3 DEF HistoryTypes
<1> QED BY <1>4, <1>6, <1>7 DEF RosterTypes

(* The types are those the runs check.                                     *)
LEMMA RosterTypesSuffice == RosterTypes => RosterTypeOK
<1> SUFFICES ASSUME RosterTypes PROVE RosterTypeOK
  OBVIOUS
<1>1. Now \in Nat \ {0} /\ Last(book) \in [People -> Row]
  BY DEF RosterTypes, BookTypes, Now, Last
<1>2. \A w \in Range(writes) : w \in Request(Now)
  BY DEF RosterTypes, WriteTypes, Range
<1> QED BY <1>1, <1>2 DEF RosterTypes, ListTypes, WriteTypes, FormTypes, HistoryTypes, RosterTypeOK,
                          ListRow, Request

(* A request is sent: it is one more, and the form hears it if there is    *)
(* one.                                                                    *)
LEMMA RequestSent ==
  ASSUME RosterTypes, MayWrite,
         NEW kind \in {"role", "crew", "create"}, NEW p \in People, NEW rung, NEW before \in ListRow(Now),
         NEW new \in BOOLEAN,
         IF kind = "crew" THEN rung \in {"in", "out"} ELSE rung \in Columns \cup {"gone"},
         writes' = Append(writes, Write(kind, p, rung, before, new))
  PROVE  /\ writes' \in Seq(Request(Now)) /\ Len(writes') <= scene.writes
         /\ \A i \in DOMAIN writes' :
              writes'[i].kind \in {"role", "create"} => writes'[i].rung \in Columns \cup {"gone"}
         /\ \A i \in DOMAIN writes' : "form" \in writes'[i].live => panel = "addPerson"
<1> DEFINE w == Write(kind, p, rung, before, new)
<1>1. /\ w \in Request(Now) /\ w.kind = kind /\ w.rung = rung
      /\ "form" \in w.live => panel = "addPerson"
  BY DEF Write, Request, RosterTypes, FormTypes
<1>2. Len(writes) < scene.writes /\ scene.writes \in Nat /\ writes \in Seq(Request(Now))
  BY RosterAssumption DEF RosterTypes, BookTypes, WriteTypes, MayWrite
<1> HIDE DEF w
<1>3. /\ writes' \in Seq(Request(Now)) /\ Len(writes') = Len(writes) + 1
      /\ \A i \in DOMAIN writes' : writes'[i] = IF i \in DOMAIN writes THEN writes[i] ELSE w
  BY <1>1, <1>2 DEF w
<1> QED BY <1>1, <1>2, <1>3 DEF RosterTypes, WriteTypes, FormTypes

(* What a request is after a step: of the new version, and as it was but   *)
(* for its stage and its hearers.                                          *)
Goes(w, v) == /\ v \in Request(Now') /\ v.kind = w.kind /\ v.p = w.p /\ v.rung = w.rung
              /\ v.before = w.before /\ v.new = w.new /\ v.live \subseteq w.live

(* A request that is out is a request of the roster's versions.            *)
LEMMA RequestTyped ==
  ASSUME RosterTypes, NEW i \in DOMAIN writes
  PROVE  writes[i] \in Request(Now)
BY DEF RosterTypes, WriteTypes

(* Requests go on: the types of all are kept.                              *)
LEMMA RequestsGoOn ==
  ASSUME RosterTypes, UNCHANGED scene, rows' \in [People -> [pending : BOOLEAN, error : BOOLEAN]],
         NEW f \in Seq(Request(Now')), Len(f) = Len(writes), writes' = f,
         \A i \in DOMAIN writes : Goes(writes[i], f[i])
  PROVE  /\ WriteTypes'
         /\ \A i \in DOMAIN writes' : "form" \in writes'[i].live => panel = "addPerson"
<1>1. DOMAIN f = DOMAIN writes /\ writes \in Seq(Request(Now))
  BY DEF RosterTypes, WriteTypes
<1>2. \A i \in DOMAIN f : f[i].kind \in {"role", "create"} => f[i].rung \in Columns \cup {"gone"}
  BY <1>1 DEF RosterTypes, WriteTypes, Goes
<1>3. \A i \in DOMAIN f : "form" \in f[i].live => panel = "addPerson"
  BY <1>1 DEF RosterTypes, FormTypes, Goes
<1> QED BY <1>1, <1>2, <1>3 DEF RosterTypes, WriteTypes

(* A request enters another stage.                                         *)
LEMMA StageSet ==
  ASSUME RosterTypes, Now' \in Nat, Now <= Now', NEW i \in DOMAIN writes,
         NEW stage \in {"sent", "accepted", "refused", "settling", "failing", "done"},
         writes' = [writes EXCEPT ![i].stage = stage]
  PROVE  /\ writes' \in Seq(Request(Now')) /\ Len(writes') = Len(writes)
         /\ \A j \in DOMAIN writes : Goes(writes[j], writes'[j])
<1>1. Request(Now) \subseteq Request(Now')
  BY RowsOfVersions DEF RosterTypes, BookTypes, Now
<1>2. writes \in Seq(Request(Now)) /\ writes[i] \in Request(Now)
  BY DEF RosterTypes, WriteTypes
<1>3. [writes[i] EXCEPT !.stage = stage] \in Request(Now)
  BY <1>2 DEF Request
<1>4. writes' = [writes EXCEPT ![i] = [writes[i] EXCEPT !.stage = stage]]
  OBVIOUS
<1>5. writes' \in Seq(Request(Now)) /\ Len(writes') = Len(writes) /\ DOMAIN writes' = DOMAIN writes
  BY <1>2, <1>3, <1>4
<1>6. ASSUME NEW j \in DOMAIN writes PROVE Goes(writes[j], writes'[j])
  <2>1. writes'[j] \in Request(Now) /\ writes[j] \in Request(Now)
    BY <1>2, <1>5
  <2>2. writes'[j] \in Request(Now')
    BY <1>1, <2>1
  <2>3. writes'[j] = IF j = i THEN [writes[j] EXCEPT !.stage = stage] ELSE writes[j]
    BY <1>2, <1>4
  <2> QED BY <2>1, <2>2, <2>3 DEF Goes, Request
<1>7. writes' \in Seq(Request(Now'))
  BY <1>1, <1>5
<1> QED BY <1>5, <1>6, <1>7

(* Some hearers of the requests are gone.                                  *)
LEMMA HearersGone ==
  ASSUME RosterTypes, UNCHANGED book, NEW deaf,
         NEW f, f = [i \in DOMAIN writes |-> [writes[i] EXCEPT !.live = @ \ deaf]]
  PROVE  /\ f \in Seq(Request(Now')) /\ Len(f) = Len(writes)
         /\ \A i \in DOMAIN writes : Goes(writes[i], f[i]) /\ f[i].stage = writes[i].stage
<1>1. Now' = Now /\ writes \in Seq(Request(Now)) /\ DOMAIN writes = 1 .. Len(writes) /\ Len(writes) \in Nat
  BY DEF RosterTypes, WriteTypes, Now
<1>2. ASSUME NEW i \in DOMAIN writes
      PROVE  f[i] \in Request(Now) /\ Goes(writes[i], f[i]) /\ f[i].stage = writes[i].stage
  <2>1. writes[i] \in Request(Now) /\ f[i] = [writes[i] EXCEPT !.live = @ \ deaf]
    BY <1>1
  <2>2. f[i] \in Request(Now)
    BY <2>1 DEF Request
  <2> QED BY <1>1, <2>1, <2>2 DEF Request, Goes
<1>3. f \in [1 .. Len(writes) -> Request(Now)]
  BY <1>1, <1>2
<1>4. f \in Seq(Request(Now)) /\ Len(f) = Len(writes)
  BY <1>1, <1>3
<1> QED BY <1>1, <1>2, <1>4

(* A role is written: the row is patched and the request sent, or nothing  *)
(* but the mark and the read.                                              *)
LEMMA WriteRoleTypes ==
  ASSUME RosterTypes, NEW p \in People, NEW rung \in Columns \cup {"gone"}, NEW new \in BOOLEAN,
         WriteRole(p, rung, new)
  PROVE  RosterTypes'
<1>1. list \in [People -> ListRow(Now)] /\ list[p] \in ListRow(Now)
  BY DEF WriteRole, MayWrite, BodyUp, RosterTypes, ListTypes
<1>2. rows' \in [People -> [pending : BOOLEAN, error : BOOLEAN]]
  <2>1. PICK pending \in BOOLEAN, error \in BOOLEAN :
          rows' = [rows EXCEPT ![p] = [pending |-> pending, error |-> error]]
    BY DEF WriteRole, Mark
  <2> QED BY <2>1 DEF RosterTypes, WriteTypes
<1>3. BookTypes' /\ Now' = Now /\ Now \in Nat
  BY DEF WriteRole, RosterTypes, BookTypes, Now
<1>4. FormTypes' /\ WriteTypes' /\ ListTypes'
  <2>1. CASE Unread(p, new)
    BY <1>2, <1>3, <2>1 DEF WriteRole, RosterTypes, FormTypes, WriteTypes, ListTypes
  <2>2. CASE ~Unread(p, new)
    <3>1. /\ writes' = Append(writes, Write("role", p, rung, list[p], new))
          /\ list' = IF OnList(p) THEN [list EXCEPT ![p].rung = rung] ELSE list
          /\ MayWrite /\ UNCHANGED <<scene, book, form, panel, listErr>> /\ read' = None
      BY <2>2 DEF WriteRole
    <3>2. [list[p] EXCEPT !.rung = rung] \in ListRow(Now)
      BY <1>1 DEF ListRow
    <3>3. list' \in [People -> ListRow(Now)]
      BY <1>1, <3>1, <3>2
    <3>4. ListTypes'
      BY <1>3, <3>1, <3>3 DEF RosterTypes, ListTypes
    <3>5. /\ writes' \in Seq(Request(Now)) /\ Len(writes') <= scene.writes
          /\ \A i \in DOMAIN writes' :
               writes'[i].kind \in {"role", "create"} => writes'[i].rung \in Columns \cup {"gone"}
          /\ \A i \in DOMAIN writes' : "form" \in writes'[i].live => panel = "addPerson"
      BY <1>1, <3>1, RequestSent
    <3> QED BY <1>2, <1>3, <3>1, <3>4, <3>5 DEF RosterTypes, WriteTypes, FormTypes
  <2> QED BY <2>1, <2>2
<1>5. HistoryTypes'
  BY <1>3 DEF WriteRole, RosterTypes, HistoryTypes
<1> QED BY <1>3, <1>4, <1>5 DEF RosterTypes

(* So is a change of a crew, and a person is created.                      *)
LEMMA SendTypes == ASSUME RosterTypes, RosterSends PROVE RosterTypes'
<1> USE RosterAssumption
<1>1. Off \in ListRow(Now)
  BY OffTyped DEF RosterTypes, BookTypes, Now
<1>2. ASSUME NEW p \in People, NEW rung \in Columns, Create(p, rung) PROVE RosterTypes'
  <2>1. /\ writes' = Append(writes, Write("create", p, rung, Off, FALSE)) /\ MayWrite
        /\ UNCHANGED <<scene, book, rows, list, read, listErr, panel, spent, history>>
        /\ panel = "addPerson"
    BY <1>2 DEF Create, RosterTypes, FormTypes
  <2>2. /\ writes' \in Seq(Request(Now)) /\ Len(writes') <= scene.writes
        /\ \A i \in DOMAIN writes' :
             writes'[i].kind \in {"role", "create"} => writes'[i].rung \in Columns \cup {"gone"}
        /\ \A i \in DOMAIN writes' : "form" \in writes'[i].live => panel = "addPerson"
    BY <1>1, <2>1, RequestSent
  <2>3. Now' = Now
    BY <2>1 DEF Now
  <2>4. BookTypes' /\ ListTypes' /\ HistoryTypes'
    BY <2>1, <2>3 DEF RosterTypes, BookTypes, ListTypes, HistoryTypes, history
  <2> QED BY <2>1, <2>2, <2>3, <2>4 DEF RosterTypes, WriteTypes, FormTypes
<1>3. ASSUME NEW p \in People, NEW member \in BOOLEAN, CrewWrite(p, member) PROVE RosterTypes'
  <2>1. /\ writes' = Append(writes, Write("crew", p, IF member THEN "in" ELSE "out", Off, FALSE)) /\ MayWrite
        /\ UNCHANGED <<scene, book, list, read, listErr, panel, form, spent, history>>
    BY <1>3 DEF CrewWrite
  <2>2. (IF member THEN "in" ELSE "out") \in {"in", "out"}
    OBVIOUS
  <2>3. /\ writes' \in Seq(Request(Now)) /\ Len(writes') <= scene.writes
        /\ \A i \in DOMAIN writes' :
             writes'[i].kind \in {"role", "create"} => writes'[i].rung \in Columns \cup {"gone"}
        /\ \A i \in DOMAIN writes' : "form" \in writes'[i].live => panel = "addPerson"
    BY <1>1, <2>1, <2>2, RequestSent
  <2>4. rows' \in [People -> [pending : BOOLEAN, error : BOOLEAN]]
    BY <1>3 DEF CrewWrite, Mark, RosterTypes, WriteTypes
  <2>5. Now' = Now
    BY <2>1 DEF Now
  <2> QED BY <2>1, <2>3, <2>4, <2>5
          DEF RosterTypes, BookTypes, ListTypes, WriteTypes, FormTypes, HistoryTypes, history
<1> QED BY <1>2, <1>3 DEF RosterSends

(* Reads keep the types; one that fails takes the body down.               *)
LEMMA ReadTypes == ASSUME RosterTypes, RosterReads PROVE RosterTypes'
<1>1. CASE ReadLands
  <2>1. PICK v \in read .. Now : list' = Listed(v)
    BY <1>1 DEF ReadLands
  <2>2. v \in 1 .. Now /\ Now' = Now
    BY <1>1, <2>1 DEF ReadLands, RosterTypes, BookTypes, ListTypes, Now
  <2>3. list' \in [People -> ListRow(Now)]
    BY <2>1, <2>2, ListedTyped DEF RosterTypes
  <2>4. BookTypes' /\ ListTypes' /\ HistoryTypes'
    BY <1>1, <2>2, <2>3
       DEF ReadLands, RosterTypes, BookTypes, ListTypes, HistoryTypes, history
  <2> QED BY <1>1, <2>2, <2>4 DEF ReadLands, RosterTypes, WriteTypes, FormTypes
<1>2. ASSUME Retry \/ Refocus PROVE RosterTypes'
  <2>1. /\ read' = Now /\ dropped' = FALSE
        /\ UNCHANGED <<scene, book, list, listErr, rows, writes, panel, form, createErr, spent, ours, given,
                       raced>>
    BY <1>2 DEF Retry, Refocus, Settle
  <2>2. Now' = Now /\ Now \in 1 .. Now
    BY <2>1 DEF Now, RosterTypes, BookTypes
  <2>3. BookTypes' /\ ListTypes' /\ HistoryTypes'
    BY <2>1, <2>2 DEF RosterTypes, BookTypes, ListTypes, HistoryTypes
  <2> QED BY <2>1, <2>2, <2>3 DEF RosterTypes, WriteTypes, FormTypes
<1>3. ASSUME NEW how \in {"failed", "denied"}, ReadFails(how) PROVE RosterTypes'
  <2>1. /\ writes' = [i \in DOMAIN writes |-> [writes[i] EXCEPT !.live = {}]]
        /\ panel' = None /\ form' = None /\ listErr' = how /\ read' = None
        /\ spent' = [spent EXCEPT !.faults = @ + 1]
        /\ UNCHANGED <<scene, book, list, history>>
    BY <1>3 DEF ReadFails, Unmount
  <2>2. rows' = [p \in People |-> [pending |-> FALSE, error |-> FALSE]]
    BY <1>3 DEF ReadFails, Unmount
  <2>3. rows' \in [People -> [pending : BOOLEAN, error : BOOLEAN]]
    BY <2>2
  <2>4. DOMAIN writes = 1 .. Len(writes) /\ Len(writes) \in Nat
    BY DEF RosterTypes, WriteTypes
  <2>5. ASSUME NEW i \in DOMAIN writes
        PROVE  /\ writes'[i] \in Request(Now) /\ writes'[i].live = {}
               /\ writes'[i].kind = writes[i].kind /\ writes'[i].rung = writes[i].rung
    <3>1. writes[i] \in Request(Now) /\ writes'[i] = [writes[i] EXCEPT !.live = {}]
      BY <2>1, <2>4, RequestTyped
    <3> QED BY <3>1 DEF Request
  <2>6. writes' \in [1 .. Len(writes) -> Request(Now)] /\ Now' = Now
    BY <2>1, <2>4, <2>5 DEF Now
  <2>7. writes' \in Seq(Request(Now)) /\ Len(writes') = Len(writes) /\ DOMAIN writes' = DOMAIN writes
    BY <2>4, <2>6
  <2>8. WriteTypes'
    BY <2>1, <2>3, <2>5, <2>6, <2>7 DEF RosterTypes, WriteTypes
  <2>9. FormTypes'
    BY <2>1, <2>5, <2>7 DEF RosterTypes, FormTypes
  <2>10. BookTypes' /\ ListTypes' /\ HistoryTypes'
    BY <2>1, <2>6 DEF RosterTypes, BookTypes, ListTypes, HistoryTypes, history
  <2> QED BY <2>8, <2>9, <2>10 DEF RosterTypes
<1> QED BY <1>1, <1>2, <1>3 DEF RosterReads

(* The panel and its form keep the types; who is closed hears nothing.     *)
LEMMA PanelTypes == ASSUME RosterTypes, RosterPanels PROVE RosterTypes'
<1>1. /\ UNCHANGED <<scene, book, list, read, listErr, rows, spent, history>>
      /\ Now' = Now /\ Now \in Nat
  BY DEF RosterPanels, ClosePanel, SearchAgain, CreateNew, AddAnother, BackToSearch, OpenPanel, ToStage,
         RosterTypes, BookTypes, Now
<1>2. BookTypes' /\ ListTypes' /\ HistoryTypes' /\ rows' \in [People -> [pending : BOOLEAN, error : BOOLEAN]]
  BY <1>1 DEF RosterTypes, BookTypes, ListTypes, HistoryTypes, WriteTypes, history
<1>3. CASE ClosePanel
  <2>1. writes' = [i \in DOMAIN writes |-> [writes[i] EXCEPT !.live = @ \ {"form", "submit"}]]
    BY <1>3 DEF ClosePanel
  <2>2. /\ writes' \in Seq(Request(Now')) /\ Len(writes') = Len(writes)
        /\ \A i \in DOMAIN writes : Goes(writes[i], writes'[i])
    BY <1>1, <2>1, HearersGone
  <2>3. WriteTypes'
    BY <1>1, <1>2, <2>2, RequestsGoOn
  <2>4. ASSUME NEW i \in DOMAIN writes' PROVE "form" \notin writes'[i].live
    <3>1. i \in DOMAIN writes /\ writes[i] \in Request(Now)
      BY <2>1, RequestTyped
    <3>2. writes'[i] = [writes[i] EXCEPT !.live = @ \ {"form", "submit"}]
      BY <2>1, <3>1
    <3> QED BY <3>1, <3>2 DEF Request
  <2>5. FormTypes'
    BY <1>3, <2>4 DEF ClosePanel, FormTypes
  <2> QED BY <1>2, <2>3, <2>5 DEF RosterTypes
<1>4. CASE BackToSearch
  <2>1. /\ writes' = [i \in DOMAIN writes |-> [writes[i] EXCEPT !.live = @ \ {"submit"}]]
        /\ UNCHANGED panel /\ panel = "addPerson"
    BY <1>4 DEF BackToSearch, ToStage, RosterTypes, FormTypes
  <2>2. /\ writes' \in Seq(Request(Now')) /\ Len(writes') = Len(writes)
        /\ \A i \in DOMAIN writes : Goes(writes[i], writes'[i])
    BY <1>1, <2>1, HearersGone
  <2>3. WriteTypes'
    BY <1>1, <1>2, <2>2, RequestsGoOn
  <2>4. FormTypes'
    BY <2>1 DEF FormTypes
  <2> QED BY <1>2, <2>3, <2>4 DEF RosterTypes
<1>5. ASSUME NEW which \in {"addPerson", "myCrews"}, OpenPanel(which) PROVE RosterTypes'
  <2>1. /\ panel = None /\ panel' = which /\ UNCHANGED writes
        /\ which = "myCrews" => form' = None
    BY <1>5 DEF OpenPanel
  <2>2. \A i \in DOMAIN writes : "form" \notin writes[i].live
    BY <2>1, RosterAssumption DEF RosterTypes, FormTypes
  <2>3. FormTypes' /\ WriteTypes'
    BY <1>1, <1>2, <2>1, <2>2 DEF FormTypes, RosterTypes, WriteTypes
  <2> QED BY <1>2, <2>3 DEF RosterTypes
<1>6. ASSUME SearchAgain \/ CreateNew \/ AddAnother PROVE RosterTypes'
  <2>1. UNCHANGED <<writes, panel>> /\ panel = "addPerson"
    BY <1>6 DEF SearchAgain, CreateNew, AddAnother, ToStage, RosterTypes, FormTypes
  <2>2. FormTypes' /\ WriteTypes'
    BY <1>1, <1>2, <2>1 DEF FormTypes, RosterTypes, WriteTypes
  <2> QED BY <1>2, <2>2 DEF RosterTypes
<1> QED BY <1>3, <1>4, <1>5, <1>6 DEF RosterPanels

(* A new version of the roster: everything that is of a version stays so.  *)
LEMMA VersionAdded ==
  ASSUME RosterTypes, NEW roster \in [People -> Row], book' = Append(book, roster)
  PROVE  /\ Now \in Nat \ {0} /\ Now' = Now + 1 /\ Now <= Now'
         /\ book' \in Seq([People -> Row]) /\ Len(book') \in Nat \ {0}
         /\ book'[Now + 1] = roster /\ Last(book') = roster
         /\ \A v \in 1 .. Now : book'[v] = book[v]
         /\ ListRow(Now) \subseteq ListRow(Now') /\ Request(Now) \subseteq Request(Now')
         /\ 1 .. Now \subseteq 1 .. Now'
<1>1. book \in Seq([People -> Row]) /\ Len(book) \in Nat \ {0}
  BY DEF RosterTypes, BookTypes
<1>2. /\ book' \in Seq([People -> Row]) /\ Len(book') = Len(book) + 1
      /\ book'[Len(book) + 1] = roster /\ \A v \in 1 .. Len(book) : book'[v] = book[v]
  BY <1>1
<1>3. Now \in Nat \ {0} /\ Now' = Now + 1 /\ Now' \in Nat
  BY <1>1, <1>2 DEF Now
<1> QED BY <1>1, <1>2, <1>3, RowsOfVersions DEF Now, Last

(* A new version keeps what only speaks of the earlier ones.               *)
LEMMA VersionTypes ==
  ASSUME RosterTypes, NEW roster \in [People -> Row], book' = Append(book, roster),
         spent' \in [others : Nat, faults : Nat],
         UNCHANGED <<scene, list, read, listErr, panel, form, dropped>>,
         ours' \in 1 .. Now', given' \in [People -> 1 .. Now'], raced' \in SUBSET People
  PROVE  BookTypes' /\ ListTypes' /\ HistoryTypes'
BY VersionAdded DEF RosterTypes, BookTypes, ListTypes, HistoryTypes

(* Nothing is written before the list has been read.                       *)
ReadFirst == list \in [People -> ListRow(Now)] \/ writes = <<>>

(* A list that has been read is not "none".                                *)
LEMMA ListThere == ASSUME RosterTypes, list \in [People -> ListRow(Now)] PROVE list # None
<1>1. ListRow(Now) \subseteq [rung : Columns \cup OffLadder, band : Bands, crew : BOOLEAN, at : Nat]
  BY DEF RosterTypes, BookTypes, Now, ListRow, OffLadder, OffList
<1>2. list \in [People -> [rung : Columns \cup OffLadder, band : Bands, crew : BOOLEAN, at : Nat]]
  BY <1>1
<1> QED BY <1>2, RosterAssumption

(* What a request does to the roster is a roster.                          *)
LEMMA AppliedTyped ==
  ASSUME RosterTypes, NEW w \in Request(Now), w.kind \in {"role", "create"} => w.rung \in Columns \cup {"gone"}
  PROVE  Applied(w) \in [People -> Row]
<1>1. w.p \in People /\ w.before.band \in Bands /\ w.kind \in {"role", "create", "crew"}
  BY DEF Request, ListRow
<1>2. Last(book) \in [People -> Row] /\ Last(book)[w.p] \in Row
  BY <1>1 DEF RosterTypes, BookTypes, Last
<1>3. CASE w.kind = "role"
  <2>1. [Last(book)[w.p] EXCEPT !.rung = w.rung, !.band = w.before.band] \in Row
    BY <1>1, <1>2, <1>3 DEF Row, OffLadder
  <2> QED BY <1>1, <1>2, <1>3, <2>1 DEF Applied
<1>4. CASE w.kind = "create"
  <2>1. [Last(book)[w.p] EXCEPT !.rung = w.rung] \in Row
    BY <1>1, <1>2, <1>4 DEF Row, OffLadder
  <2> QED BY <1>1, <1>2, <1>4, <2>1 DEF Applied
<1>5. CASE w.kind = "crew"
  <2>1. [Last(book)[w.p] EXCEPT !.crew = (w.rung = "in")] \in Row
    BY <1>2 DEF Row
  <2> QED BY <1>1, <1>2, <1>5, <2>1 DEF Applied
<1> QED BY <1>1, <1>3, <1>4, <1>5

(* The server answers or is changed by others; the types are kept.         *)
LEMMA ServeTypes == ASSUME RosterTypes, NEW i \in DOMAIN writes, Serve(i) PROVE RosterTypes'
<1> DEFINE w == writes[i]
<1>1. PICK stage \in {"accepted", "refused"} : writes' = [writes EXCEPT ![i].stage = stage]
  BY DEF Serve
<1>2. /\ book' = Append(book, Applied(w)) /\ ours' = Now + 1
      /\ UNCHANGED <<scene, list, read, listErr, rows, panel, form, createErr, dropped, given>>
      /\ raced' = raced \/ raced' = raced \cup {w.p}
  BY DEF Serve
<1>3. spent' \in [others : Nat, faults : Nat]
  BY DEF Serve, RosterTypes, BookTypes
<1>4. Applied(w) \in [People -> Row] /\ w.p \in People
  <2>1. w \in Request(Now) /\ (w.kind \in {"role", "create"} => w.rung \in Columns \cup {"gone"})
    BY RequestTyped DEF RosterTypes, WriteTypes
  <2>2. Applied(w) \in [People -> Row]
    BY <2>1, AppliedTyped
  <2> QED BY <2>1, <2>2 DEF Request
<1>5. /\ Now' = Now + 1 /\ Now \in Nat /\ Now <= Now' /\ 1 .. Now \subseteq 1 .. Now'
  BY <1>2, <1>4, VersionAdded
<1>6. ours' \in 1 .. Now' /\ given' \in [People -> 1 .. Now'] /\ raced' \in SUBSET People
  BY <1>2, <1>4, <1>5 DEF RosterTypes, HistoryTypes
<1>7. BookTypes' /\ ListTypes' /\ HistoryTypes'
  BY <1>2, <1>3, <1>4, <1>6, VersionTypes
<1>8. /\ writes' \in Seq(Request(Now')) /\ Len(writes') = Len(writes)
      /\ \A j \in DOMAIN writes : Goes(writes[j], writes'[j])
  <2>1. Now' \in Nat
    BY <1>5
  <2> QED BY <1>1, <1>5, <2>1, StageSet
<1>9. WriteTypes' /\ FormTypes'
  BY <1>2, <1>8, RequestsGoOn DEF RosterTypes, WriteTypes, FormTypes
<1> QED BY <1>7, <1>9 DEF RosterTypes

(* What others do to the roster keeps the types.                           *)
LEMMA OtherTypes ==
  ASSUME RosterTypes, NEW p \in People,
         OtherGivesBand(p) \/ OtherRemoves(p) \/ \E rung \in {"reporter", "gone"} : OtherSetsRole(p, rung)
  PROVE  RosterTypes'
<1>1. Last(book) \in [People -> Row] /\ Last(book)[p] \in Row
  BY DEF RosterTypes, BookTypes, Last
<1>2. PICK roster \in [People -> Row] :
        /\ book' = Append(book, roster)
        /\ given' = given \/ given' = [given EXCEPT ![p] = Now + 1]
  <2>1. CASE OtherGivesBand(p)
    <3> DEFINE r   == Last(book)[p]
               row == [r EXCEPT !.band = "new", !.rung = IF r.rung = "none" THEN "volunteer" ELSE r.rung]
    <3>1. row \in Row
      BY <1>1 DEF Row, Bands, Columns
    <3>2. [Last(book) EXCEPT ![p] = row] \in [People -> Row]
      BY <1>1, <3>1
    <3>3. [Last(book) EXCEPT ![p].band = "new", ![p].rung = IF @ = "none" THEN "volunteer" ELSE @]
            = [Last(book) EXCEPT ![p] = row]
      BY <1>1 DEF Row
    <3> QED BY <2>1, <3>2, <3>3 DEF OtherGivesBand
  <2>2. ASSUME NEW rung \in {"reporter", "gone"}, OtherSetsRole(p, rung)
        PROVE  /\ [Last(book) EXCEPT ![p].rung = rung] \in [People -> Row]
               /\ book' = Append(book, [Last(book) EXCEPT ![p].rung = rung])
               /\ given' = given
    <3>1. [Last(book)[p] EXCEPT !.rung = rung] \in Row
      BY <1>1 DEF Row, OffLadder, OffList, Columns
    <3>2. [Last(book) EXCEPT ![p].rung = rung] \in [People -> Row]
      BY <1>1, <3>1
    <3> QED BY <2>2, <3>2 DEF OtherSetsRole, history
  <2>3. CASE OtherRemoves(p)
    <3> DEFINE row == [Last(book)[p] EXCEPT !.rung = "none", !.band = ""]
    <3>1. row \in Row
      BY <1>1 DEF Row, Bands, OffLadder, OffList
    <3>2. [Last(book) EXCEPT ![p] = row] \in [People -> Row]
      BY <1>1, <3>1
    <3>3. [Last(book) EXCEPT ![p].rung = "none", ![p].band = ""] = [Last(book) EXCEPT ![p] = row]
      BY <1>1 DEF Row
    <3> QED BY <2>3, <3>2, <3>3 DEF OtherRemoves
  <2> QED BY <2>1, <2>2, <2>3
<1>3. UNCHANGED <<scene, list, read, listErr, rows, writes, panel, form, createErr, ours, dropped, raced>>
  BY DEF OtherGivesBand, OtherRemoves, OtherSetsRole, history
<1>4. spent' \in [others : Nat, faults : Nat]
  <2>1. spent' = [spent EXCEPT !.others = spent.others + 1]
    BY DEF OtherGivesBand, OtherRemoves, OtherSetsRole
  <2>2. spent \in [others : Nat, faults : Nat]
    BY DEF RosterTypes, BookTypes
  <2> QED BY <2>1, <2>2
<1>5. /\ Now \in Nat \ {0} /\ Now' = Now + 1 /\ 1 .. Now \subseteq 1 .. Now'
      /\ Request(Now) \subseteq Request(Now')
  BY <1>2, VersionAdded
<1>6. given' \in [People -> 1 .. Now']
  <2>1. given \in [People -> 1 .. Now'] /\ Now + 1 \in 1 .. Now'
    BY <1>5 DEF RosterTypes, HistoryTypes
  <2> QED BY <1>2, <2>1
<1>7. BookTypes' /\ ListTypes' /\ HistoryTypes'
  <2>1. ours' \in 1 .. Now' /\ raced' \in SUBSET People
    BY <1>3, <1>5 DEF RosterTypes, HistoryTypes
  <2> QED BY <1>2, <1>3, <1>4, <1>6, <2>1, VersionTypes
<1>8. writes' \in Seq(Request(Now'))
  BY <1>3, <1>5 DEF RosterTypes, WriteTypes
<1>9. WriteTypes' /\ FormTypes'
  BY <1>3, <1>8 DEF RosterTypes, WriteTypes, FormTypes
<1> QED BY <1>7, <1>9 DEF RosterTypes

(* An answer, and the form's going on after it, keep the types.            *)
LEMMA AnswerTypes ==
  ASSUME RosterTypes, ReadFirst, NEW i \in DOMAIN writes, Refuse(i) \/ Answer(i) \/ Return(i)
  PROVE  RosterTypes'
<1>1. /\ UNCHANGED <<scene, book, panel>> /\ Now' = Now /\ Now \in Nat \ {0}
      /\ spent' \in [others : Nat, faults : Nat]
  <2>1. UNCHANGED <<scene, book, panel>>
    BY DEF Refuse, Answer, Return
  <2>2. \/ spent' = spent
        \/ spent' = [spent EXCEPT !.faults = IF Acceptable(writes[i]) THEN @ + 1 ELSE @]
    BY DEF Refuse, Answer, Return
  <2> QED BY <2>1, <2>2 DEF RosterTypes, BookTypes, Now
<1>2. PICK stage \in {"sent", "accepted", "refused", "settling", "failing", "done"} :
        writes' = [writes EXCEPT ![i].stage = stage]
  BY DEF Refuse, Answer, Return
<1>3. /\ writes' \in Seq(Request(Now')) /\ Len(writes') = Len(writes)
      /\ \A j \in DOMAIN writes : Goes(writes[j], writes'[j])
  <2>1. Now' \in Nat /\ Now <= Now'
    BY <1>1
  <2> QED BY <1>2, <2>1, StageSet
<1>4. writes[i] \in Request(Now) /\ writes[i].p \in People /\ writes[i].before \in ListRow(Now)
  BY RequestTyped DEF Request
<1>5. rows' \in [People -> [pending : BOOLEAN, error : BOOLEAN]]
  <2>1. \/ UNCHANGED rows
        \/ \E error \in BOOLEAN : rows' = [rows EXCEPT ![writes[i].p] = [pending |-> FALSE, error |-> error]]
    <3>1. CASE Answer(i)
      <4> DEFINE ok == writes[i].stage = "accepted"
      <4>1. ok \in BOOLEAN /\ (~ok) \in BOOLEAN
        OBVIOUS
      <4>2. UNCHANGED rows \/ Mark(writes[i].p, FALSE, ~ok)
        BY <3>1 DEF Answer
      <4> HIDE DEF ok
      <4> QED BY <4>1, <4>2 DEF Mark
    <3> QED BY <3>1 DEF Refuse, Return
  <2>2. ASSUME NEW error \in BOOLEAN, rows' = [rows EXCEPT ![writes[i].p] = [pending |-> FALSE, error |-> error]]
        PROVE  rows' \in [People -> [pending : BOOLEAN, error : BOOLEAN]]
    BY <1>4, <2>2 DEF RosterTypes, WriteTypes
  <2> QED BY <2>1, <2>2 DEF RosterTypes, WriteTypes
<1>6. WriteTypes' /\ \A j \in DOMAIN writes' : "form" \in writes'[j].live => panel = "addPerson"
  BY <1>1, <1>3, <1>5, RequestsGoOn
<1>7. FormTypes'
  <2>1. form' = form \/ "form" \in writes[i].live
    BY DEF Refuse, Answer, Return
  <2> QED BY <1>1, <1>6, <2>1 DEF RosterTypes, FormTypes
<1>8. ListTypes'
  <2>1. list' = list \/ list' = [list EXCEPT ![writes[i].p] = writes[i].before]
    BY DEF Refuse, Answer, Return, Rollback
  <2>2. list' \in {None} \cup [People -> ListRow(Now)]
    <3>1. writes # <<>>
      OBVIOUS
    <3>2. list \in [People -> ListRow(Now)]
      BY <3>1 DEF ReadFirst
    <3> QED BY <1>4, <2>1, <3>2
  <2>3. read' \in {read, Now} /\ UNCHANGED listErr
    BY DEF Refuse, Answer, Return, Settle
  <2> QED BY <1>1, <2>2, <2>3 DEF RosterTypes, ListTypes
<1>9. HistoryTypes'
  BY <1>1 DEF Refuse, Answer, Return, Settle, RosterTypes, HistoryTypes, history
<1> QED BY <1>1, <1>6, <1>7, <1>8, <1>9 DEF RosterTypes, BookTypes

(* Every step keeps the types.                                             *)
LEMMA RosterStepTypes == RosterTypes /\ ReadFirst /\ RosterStep => RosterTypes'
<1> SUFFICES ASSUME RosterTypes, ReadFirst, RosterStep PROVE RosterTypes'
  OBVIOUS
<1>1. CASE RosterWrites
  BY <1>1, WriteRoleTypes DEF RosterWrites
<1>2. CASE ServerNext
  BY <1>2, ServeTypes, OtherTypes, AnswerTypes DEF ServerNext
<1>3. CASE UNCHANGED rosterVars
  BY <1>3 DEF rosterVars, history, Now, RosterTypes, BookTypes, ListTypes, WriteTypes, FormTypes, HistoryTypes
<1> QED BY <1>1, <1>2, <1>3, ReadTypes, SendTypes, PanelTypes DEF RosterStep

(* Every step leaves the list read, or nothing written.                    *)
LEMMA RosterStepReadFirst == RosterTypes /\ RosterTypes' /\ ReadFirst /\ RosterStep => ReadFirst'
<1> SUFFICES ASSUME RosterTypes, RosterTypes', ReadFirst, RosterStep PROVE ReadFirst'
  OBVIOUS
<1>1. /\ DOMAIN writes = 1 .. Len(writes) /\ Len(writes) \in Nat
      /\ writes' \in Seq(Request(Now')) /\ list \in {None} \cup [People -> ListRow(Now)]
      /\ Now \in Nat /\ Now' \in Nat
  BY DEF RosterTypes, BookTypes, WriteTypes, ListTypes, Now
<1>2. ASSUME NEW p \in People, NEW rung \in Columns \cup {"gone"}, NEW new \in BOOLEAN, WriteRole(p, rung, new)
      PROVE  ReadFirst'
  <2>1. /\ list \in [People -> ListRow(Now)] /\ Now' = Now
        /\ list' = list \/ list' = [list EXCEPT ![p].rung = rung]
    BY <1>1, <1>2 DEF WriteRole, MayWrite, BodyUp, Now
  <2>2. [list[p] EXCEPT !.rung = rung] \in ListRow(Now)
    BY <2>1 DEF ListRow
  <2> QED BY <2>1, <2>2 DEF ReadFirst
<1>3. CASE ReadLands
  <2>1. PICK v \in read .. Now : list' = Listed(v)
    BY <1>3 DEF ReadLands
  <2>2. v \in 1 .. Now /\ Now' = Now
    BY <1>1, <1>3, <2>1 DEF ReadLands, RosterTypes, ListTypes, Now
  <2> QED BY <2>1, <2>2, ListedTyped DEF RosterTypes, ReadFirst
<1>4. ASSUME NEW i \in DOMAIN writes, Refuse(i) \/ Answer(i) \/ Return(i) PROVE ReadFirst'
  <2>1. /\ list' = list \/ list' = [list EXCEPT ![writes[i].p] = writes[i].before]
        /\ Now' = Now
    BY <1>4 DEF Refuse, Answer, Return, Rollback, Now
  <2>2. list \in [People -> ListRow(Now)]
    BY DEF ReadFirst
  <2>3. writes[i].before \in ListRow(Now)
    BY RequestTyped DEF Request
  <2> QED BY <2>1, <2>2, <2>3 DEF ReadFirst
<1>5. ASSUME UNCHANGED list, Now <= Now', writes = <<>> => writes' = <<>> \/ MayWrite PROVE ReadFirst'
  <2>1. ListRow(Now) \subseteq ListRow(Now')
    BY <1>1, <1>5, RowsOfVersions
  <2> QED BY <1>1, <1>5, <2>1 DEF ReadFirst, MayWrite, BodyUp
<1>6. ASSUME NEW i \in DOMAIN writes, Serve(i) PROVE ReadFirst'
  <2>1. book' = Append(book, Applied(writes[i])) /\ UNCHANGED list /\ writes # <<>>
    BY <1>6 DEF Serve
  <2>2. Len(book) \in Nat /\ book \in Seq([People -> Row]) /\ Now' = Now + 1
    BY <2>1 DEF RosterTypes, BookTypes, Now
  <2> QED BY <1>1, <1>5, <2>1, <2>2
<1>7. ASSUME NEW p \in People, OtherGivesBand(p) \/ OtherRemoves(p) \/ \E rung \in {"reporter", "gone"} : OtherSetsRole(p, rung)
      PROVE  ReadFirst'
  <2>1. UNCHANGED <<list, writes>> /\ \E roster : book' = Append(book, roster)
    BY <1>7 DEF OtherGivesBand, OtherRemoves, OtherSetsRole
  <2>2. book \in Seq([People -> Row])
    BY DEF RosterTypes, BookTypes
  <2>3. Now' = Now + 1 /\ Now \in Nat
    BY <2>1, <2>2 DEF Now
  <2> QED BY <1>1, <1>5, <2>1, <2>3
<1>8. ASSUME UNCHANGED <<book, list>>, writes = <<>> => writes' = <<>> \/ MayWrite PROVE ReadFirst'
  <2>1. Now' = Now
    BY <1>8 DEF Now
  <2> QED BY <1>1, <1>5, <1>8, <2>1
<1>9. CASE RosterPanels
  <2>1. /\ UNCHANGED <<book, list>>
        /\ \/ UNCHANGED writes
           \/ writes' = [i \in DOMAIN writes |-> writes'[i]]
    BY <1>9 DEF RosterPanels, ClosePanel, SearchAgain, CreateNew, AddAnother, BackToSearch, OpenPanel, ToStage
  <2>2. writes = <<>> => writes' = <<>>
    BY <1>1, <2>1
  <2> QED BY <1>8, <2>1, <2>2
<1>10. ASSUME (\E how \in {"failed", "denied"} : ReadFails(how)) \/ Retry \/ Refocus PROVE ReadFirst'
  <2>1. /\ UNCHANGED <<book, list>>
        /\ \/ UNCHANGED writes
           \/ writes' = [i \in DOMAIN writes |-> [writes[i] EXCEPT !.live = {}]]
    BY <1>10 DEF ReadFails, Unmount, Retry, Refocus
  <2>2. writes = <<>> => writes' = <<>>
    BY <1>1, <2>1
  <2> QED BY <1>8, <2>1, <2>2
<1>11. CASE RosterSends
  <2>1. UNCHANGED <<book, list>> /\ MayWrite
    BY <1>11 DEF RosterSends, Create, CrewWrite
  <2> QED BY <1>8, <2>1
<1>12. CASE UNCHANGED rosterVars
  BY <1>8, <1>12 DEF rosterVars
<1> QED BY <1>2, <1>3, <1>4, <1>6, <1>7, <1>9, <1>10, <1>11, <1>12
        DEF RosterStep, RosterWrites, RosterReads, ServerNext

(***************************************************************************)
(* The roster: what the list shows.                                        *)
(***************************************************************************)
Unsettled == \E i \in DOMAIN writes : writes[i].stage \in {"accepted", "refused"}
Unanswered == \E i \in DOMAIN writes : writes[i].stage \in {"sent", "accepted", "refused"}

(* A read begun before an accepted write is given up by the answer to it;  *)
(* with no request out the list is of our last write or later.             *)
CurrentInv ==
  /\ read # None => Unsettled \/ read >= ours
  /\ read = None /\ listErr = "none" /\ list # None /\ ~dropped =>
       Unanswered \/ \E v \in ours .. Now : list = Listed(v)

(* With nothing under way the list is of our last write or later.          *)
LEMMA CurrentSuffices == RosterTypes /\ CurrentInv => RosterCurrent
<1> SUFFICES ASSUME RosterTypes, CurrentInv, Quiet, BodyUp, ~dropped
             PROVE  \E v \in ours .. Now : list = Listed(v)
  BY RosterTypesSuffice DEF RosterCurrent
<1> QED BY DEF CurrentInv, Quiet, BodyUp, Unanswered

(* It holds at first, when the first read is under way.                    *)
LEMMA CurrentInitInv == RosterInit => CurrentInv
BY DEF RosterInit, CurrentInv

(* Requests that only go on, their stages as they were.                    *)
StagesKept ==
  /\ DOMAIN writes' = DOMAIN writes
  /\ \A i \in DOMAIN writes : writes'[i].stage = writes[i].stage

(* The panel and its form touch no request but for its hearers.            *)
LEMMA PanelStages ==
  ASSUME RosterTypes, RosterPanels \/ UNCHANGED rosterVars
  PROVE  UNCHANGED <<book, list, read, listErr, ours, dropped, given, raced>> /\ StagesKept
<1>1. UNCHANGED <<book, list, read, listErr, ours, dropped, given, raced>>
  BY DEF RosterPanels, ClosePanel, SearchAgain, CreateNew, AddAnother, BackToSearch, OpenPanel, ToStage,
         rosterVars, history
<1>2. \/ UNCHANGED writes
      \/ \E deaf \in {{"submit"}, {"form", "submit"}} :
           writes' = [i \in DOMAIN writes |-> [writes[i] EXCEPT !.live = @ \ deaf]]
  BY DEF RosterPanels, ClosePanel, SearchAgain, CreateNew, AddAnother, BackToSearch, OpenPanel, ToStage,
         rosterVars
<1>3. ASSUME NEW deaf, writes' = [i \in DOMAIN writes |-> [writes[i] EXCEPT !.live = @ \ deaf]]
      PROVE  StagesKept
  <2>1. DOMAIN writes' = DOMAIN writes
    BY <1>3
  <2>2. ASSUME NEW i \in DOMAIN writes PROVE writes'[i].stage = writes[i].stage
    <3>1. writes'[i] = [writes[i] EXCEPT !.live = @ \ deaf] /\ writes[i] \in Request(Now)
      BY <1>3, RequestTyped
    <3> QED BY <3>1 DEF Request
  <2> QED BY <2>1, <2>2 DEF StagesKept
<1> QED BY <1>1, <1>2, <1>3 DEF StagesKept

(* One request enters a stage, the others keep theirs.                     *)
LEMMA StageEntered ==
  ASSUME RosterTypes, NEW i \in DOMAIN writes, NEW stage, writes' = [writes EXCEPT ![i].stage = stage]
  PROVE  /\ DOMAIN writes' = DOMAIN writes /\ writes'[i].stage = stage
         /\ \A j \in DOMAIN writes : j # i => writes'[j] = writes[j]
<1>1. writes[i] \in Request(Now) /\ writes \in Seq(Request(Now))
  BY RequestTyped DEF RosterTypes, WriteTypes
<1>2. writes'[i] = [writes[i] EXCEPT !.stage = stage]
  BY <1>1
<1> QED BY <1>1, <1>2 DEF Request

(* One request more, sent; the others as they were.                        *)
LEMMA RequestAdded ==
  ASSUME RosterTypes, NEW w, w.stage = "sent", writes' = Append(writes, w)
  PROVE  /\ Unanswered'
         /\ Unsettled => Unsettled'
         /\ \A i \in DOMAIN writes' : \/ i \in DOMAIN writes /\ writes'[i] = writes[i]
                                      \/ writes'[i] = w
<1>1. writes \in Seq(Request(Now))
  BY DEF RosterTypes, WriteTypes
<1>2. /\ DOMAIN writes' = 1 .. Len(writes) + 1 /\ DOMAIN writes = 1 .. Len(writes) /\ Len(writes) \in Nat
      /\ writes'[Len(writes) + 1] = w
      /\ \A i \in 1 .. Len(writes) : writes'[i] = writes[i]
  BY <1>1
<1> QED BY <1>2 DEF Unanswered, Unsettled

(* It is kept by what changes neither reads nor requests.                  *)
LEMMA CurrentKept ==
  ASSUME RosterTypes, CurrentInv, StagesKept,
         UNCHANGED <<book, list, read, listErr, ours, dropped>>
  PROVE  CurrentInv'
<1>1. Unsettled' = Unsettled /\ Unanswered' = Unanswered
  BY DEF StagesKept, Unsettled, Unanswered
<1>2. \A v : Listed(v)' = Listed(v)
  BY DEF Listed
<1>3. Now' = Now
  BY DEF Now
<1> QED BY <1>1, <1>2, <1>3 DEF CurrentInv

(* A read that begins now is not before any write of ours.                 *)
LEMMA CurrentRead ==
  ASSUME RosterTypes, Now' = Now, read' = Now, ours' = ours
  PROVE  CurrentInv'
<1>1. Now \in Nat /\ Now >= ours
  BY DEF RosterTypes, BookTypes, HistoryTypes, Now
<1>2. Now # None
  BY <1>1, RosterAssumption
<1> QED BY <1>1, <1>2 DEF CurrentInv

(* Every step keeps it.                                                    *)
LEMMA CurrentStepInv == RosterTypes /\ CurrentInv /\ RosterStep => CurrentInv'
<1> SUFFICES ASSUME RosterTypes, CurrentInv, RosterStep PROVE CurrentInv'
  OBVIOUS
<1>1. Now \in Nat \ {0} /\ ours \in 1 .. Now
  BY DEF RosterTypes, BookTypes, HistoryTypes, Now
<1>2. ASSUME NEW p \in People, NEW rung \in Columns \cup {"gone"}, NEW new \in BOOLEAN, WriteRole(p, rung, new)
      PROVE  CurrentInv'
  <2>1. read' = None /\ UNCHANGED <<book, listErr, ours>>
    BY <1>2 DEF WriteRole
  <2>2. CASE Unread(p, new)
    <3>1. UNCHANGED <<list, writes>> /\ dropped' = (dropped \/ read # None)
      BY <1>2, <2>2 DEF WriteRole
    <3>2. \A v : Listed(v)' = Listed(v)
      BY <2>1 DEF Listed
    <3>3. Unanswered' = Unanswered /\ Now' = Now
      BY <2>1, <3>1 DEF Unanswered, Now
    <3>4. ~dropped' => ~dropped /\ read = None
      BY <3>1 DEF RosterTypes, HistoryTypes
    <3> QED BY <2>1, <3>1, <3>2, <3>3, <3>4 DEF CurrentInv
  <2>3. CASE ~Unread(p, new)
    <3>1. writes' = Append(writes, Write("role", p, rung, list[p], new))
      BY <1>2, <2>3 DEF WriteRole
    <3>2. Unanswered'
      BY <3>1, RequestAdded DEF Write
    <3> QED BY <2>1, <3>2 DEF CurrentInv
  <2> QED BY <2>2, <2>3
<1>3. CASE ReadLands
  <2>1. PICK v \in read .. Now : list' = Listed(v)
    BY <1>3 DEF ReadLands
  <2>2. read # None /\ read' = None /\ UNCHANGED <<book, writes, ours>>
    BY <1>3 DEF ReadLands, history
  <2>3. \A u : Listed(u)' = Listed(u)
    BY <2>2 DEF Listed
  <2>4. CASE Unsettled
    BY <2>2, <2>4 DEF CurrentInv, Unsettled, Unanswered
  <2>5. CASE ~Unsettled
    <3>1. read >= ours /\ read \in 1 .. Now /\ Now' = Now
      BY <2>2, <2>5 DEF CurrentInv, RosterTypes, ListTypes, Now
    <3>2. v \in ours .. Now
      BY <1>1, <3>1
    <3> QED BY <2>1, <2>2, <2>3, <3>1, <3>2 DEF CurrentInv
  <2> QED BY <2>4, <2>5
<1>4. ASSUME NEW how \in {"failed", "denied"}, ReadFails(how) PROVE CurrentInv'
  BY <1>4 DEF ReadFails, CurrentInv
<1>5. ASSUME Retry \/ Refocus \/ \E i \in DOMAIN writes : Answer(i) PROVE CurrentInv'
  <2>1. read' = Now /\ Now' = Now /\ ours' = ours
    BY <1>5 DEF Retry, Refocus, Answer, Settle, Now
  <2> QED BY <2>1, CurrentRead
<1>6. CASE RosterPanels \/ UNCHANGED rosterVars
  BY <1>6, PanelStages, CurrentKept
<1>7. CASE RosterSends
  <2>1. PICK w : w.stage = "sent" /\ writes' = Append(writes, w)
    BY <1>7 DEF RosterSends, Create, CrewWrite, Write
  <2>2. UNCHANGED <<read, ours>>
    BY <1>7 DEF RosterSends, Create, CrewWrite, history
  <2> QED BY <2>1, <2>2, RequestAdded DEF CurrentInv
<1>8. ASSUME NEW i \in DOMAIN writes, Serve(i) \/ Refuse(i) PROVE CurrentInv'
  <2>1. PICK stage \in {"accepted", "refused"} : writes' = [writes EXCEPT ![i].stage = stage]
    BY <1>8 DEF Serve, Refuse
  <2>2. Unsettled' /\ Unanswered'
    BY <2>1, StageEntered DEF Unsettled, Unanswered
  <2> QED BY <2>2 DEF CurrentInv
<1>9. ASSUME NEW i \in DOMAIN writes, Return(i) PROVE CurrentInv'
  <2>1. /\ writes' = [writes EXCEPT ![i].stage = "done"] /\ writes[i].stage \in {"settling", "failing"}
        /\ UNCHANGED <<book, list, read, listErr, ours, dropped>>
    BY <1>9 DEF Return, history
  <2>2. /\ DOMAIN writes' = DOMAIN writes /\ writes'[i].stage = "done"
        /\ \A j \in DOMAIN writes : j # i => writes'[j] = writes[j]
    BY <2>1, StageEntered
  <2>3. Unsettled' = Unsettled /\ Unanswered' = Unanswered
    BY <2>1, <2>2 DEF Unsettled, Unanswered
  <2>4. (\A v : Listed(v)' = Listed(v)) /\ Now' = Now
    BY <2>1 DEF Listed, Now
  <2> QED BY <2>1, <2>3, <2>4 DEF CurrentInv
<1>10. ASSUME NEW p \in People, OtherGivesBand(p) \/ OtherRemoves(p) \/ \E rung \in {"reporter", "gone"} : OtherSetsRole(p, rung)
       PROVE  CurrentInv'
  <2>1. PICK roster : book' = Append(book, roster)
    BY <1>10 DEF OtherGivesBand, OtherRemoves, OtherSetsRole
  <2>2. UNCHANGED <<list, read, listErr, writes, ours, dropped>>
    BY <1>10 DEF OtherGivesBand, OtherRemoves, OtherSetsRole, history
  <2>3. Now' = Now + 1 /\ \A v \in 1 .. Now : book'[v] = book[v]
    BY <2>1 DEF RosterTypes, BookTypes, Now
  <2>4. \A v \in 1 .. Now : Listed(v)' = Listed(v)
    BY <2>3 DEF Listed
  <2>5. \A v \in ours .. Now : v \in ours' .. Now' /\ v \in 1 .. Now
    BY <1>1, <2>2, <2>3
  <2>6. Unsettled' = Unsettled /\ Unanswered' = Unanswered
    BY <2>2 DEF Unsettled, Unanswered
  <2> QED BY <2>2, <2>4, <2>5, <2>6 DEF CurrentInv
<1> QED BY <1>2, <1>3, <1>4, <1>5, <1>6, <1>7, <1>8, <1>9, <1>10
        DEF RosterStep, RosterWrites, RosterReads, ServerNext

(***************************************************************************)
(* The roster: wristbands.                                                 *)
(***************************************************************************)
\* A row has the band of the version it was read in.
BandTrue(row, p) == row = Off \/ (row.at \in 1 .. Now /\ row.band = book[row.at][p].band)

\* So has the row a request was started from; one without is an enrolment.
BandSent(w) == w.kind = "role" => /\ BandTrue(w.before, w.p)
                                  /\ w.before = Off => w.new

\* Since a band was last given it has not changed.
BandInv ==
  /\ \A p \in People \ raced : \A v \in given[p] .. Now : book[v][p].band = book[given[p]][p].band
  /\ list # None => \A p \in People : BandTrue(list[p], p)
  /\ \A i \in DOMAIN writes : BandSent(writes[i])

(* What the invariant says of the server's roster is the property.         *)
LEMMA BandSuffices == RosterTypes /\ BandInv => WristbandKept
<1> SUFFICES ASSUME RosterTypes, BandInv, NEW p \in People \ raced
             PROVE  Last(book)[p].band = book[given[p]][p].band
  BY DEF WristbandKept
<1>1. Now \in given[p] .. Now
  BY DEF RosterTypes, BookTypes, HistoryTypes, Now
<1> QED BY <1>1 DEF BandInv, Last, Now

(* It holds of the first version.                                          *)
LEMMA BandInitInv == RosterInit => BandInv
<1> SUFFICES ASSUME RosterInit PROVE BandInv
  OBVIOUS
<1>1. Now = 1 /\ \A p \in People : given[p] = 1
  BY DEF RosterInit, Now
<1> QED BY <1>1 DEF RosterInit, BandInv

(* A request keeps what BandSent looks at.                                 *)
SameRequest(w, v) == v.kind = w.kind /\ v.p = w.p /\ v.before = w.before /\ v.new = w.new

(* Another stage leaves a request's row as it was.                         *)
LEMMA StageSame ==
  ASSUME RosterTypes, NEW i \in DOMAIN writes, NEW stage, writes' = [writes EXCEPT ![i].stage = stage]
  PROVE  DOMAIN writes' = DOMAIN writes /\ \A j \in DOMAIN writes : SameRequest(writes[j], writes'[j])
<1>1. writes[i] \in Request(Now) /\ writes \in Seq(Request(Now))
  BY RequestTyped DEF RosterTypes, WriteTypes
<1>2. writes'[i] = [writes[i] EXCEPT !.stage = stage] /\ DOMAIN writes' = DOMAIN writes
  BY <1>1
<1>3. \A j \in DOMAIN writes : j # i => writes'[j] = writes[j]
  BY <1>1
<1>4. SameRequest(writes[i], writes'[i])
  BY <1>1, <1>2 DEF Request, SameRequest
<1> QED BY <1>2, <1>3, <1>4 DEF SameRequest

(* Fewer hearers leave a request's row as it was.                          *)
LEMMA HearersSame ==
  ASSUME RosterTypes, DOMAIN writes' = DOMAIN writes,
         \A i \in DOMAIN writes : \E live : writes'[i] = [writes[i] EXCEPT !.live = live]
  PROVE  DOMAIN writes' = DOMAIN writes /\ \A j \in DOMAIN writes : SameRequest(writes[j], writes'[j])
<1>1. ASSUME NEW i \in DOMAIN writes PROVE SameRequest(writes[i], writes'[i])
  <2>1. PICK live : writes'[i] = [writes[i] EXCEPT !.live = live]
    OBVIOUS
  <2>2. writes[i] \in Request(Now)
    BY RequestTyped
  <2> QED BY <2>1, <2>2 DEF Request, SameRequest
<1> QED BY <1>1

(* It is kept by what touches no row, request or version.                  *)
LEMMA BandKept ==
  ASSUME RosterTypes, BandInv, UNCHANGED <<book, given, raced>>,
         list' # None => \A p \in People : BandTrue(list'[p], p),
         \A i \in DOMAIN writes' : \/ i \in DOMAIN writes /\ SameRequest(writes[i], writes'[i])
                                   \/ BandSent(writes'[i])
  PROVE  BandInv'
<1>1. Now' = Now
  BY DEF Now
<1>2. list' # None => \A p \in People : BandTrue(list[p], p)'
  BY <1>1 DEF BandTrue
<1>3. ASSUME NEW i \in DOMAIN writes' PROVE BandSent(writes[i])'
  <2>1. BandSent(writes'[i])
    BY DEF BandInv, BandSent, SameRequest
  <2> QED BY <1>1, <2>1 DEF BandSent, BandTrue
<1>4. \A p \in People \ raced' : \A v \in given'[p] .. Now' : book'[v][p].band = book'[given'[p]][p].band
  BY <1>1 DEF BandInv
<1> QED BY <1>2, <1>3, <1>4 DEF BandInv

(* A version more: what was read before it is as true as it was.           *)
LEMMA BandGrows ==
  ASSUME RosterTypes, BandInv, NEW roster \in [People -> Row], book' = Append(book, roster), UNCHANGED list,
         DOMAIN writes' = DOMAIN writes, \A j \in DOMAIN writes : SameRequest(writes[j], writes'[j])
  PROVE  /\ list' # None => \A p \in People : BandTrue(list[p], p)'
         /\ \A i \in DOMAIN writes' : BandSent(writes[i])'
<1>1. Now' = Now + 1 /\ Now \in Nat \ {0} /\ 1 .. Now \subseteq 1 .. Now' /\ \A v \in 1 .. Now : book'[v] = book[v]
  BY VersionAdded
<1>2. ASSUME list' # None, NEW p \in People PROVE BandTrue(list[p], p)'
  <2>1. BandTrue(list[p], p) /\ list' = list
    BY <1>2 DEF BandInv
  <2>2. list[p] = Off \/ (list[p].at \in 1 .. Now' /\ list[p].band = book'[list[p].at][p].band)
    BY <1>1, <2>1 DEF BandTrue
  <2> QED BY <2>1, <2>2 DEF BandTrue
<1>3. ASSUME NEW i \in DOMAIN writes' PROVE BandSent(writes[i])'
  <2>1. BandSent(writes[i]) /\ SameRequest(writes[i], writes'[i])
    BY DEF BandInv
  <2> DEFINE row == writes[i].before
             p   == writes[i].p
  <2>2. ASSUME writes[i].kind = "role"
        PROVE  /\ row = Off \/ (row.at \in 1 .. Now' /\ row.band = book'[row.at][p].band)
               /\ row = Off => writes[i].new
    BY <1>1, <2>1, <2>2 DEF BandSent, BandTrue
  <2>3. SameRequest(writes[i], writes'[i])
    BY <2>1
  <2> QED BY <2>2, <2>3 DEF BandSent, SameRequest, BandTrue
<1> QED BY <1>2, <1>3

(* A write sends the band of the row it was made from.                     *)
LEMMA BandWriteRole ==
  ASSUME RosterTypes, BandInv, NEW p \in People, NEW rung \in Columns \cup {"gone"}, NEW new \in BOOLEAN,
         WriteRole(p, rung, new)
  PROVE  BandInv'
<1>1. /\ list # None /\ list \in [People -> ListRow(Now)] /\ list[p] \in ListRow(Now)
      /\ UNCHANGED <<book, given, raced>>
      /\ \A q \in People : BandTrue(list[q], q)
  BY DEF WriteRole, MayWrite, BodyUp, RosterTypes, ListTypes, BandInv
<1>2. CASE Unread(p, new)
  <2>1. UNCHANGED <<list, writes>>
    BY <1>2 DEF WriteRole
  <2> QED BY <1>1, <2>1, BandKept DEF SameRequest
<1>3. CASE ~Unread(p, new)
  <2> DEFINE w == Write("role", p, rung, list[p], new)
  <2>1. /\ writes' = Append(writes, w)
        /\ list' = IF OnList(p) THEN [list EXCEPT ![p].rung = rung] ELSE list
    BY <1>3 DEF WriteRole
  <2>2. w.stage = "sent" /\ BandSent(w)
    BY <1>1, <1>3 DEF Write, BandSent, Unread
  <2>3. \A q \in People : BandTrue(list'[q], q)
    <3>1. CASE list' = list
      BY <1>1, <3>1
    <3>2. CASE OnList(p) /\ list' = [list EXCEPT ![p].rung = rung]
      <4>1. /\ list'[p] = [list[p] EXCEPT !.rung = rung]
            /\ \A q \in People : q # p => list'[q] = list[q]
        BY <1>1, <3>2
      <4>2. list'[p].at = list[p].at /\ list'[p].band = list[p].band
        BY <1>1, <4>1 DEF ListRow
      <4>3. BandTrue(list'[p], p)
        BY <1>1, <3>2, <4>2 DEF BandTrue, OnList
      <4> QED BY <1>1, <4>1, <4>3
    <3> QED BY <2>1, <3>1, <3>2
  <2> HIDE DEF w
  <2>4. \A i \in DOMAIN writes' : \/ i \in DOMAIN writes /\ SameRequest(writes[i], writes'[i])
                                  \/ BandSent(writes'[i])
    BY <2>1, <2>2, RequestAdded DEF SameRequest
  <2> QED BY <1>1, <2>3, <2>4, BandKept
<1> QED BY <1>2, <1>3

(* A served request gives back the band it was sent with.                  *)
LEMMA BandServe == ASSUME RosterTypes, BandInv, NEW i \in DOMAIN writes, Serve(i) PROVE BandInv'
<1> DEFINE w == writes[i]
<1>1. PICK stage \in {"accepted", "refused"} : writes' = [writes EXCEPT ![i].stage = stage]
  BY DEF Serve
<1>2. /\ book' = Append(book, Applied(w)) /\ UNCHANGED <<list, given>>
      /\ raced' = IF w.kind = "role" /\ (IF w.before = Off THEN w.new ELSE given[w.p] > w.before.at)
                  THEN raced \cup {w.p} ELSE raced
  BY DEF Serve
<1>3. w \in Request(Now) /\ (w.kind \in {"role", "create"} => w.rung \in Columns \cup {"gone"})
  BY RequestTyped DEF RosterTypes, WriteTypes
<1>4. Applied(w) \in [People -> Row]
  BY <1>3, AppliedTyped
<1>5. /\ Now \in Nat \ {0} /\ Now' = Now + 1 /\ book'[Now + 1] = Applied(w)
      /\ \A v \in 1 .. Now : book'[v] = book[v]
  BY <1>2, <1>4, VersionAdded
<1>6. DOMAIN writes' = DOMAIN writes /\ \A j \in DOMAIN writes : SameRequest(writes[j], writes'[j])
  BY <1>1, StageSame
<1>7. /\ list' # None => \A p \in People : BandTrue(list[p], p)'
      /\ \A j \in DOMAIN writes' : BandSent(writes[j])'
  BY <1>2, <1>4, <1>6, BandGrows
<1>8. ASSUME NEW p \in People \ raced', NEW v \in given'[p] .. Now'
      PROVE  book'[v][p].band = book'[given'[p]][p].band
  <2>1. p \in People \ raced /\ given'[p] = given[p] /\ given[p] \in 1 .. Now
    BY <1>2 DEF RosterTypes, HistoryTypes
  <2>2. book'[given[p]] = book[given[p]]
    BY <1>5, <2>1
  <2>3. CASE v \in given[p] .. Now
    <3>1. v \in 1 .. Now /\ book[v][p].band = book[given[p]][p].band
      BY <1>5, <2>1, <2>3 DEF BandInv
    <3> QED BY <1>5, <2>1, <2>2, <3>1
  <2>4. CASE v = Now + 1
    <3>1. Last(book)[p].band = book[given[p]][p].band
      BY <2>1, BandSuffices DEF WristbandKept
    <3>2. Last(book) \in [People -> Row] /\ Last(book)[p] \in Row
      BY DEF RosterTypes, BookTypes, Last
    <3>3. CASE p # w.p \/ w.kind # "role"
      <4>1. Applied(w)[p].band = Last(book)[p].band
        BY <1>3, <3>2, <3>3 DEF Applied, Row, Request
      <4> QED BY <1>5, <2>1, <2>2, <2>4, <3>1, <4>1
    <3>4. CASE p = w.p /\ w.kind = "role"
      <4>1. Applied(w)[p].band = w.before.band
        BY <3>2, <3>4 DEF Applied, Row
      <4>2. BandSent(w)
        BY DEF BandInv
      <4>3. w.before # Off /\ ~(given[p] > w.before.at)
        BY <1>2, <3>4, <4>2 DEF BandSent
      <4>4. w.before.at \in given[p] .. Now /\ w.before.band = book[w.before.at][p].band
        BY <1>5, <2>1, <3>4, <4>2, <4>3 DEF BandSent, BandTrue
      <4>5. w.before.band = book[given[p]][p].band
        BY <2>1, <4>4 DEF BandInv
      <4> QED BY <1>5, <2>1, <2>2, <2>4, <4>1, <4>5
    <3> QED BY <3>3, <3>4
  <2> QED BY <1>5, <2>1, <2>3, <2>4
<1> QED BY <1>7, <1>8 DEF BandInv

(* A change by others gives a band, takes one away or touches none.        *)
LEMMA BandOther ==
  ASSUME RosterTypes, BandInv, NEW q \in People,
         OtherGivesBand(q) \/ OtherRemoves(q) \/ \E rung \in {"reporter", "gone"} : OtherSetsRole(q, rung)
  PROVE  BandInv'
<1>1. Last(book) \in [People -> Row] /\ \A p \in People : Last(book)[p] \in Row
  BY DEF RosterTypes, BookTypes, Last
<1>2. UNCHANGED <<list, writes, raced>>
  BY DEF OtherGivesBand, OtherRemoves, OtherSetsRole, history
<1>3. PICK row \in Row : /\ book' = Append(book, [Last(book) EXCEPT ![q] = row])
                         /\ \/ row.band = Last(book)[q].band /\ given' = given
                            \/ given' = [given EXCEPT ![q] = Now + 1]
  <2>1. CASE OtherGivesBand(q)
    <3> DEFINE r == Last(book)[q]
               new == [r EXCEPT !.band = "new", !.rung = IF r.rung = "none" THEN "volunteer" ELSE r.rung]
    <3>1. new \in Row
      BY <1>1 DEF Row, Bands, Columns
    <3>2. [Last(book) EXCEPT ![q].band = "new", ![q].rung = IF @ = "none" THEN "volunteer" ELSE @]
            = [Last(book) EXCEPT ![q] = new]
      BY <1>1 DEF Row
    <3> QED BY <2>1, <3>1, <3>2 DEF OtherGivesBand
  <2>2. ASSUME NEW rung \in {"reporter", "gone"}, OtherSetsRole(q, rung)
        PROVE  \E row \in Row : /\ book' = Append(book, [Last(book) EXCEPT ![q] = row])
                                /\ row.band = Last(book)[q].band /\ given' = given
    <3>1. /\ [Last(book)[q] EXCEPT !.rung = rung] \in Row
          /\ [Last(book)[q] EXCEPT !.rung = rung].band = Last(book)[q].band
      BY <1>1 DEF Row, OffLadder, OffList, Columns
    <3> QED BY <1>1, <2>2, <3>1 DEF OtherSetsRole, history
  <2>3. CASE OtherRemoves(q)
    <3> DEFINE new == [Last(book)[q] EXCEPT !.rung = "none", !.band = ""]
    <3>1. new \in Row
      BY <1>1 DEF Row, Bands, OffLadder, OffList
    <3>2. [Last(book) EXCEPT ![q].rung = "none", ![q].band = ""] = [Last(book) EXCEPT ![q] = new]
      BY <1>1 DEF Row
    <3> QED BY <2>3, <3>1, <3>2 DEF OtherRemoves
  <2> QED BY <2>1, <2>2, <2>3
<1> DEFINE roster == [Last(book) EXCEPT ![q] = row]
<1>4. roster \in [People -> Row] /\ roster[q] = row /\ \A p \in People : p # q => roster[p] = Last(book)[p]
  BY <1>1
<1> HIDE DEF roster
<1>5. /\ Now \in Nat \ {0} /\ Now' = Now + 1 /\ book'[Now + 1] = roster
      /\ \A v \in 1 .. Now : book'[v] = book[v]
  BY <1>3, <1>4, VersionAdded DEF roster
<1>6. /\ list' # None => \A p \in People : BandTrue(list[p], p)'
      /\ \A j \in DOMAIN writes' : BandSent(writes[j])'
  BY <1>2, <1>3, <1>4, BandGrows DEF roster, SameRequest
<1>7. ASSUME NEW p \in People \ raced', NEW v \in given'[p] .. Now'
      PROVE  book'[v][p].band = book'[given'[p]][p].band
  <2>1. p \in People \ raced /\ given[p] \in 1 .. Now /\ given \in [People -> 1 .. Now]
    BY <1>2 DEF RosterTypes, HistoryTypes
  <2>2. CASE given'[p] = Now + 1
    BY <1>5, <2>2
  <2>3. CASE given'[p] = given[p] /\ (p = q => row.band = Last(book)[q].band)
    <3>1. book'[given[p]] = book[given[p]]
      BY <1>5, <2>1
    <3>2. CASE v \in given[p] .. Now
      <4>1. v \in 1 .. Now /\ book[v][p].band = book[given[p]][p].band
        BY <1>5, <2>1, <3>2 DEF BandInv
      <4> QED BY <1>5, <2>3, <3>1, <4>1
    <3>3. CASE v = Now + 1
      <4>1. Last(book)[p].band = book[given[p]][p].band
        BY <2>1, BandSuffices DEF WristbandKept
      <4> QED BY <1>4, <1>5, <2>3, <3>1, <3>3, <4>1
    <3> QED BY <1>5, <2>1, <2>3, <3>2, <3>3
  <2> QED BY <1>3, <2>1, <2>2, <2>3
<1> QED BY <1>6, <1>7 DEF BandInv

(* Every step keeps it.                                                    *)
LEMMA BandStepInv == RosterTypes /\ ReadFirst /\ BandInv /\ RosterStep => BandInv'
<1> SUFFICES ASSUME RosterTypes, ReadFirst, BandInv, RosterStep PROVE BandInv'
  OBVIOUS
<1>1. list # None => \A p \in People : BandTrue(list[p], p)
  BY DEF BandInv
<1>2. CASE ReadLands
  <2>1. PICK v \in read .. Now : list' = Listed(v)
    BY <1>2 DEF ReadLands
  <2>2. v \in 1 .. Now
    BY <1>2, <2>1 DEF ReadLands, RosterTypes, BookTypes, ListTypes, Now
  <2>3. \A p \in People : BandTrue(list'[p], p)
    BY <2>1, <2>2 DEF Listed, BandTrue
  <2>4. UNCHANGED <<book, writes, given, raced>>
    BY <1>2 DEF ReadLands, history
  <2> QED BY <2>3, <2>4, BandKept DEF SameRequest
<1>3. ASSUME Retry \/ Refocus PROVE BandInv'
  <2>1. UNCHANGED <<book, list, writes, given, raced>>
    BY <1>3 DEF Retry, Refocus
  <2> QED BY <1>1, <2>1, BandKept DEF SameRequest
<1>4. ASSUME NEW how \in {"failed", "denied"}, ReadFails(how) PROVE BandInv'
  <2>1. /\ UNCHANGED <<book, list, given, raced>>
        /\ writes' = [i \in DOMAIN writes |-> [writes[i] EXCEPT !.live = {}]]
    BY <1>4 DEF ReadFails, Unmount, history
  <2>2. DOMAIN writes' = DOMAIN writes /\ \A j \in DOMAIN writes : SameRequest(writes[j], writes'[j])
    BY <2>1, HearersSame
  <2> QED BY <1>1, <2>1, <2>2, BandKept
<1>5. CASE RosterPanels \/ UNCHANGED rosterVars
  <2>1. UNCHANGED <<book, list, given, raced>>
    BY <1>5, PanelStages
  <2>2. \/ UNCHANGED writes
        \/ \E deaf \in {{"submit"}, {"form", "submit"}} :
             writes' = [i \in DOMAIN writes |-> [writes[i] EXCEPT !.live = @ \ deaf]]
    BY <1>5 DEF RosterPanels, ClosePanel, SearchAgain, CreateNew, AddAnother, BackToSearch, OpenPanel, ToStage,
                rosterVars
  <2>3. ASSUME NEW deaf, writes' = [i \in DOMAIN writes |-> [writes[i] EXCEPT !.live = @ \ deaf]]
        PROVE  DOMAIN writes' = DOMAIN writes /\ \A j \in DOMAIN writes : SameRequest(writes[j], writes'[j])
    BY <2>3, HearersSame
  <2>4. DOMAIN writes' = DOMAIN writes /\ \A j \in DOMAIN writes : SameRequest(writes[j], writes'[j])
    BY <2>2, <2>3 DEF SameRequest
  <2> QED BY <1>1, <2>1, <2>4, BandKept
<1>6. CASE RosterSends
  <2>1. PICK w : w.stage = "sent" /\ w.kind # "role" /\ writes' = Append(writes, w)
    BY <1>6 DEF RosterSends, Create, CrewWrite, Write
  <2>2. UNCHANGED <<book, list, given, raced>>
    BY <1>6 DEF RosterSends, Create, CrewWrite, history
  <2>3. \A i \in DOMAIN writes' : \/ i \in DOMAIN writes /\ SameRequest(writes[i], writes'[i])
                                  \/ BandSent(writes'[i])
    BY <2>1, RequestAdded DEF SameRequest, BandSent
  <2> QED BY <1>1, <2>2, <2>3, BandKept
<1>7. ASSUME NEW i \in DOMAIN writes, Refuse(i) \/ Answer(i) \/ Return(i) PROVE BandInv'
  <2>1. UNCHANGED <<book, given, raced>>
    BY <1>7 DEF Refuse, Answer, Return, history
  <2>2. PICK stage : writes' = [writes EXCEPT ![i].stage = stage]
    BY <1>7 DEF Refuse, Answer, Return
  <2>3. \/ UNCHANGED list
        \/ writes[i].kind = "role" /\ list' = [list EXCEPT ![writes[i].p] = writes[i].before]
    BY <1>7 DEF Refuse, Answer, Return, Rollback
  <2>4. writes # <<>>
    OBVIOUS
  <2>5. list' # None => \A p \in People : BandTrue(list'[p], p)
    <3>1. BandSent(writes[i]) /\ list \in [People -> ListRow(Now)]
      BY <2>4 DEF BandInv, ReadFirst
    <3>2. \A p \in People : BandTrue(list[p], p)
      BY <1>1, <3>1, ListThere
    <3> QED BY <2>3, <3>1, <3>2 DEF BandSent
  <2> QED BY <2>1, <2>2, <2>5, StageSame, BandKept
<1> QED BY <1>2, <1>3, <1>4, <1>5, <1>6, <1>7, BandWriteRole, BandServe, BandOther
        DEF RosterStep, RosterWrites, RosterReads, ServerNext

(***************************************************************************)
(* The screen over the roster: types.                                      *)
(***************************************************************************)
MeasuredRow == [rung : Columns \cup {"none", "gone"}, band : Bands, crew : BOOLEAN, at : Nat]
Measurement == [what : {"pin", "hover", "pick", "early"}, p : People, row : MeasuredRow]
Timers == [p : People, timer : {"on", "early"}]
Handlers == [open : {None} \cup Timers, close : {"off", "on", "early"},
             overCard : People \cup {None}, overPop : BOOLEAN]
Drags == [p : People, from : Columns \cup {"none", "gone"}, allowed : SUBSET Columns,
          hit : Columns \cup {None}, springing : BOOLEAN]
Cards == [p : People, pinned : BOOLEAN]

PointerTypes == /\ at \in People \cup {"popover", None} /\ sel \in People \cup {None}
                /\ suppress \in BOOLEAN /\ moved \in BOOLEAN /\ slipped \in BOOLEAN
CardTypes == /\ card \in {None} \cup Cards /\ hover \in Handlers
             /\ drag \in {None} \cup Drags
QueueTypes == measuring \in Seq(Measurement) /\ Len(measuring) <= MaxMeasuring

ScreenTypes == PointerTypes /\ CardTypes /\ QueueTypes

(* They are what the runs check, and hold at first.                        *)
LEMMA ScreenTypesSuffice == ScreenTypes => LadderTypeOK
<1> SUFFICES ASSUME ScreenTypes PROVE LadderTypeOK
  OBVIOUS
<1>1. ASSUME NEW m \in Range(measuring)
      PROVE  m.what \in {"pin", "hover", "pick", "early"} /\ m.p \in People
  <2>1. PICK i \in DOMAIN measuring : m = measuring[i]
    BY <1>1 DEF Range
  <2>2. measuring[i] \in Measurement
    BY DEF ScreenTypes, QueueTypes
  <2> QED BY <2>1, <2>2 DEF Measurement
<1>2. /\ hover.close \in {"off", "on", "early"} /\ hover.overPop \in BOOLEAN
      /\ hover.overCard \in People \cup {None}
      /\ card = None \/ card \in Cards
  BY DEF ScreenTypes, CardTypes, Handlers
<1>3. drag # None => drag.p \in People /\ drag.allowed \subseteq Columns
  BY DEF ScreenTypes, CardTypes, Drags
<1> QED BY <1>1, <1>2, <1>3 DEF ScreenTypes, PointerTypes, QueueTypes, LadderTypeOK, Cards

(* The types hold at first.                                                *)
LEMMA ScreenInitTypes == LadderInit => ScreenTypes
<1> SUFFICES ASSUME LadderInit PROVE ScreenTypes
  OBVIOUS
<1>1. hover \in Handlers
  BY DEF NoHover, Handlers, LadderInit
<1>2. measuring \in Seq(Measurement) /\ Len(measuring) = 0
  BY DEF LadderInit
<1>3. QueueTypes /\ CardTypes
  BY <1>1, <1>2 DEF LadderInit, CardTypes, QueueTypes, MaxMeasuring
<1>4. PointerTypes
  BY DEF LadderInit, PointerTypes
<1> QED BY <1>3, <1>4 DEF ScreenTypes

(* The rungs a viewer may set are columns.                                 *)
LEMMA RungsAreColumns == \A p, r : RungsFor(p, r) \in SUBSET Columns
BY DEF RungsFor, Columns

(* The helpers keep the types of what they change.                         *)
LEMMA CloseTypes ==
  ASSUME ScreenTypes, NEW why, CloseHovercard(why)
  PROVE  /\ at' \in People \cup {"popover", None} /\ card' = None
         /\ hover' = NoHover /\ hover' \in Handlers /\ slipped' = FALSE
BY DEF CloseHovercard, ScreenTypes, PointerTypes, NoHover, Handlers

(* A card that is drawn is measured after those asked for before.          *)
LEMMA MeasureTypes ==
  ASSUME RosterTypes, ScreenTypes, Len(measuring) < MaxMeasuring,
         NEW what \in {"pin", "hover", "pick", "early"}, NEW p \in People, Measure(what, p)
  PROVE  /\ QueueTypes'
         /\ \/ UNCHANGED measuring /\ ~Drawn(p)
            \/ \E row \in MeasuredRow : measuring' = Append(measuring, [what |-> what, p |-> p, row |-> row])
<1>1. CASE ~Drawn(p)
  BY <1>1 DEF Measure, ScreenTypes, QueueTypes
<1>2. CASE Drawn(p)
  <2> DEFINE row == IF what = "pick" THEN list[p] ELSE Off
  <2>1. list \in [People -> ListRow(Now)] /\ Now \in Nat
    BY <1>2 DEF Drawn, BodyUp, RosterTypes, BookTypes, ListTypes, Now
  <2>2. ListRow(Now) \subseteq MeasuredRow /\ Off \in ListRow(Now)
    BY <2>1, OffTyped DEF ListRow, MeasuredRow
  <2>3. row \in MeasuredRow
    BY <2>1, <2>2
  <2>4. measuring' = Append(measuring, [what |-> what, p |-> p, row |-> row])
    BY <1>2 DEF Measure
  <2> HIDE DEF row
  <2>5. [what |-> what, p |-> p, row |-> row] \in Measurement
    BY <2>3 DEF Measurement
  <2>6. measuring' \in Seq(Measurement) /\ Len(measuring') = Len(measuring) + 1
    BY <2>4, <2>5 DEF ScreenTypes, QueueTypes
  <2> QED BY <2>3, <2>4, <2>6 DEF QueueTypes, MaxMeasuring, ScreenTypes
<1> QED BY <1>1, <1>2

(* The hover handlers keep the types of their refs.                        *)
LEMMA HoverTypes ==
  ASSUME ScreenTypes, NEW h \in Handlers, NEW p \in People
  PROVE  /\ CardHoverIn(h, p) \in Handlers /\ CardHoverOut(h, p) \in Handlers
         /\ HovercardHoverIn(h) \in Handlers /\ HovercardHoverOut(h) \in Handlers
         /\ ClearHoverTimers(h) \in Handlers
<1>1. Timer \in {"on", "early"}
  BY DEF Timer
<1>2. [p |-> p, timer |-> Timer] \in Timers
  BY <1>1 DEF Timers
<1>3. CardHoverIn(h, p) \in Handlers
  BY <1>2 DEF CardHoverIn, Handlers
<1>4. CardHoverOut(h, p) \in Handlers
  BY <1>1 DEF CardHoverOut, Handlers
<1>5. HovercardHoverIn(h) \in Handlers /\ HovercardHoverOut(h) \in Handlers
  BY <1>1 DEF HovercardHoverIn, HovercardHoverOut, Handlers
<1>6. ClearHoverTimers(h) \in Handlers
  BY DEF ClearHoverTimers, Handlers
<1> QED BY <1>3, <1>4, <1>5, <1>6

(* So does a pin.                                                          *)
LEMMA PinTypes ==
  ASSUME RosterTypes, ScreenTypes, Len(measuring) < MaxMeasuring, NEW h \in Handlers, NEW p \in People, Pin(h, p)
  PROVE  hover' \in Handlers \cup {hover} /\ sel' \in People \cup {None} /\ QueueTypes'
<1>1. CASE drag = None
  <2>1. Measure("pin", p) /\ hover' = ClearHoverTimers(h) /\ sel' = p
    BY <1>1 DEF Pin, Select
  <2> QED BY <2>1, MeasureTypes, HoverTypes
<1>2. CASE drag # None
  BY <1>2 DEF Pin, ScreenTypes, PointerTypes, QueueTypes
<1> QED BY <1>1, <1>2

(***************************************************************************)
(* Every step of the screen is a step of the roster, and keeps the types.  *)
(***************************************************************************)
ScreenKept == RosterStep /\ ScreenTypes'

(* All but a read that fails leave the body up.                            *)
RosterGoesOn ==
  \/ RosterWrites \/ ReadLands \/ Retry \/ Refocus \/ RosterPanels \/ RosterSends \/ ServerNext
  \/ UNCHANGED rosterVars

(* A list drawn again keeps the types of the screen.                       *)
LEMMA RedrawnTypes == ScreenTypes /\ Redrawn => ScreenTypes'
<1> SUFFICES ASSUME ScreenTypes, Redrawn PROVE ScreenTypes'
  OBVIOUS
<1>1. at' \in {at, None} /\ slipped' \in BOOLEAN
  BY DEF Redrawn, ScreenTypes, PointerTypes
<1> QED BY <1>1 DEF Redrawn, ScreenTypes, PointerTypes, CardTypes, QueueTypes

(* So does a step that leaves the screen alone.                            *)
LEMMA LadderStays == ScreenTypes /\ UNCHANGED ladderVars => ScreenTypes'
BY DEF ladderVars, ScreenTypes, PointerTypes, CardTypes, QueueTypes

(* A write of a role is a step of the roster.                              *)
LEMMA SetRoleSteps ==
  ASSUME NEW p \in People, NEW rung \in Columns \cup {"gone"}, SetRole(p, rung)
  PROVE  RosterStep
BY DEF SetRole, RosterStep, RosterWrites

(* What the roster does beside the screen leaves the body up.              *)
LEMMA RosterNextSteps == RosterNext => RosterGoesOn
<1> SUFFICES ASSUME RosterNext PROVE RosterGoesOn
  OBVIOUS
<1>1. CASE Retry \/ Refocus
  BY <1>1 DEF RosterGoesOn
<1>2. CASE ClosePanel
  BY <1>2 DEF RosterGoesOn, RosterPanels
<1>3. CASE AddPersonNext
  <2>1. CASE SearchAgain \/ CreateNew \/ AddAnother \/ BackToSearch
    BY <2>1 DEF RosterGoesOn, RosterPanels
  <2>2. ASSUME NEW p \in People, NEW rung \in Columns, Enrol(p, rung)
        PROVE  RosterGoesOn
    BY <2>2 DEF Enrol, RosterGoesOn, RosterWrites
  <2>3. ASSUME NEW p \in People, NEW rung \in Columns, Create(p, rung)
        PROVE  RosterGoesOn
    BY <2>3 DEF RosterGoesOn, RosterSends
  <2> QED BY <1>3, <2>1, <2>2, <2>3 DEF AddPersonNext
<1>4. CASE ServerNext
  BY <1>4 DEF RosterGoesOn
<1>5. CASE \E p \in People : AddToCrew(p) \/ RemoveFromCrew(p)
  BY <1>5 DEF AddToCrew, RemoveFromCrew, RosterGoesOn, RosterSends
<1> QED BY <1>1, <1>2, <1>3, <1>4, <1>5 DEF RosterNext

(* All of these are steps of the roster.                                   *)
LEMMA GoesOnSteps == RosterGoesOn => RosterStep
BY DEF RosterGoesOn, RosterStep, RosterReads

(* The pointer's steps leave the roster alone, but for the drop.           *)
LEMMA MeasuredKept == RosterTypes /\ ScreenTypes /\ Measured => ScreenKept
<1> SUFFICES ASSUME RosterTypes, ScreenTypes, Measured PROVE ScreenKept
  OBVIOUS
<1> DEFINE m == Head(measuring)
<1>1. m \in Measurement /\ QueueTypes'
  <2>1. measuring \in Seq(Measurement) /\ measuring # <<>> /\ measuring' = Tail(measuring)
        /\ Len(measuring) <= MaxMeasuring
    BY DEF Measured, ScreenTypes, QueueTypes
  <2>2. measuring' \in Seq(Measurement) /\ Len(measuring') = Len(measuring) - 1 /\ m \in Measurement
    BY <2>1
  <2> QED BY <2>1, <2>2 DEF QueueTypes, MaxMeasuring
<1> HIDE DEF m
<1>2. UNCHANGED <<rosterVars, at, hover, suppress, sel>>
  BY DEF Measured
<1>3. CASE m.what = "pick"
  <2>1. drag' = [p |-> m.p, from |-> m.row.rung, allowed |-> RungsFor(m.p, m.row), hit |-> None,
                 springing |-> FALSE]
        /\ moved' = FALSE /\ UNCHANGED <<card, slipped>>
    BY <1>3 DEF Measured, m
  <2>2. drag' \in Drags
    BY <1>1, <2>1, RungsAreColumns DEF Measurement, MeasuredRow, Drags
  <2> QED BY <1>1, <1>2, <2>1, <2>2
          DEF ScreenKept, RosterStep, ScreenTypes, PointerTypes, CardTypes
<1>4. CASE m.what # "pick"
  <2>1. card' = [p |-> m.p, pinned |-> m.what = "pin"] /\ slipped' \in BOOLEAN /\ UNCHANGED <<drag, moved>>
    BY <1>4 DEF Measured, m, ScreenTypes, PointerTypes
  <2>2. card' \in Cards
    BY <1>1, <2>1 DEF Measurement, Cards
  <2> QED BY <1>1, <1>2, <2>1, <2>2
          DEF ScreenKept, RosterStep, ScreenTypes, PointerTypes, CardTypes
<1> QED BY <1>3, <1>4

(* The pointer goes somewhere else.                                        *)
LEMMA HoverToKept ==
  ASSUME RosterTypes, ScreenTypes, NEW x \in People \cup {"popover", None}, HoverTo(x)
  PROVE  ScreenKept
<1> DEFINE out == CASE at = None -> hover
                    [] at = "popover" -> HovercardHoverOut(hover)
                    [] OTHER -> CardHoverOut(hover, at)
<1>1. out \in Handlers
  <2>1. hover \in Handlers /\ at \in People \cup {"popover", None}
    BY DEF ScreenTypes, CardTypes, PointerTypes
  <2>2. CASE at = None
    BY <2>1, <2>2, LadderAssumption
  <2>3. CASE at = "popover"
    <3>1. out = HovercardHoverOut(hover)
      BY <2>3, LadderAssumption
    <3>2. HovercardHoverOut(hover) \in Handlers
      BY <2>1 DEF HovercardHoverOut, Handlers, Timer
    <3> QED BY <3>1, <3>2
  <2>4. CASE at \in People
    <3>1. out = CardHoverOut(hover, at)
      BY <2>4, LadderAssumption, RosterAssumption
    <3> QED BY <2>1, <2>4, <3>1, HoverTypes
  <2> QED BY <2>1, <2>2, <2>3, <2>4
<1>2. hover' = CASE x = None -> out
                 [] x = "popover" -> HovercardHoverIn(out)
                 [] OTHER -> CardHoverIn(out, x)
  BY DEF HoverTo
<1> HIDE DEF out
<1>3. hover' \in Handlers
  <2>1. CASE x = None
    BY <1>1, <1>2, <2>1, LadderAssumption
  <2>2. CASE x = "popover"
    <3>1. hover' = HovercardHoverIn(out)
      BY <1>2, <2>2, LadderAssumption
    <3> QED BY <1>1, <3>1 DEF HovercardHoverIn, Handlers
  <2>3. CASE x \in People
    <3>1. hover' = CardHoverIn(out, x)
      BY <1>2, <2>3, LadderAssumption, RosterAssumption
    <3> QED BY <1>1, <2>3, <3>1, HoverTypes
  <2> QED BY <2>1, <2>2, <2>3
<1>4. at' = x /\ slipped' \in BOOLEAN
      /\ UNCHANGED <<rosterVars, card, measuring, suppress, drag, moved, sel>>
  BY DEF HoverTo, ScreenTypes, PointerTypes
<1> QED BY <1>3, <1>4 DEF ScreenKept, RosterStep, ScreenTypes, PointerTypes, CardTypes, QueueTypes

(* A timer fires.                                                          *)
LEMMA TimersKept ==
  ASSUME RosterTypes, ScreenTypes, OpenTimerFires \/ CloseTimerFires
  PROVE  ScreenKept
<1>1. CASE OpenTimerFires
  <2>1. UNCHANGED <<rosterVars, at, card, suppress, drag, moved, sel, slipped>>
        /\ hover' = [hover EXCEPT !.open = None] /\ hover.open # None
        /\ Len(measuring) < MaxMeasuring
    BY <1>1 DEF OpenTimerFires
  <2>2. hover' \in Handlers /\ hover.open.p \in People
    BY <2>1 DEF ScreenTypes, CardTypes, Handlers, Timers
  <2>3. QueueTypes'
    <3>1. CASE UNCHANGED measuring
      BY <3>1 DEF ScreenTypes, QueueTypes
    <3>2. CASE \E what \in {"early", "hover"} : Measure(what, hover.open.p)
      BY <2>1, <2>2, <3>2, MeasureTypes
    <3> QED BY <1>1, <3>1, <3>2 DEF OpenTimerFires
  <2> QED BY <2>1, <2>2, <2>3 DEF ScreenKept, RosterStep, ScreenTypes, PointerTypes, CardTypes
<1>2. CASE CloseTimerFires
  <2>1. UNCHANGED <<rosterVars, measuring, suppress, drag, moved, sel>>
    BY <1>2 DEF CloseTimerFires
  <2>2. CASE hover.overCard = None /\ ~hover.overPop
    <3>1. \E why : CloseHovercard(why)
      BY <1>2, <2>2 DEF CloseTimerFires
    <3> QED BY <2>1, <3>1, CloseTypes DEF ScreenKept, RosterStep, ScreenTypes, PointerTypes, CardTypes, QueueTypes
  <2>3. CASE ~(hover.overCard = None /\ ~hover.overPop)
    <3>1. hover' = [hover EXCEPT !.close = "off"] /\ UNCHANGED <<at, card, slipped>>
      BY <1>2, <2>3 DEF CloseTimerFires
    <3>2. hover' \in Handlers
      BY <3>1 DEF ScreenTypes, CardTypes, Handlers
    <3> QED BY <2>1, <3>1, <3>2 DEF ScreenKept, RosterStep, ScreenTypes, PointerTypes, CardTypes, QueueTypes
  <2> QED BY <2>2, <2>3
<1> QED BY <1>1, <1>2

(* A card is pressed.                                                      *)
LEMMA CardPressKept ==
  ASSUME RosterTypes, ScreenTypes, NEW p \in People, CardPress(p)
  PROVE  ScreenKept
<1> DEFINE outside == Outside(p)
           h == IF outside THEN NoHover ELSE hover
<1>1. h \in Handlers
  BY DEF ScreenTypes, CardTypes, NoHover, Handlers
<1>2. /\ UNCHANGED <<rosterVars, at, suppress, drag>> /\ moved' = FALSE
      /\ card' = IF outside THEN None ELSE card
      /\ slipped' = IF outside THEN FALSE ELSE slipped
      /\ HandleCardPress(h, p) /\ Len(measuring) < MaxMeasuring
  BY DEF CardPress
<1> HIDE DEF h, outside
<1>3. hover' \in Handlers /\ sel' \in People \cup {None} /\ QueueTypes'
  <2>1. CASE moved
    BY <1>1, <1>2, <2>1 DEF HandleCardPress, ScreenTypes, PointerTypes, QueueTypes
  <2>2. CASE ~moved
    <3>1. Pin(h, p)
      BY <1>2, <2>2 DEF HandleCardPress
    <3> QED BY <1>1, <1>2, <3>1, PinTypes DEF ScreenTypes, CardTypes
  <2> QED BY <2>1, <2>2
<1> QED BY <1>2, <1>3 DEF ScreenKept, RosterStep, ScreenTypes, PointerTypes, CardTypes

(* A drag is begun, moved, dropped, or springs back.                       *)
LEMMA DragKept ==
  ASSUME RosterTypes, ScreenTypes,
         \/ \E p \in People : StartDrag(p)
         \/ \E c \in Columns \cup {None} : OnDragMove(c)
         \/ DropCommitted \/ DropReturned \/ SpringEnds
  PROVE  ScreenKept
<1>1. ASSUME NEW p \in People, StartDrag(p) PROVE ScreenKept
  <2>1. /\ UNCHANGED <<rosterVars, suppress, drag, moved, sel>>
        /\ CloseHovercard("drag") /\ Measure("pick", p) /\ Len(measuring) < MaxMeasuring
    BY <1>1 DEF StartDrag
  <2>2. QueueTypes'
    BY <2>1, MeasureTypes
  <2> QED BY <2>1, <2>2, CloseTypes DEF ScreenKept, RosterStep, ScreenTypes, PointerTypes, CardTypes
<1>2. ASSUME NEW c \in Columns \cup {None}, OnDragMove(c) PROVE ScreenKept
  <2>1. drag # None /\ drag' = [drag EXCEPT !.hit = c, !.springing = FALSE] /\ moved' = TRUE
        /\ UNCHANGED <<rosterVars, at, card, measuring, hover, suppress, sel, slipped>>
    BY <1>2 DEF OnDragMove
  <2>2. drag' \in Drags
    BY <2>1 DEF ScreenTypes, CardTypes, Drags
  <2> QED BY <2>1, <2>2 DEF ScreenKept, RosterStep, ScreenTypes, PointerTypes, CardTypes, QueueTypes
<1>3. CASE DropCommitted
  <2>1. drag # None /\ ValidTarget /\ SetRole(drag.p, drag.hit) /\ drag' = None /\ suppress' = TRUE
        /\ UNCHANGED <<at, card, measuring, hover, moved, sel, slipped>>
    BY <1>3 DEF DropCommitted
  <2>2. drag.p \in People /\ drag.hit \in Columns
    BY <2>1 DEF ScreenTypes, CardTypes, Drags, ValidTarget
  <2>3. RosterStep
    BY <2>1, <2>2, SetRoleSteps
  <2> QED BY <2>1, <2>3 DEF ScreenKept, ScreenTypes, PointerTypes, CardTypes, QueueTypes
<1>4. CASE DropReturned \/ SpringEnds
  <2>1. drag # None /\ drag' \in {None, [drag EXCEPT !.springing = TRUE]}
        /\ UNCHANGED <<rosterVars, at, card, measuring, hover, suppress, moved, sel, slipped>>
    BY <1>4 DEF DropReturned, SpringEnds
  <2>2. drag' \in {None} \cup Drags
    BY <2>1 DEF ScreenTypes, CardTypes, Drags
  <2> QED BY <2>1, <2>2 DEF ScreenKept, RosterStep, ScreenTypes, PointerTypes, CardTypes, QueueTypes
<1> QED BY <1>1, <1>2, <1>3, <1>4

(* All the pointer does.                                                   *)
LEMMA PointerKept ==
  ASSUME RosterTypes, ScreenTypes, PointerNext
  PROVE  ScreenKept
<1>1. CASE PointerMovesAfterDrop
  <2>1. suppress' = FALSE /\ UNCHANGED <<rosterVars, at, card, measuring, hover, drag, moved, sel, slipped>>
    BY <1>1 DEF PointerMovesAfterDrop
  <2> QED BY <2>1 DEF ScreenKept, RosterStep, ScreenTypes, PointerTypes, CardTypes, QueueTypes
<1>2. CASE PressOutside
  <2>1. CloseHovercard("outside") /\ UNCHANGED <<rosterVars, measuring, suppress, drag, moved, sel>>
    BY <1>2 DEF PressOutside
  <2> QED BY <2>1, CloseTypes DEF ScreenKept, RosterStep, ScreenTypes, PointerTypes, CardTypes, QueueTypes
<1> QED BY <1>1, <1>2, MeasuredKept, TimersKept, HoverToKept, CardPressKept, DragKept DEF PointerNext

(* Enter, Esc and the keys that move.                                      *)
LEMMA KeysKept ==
  ASSUME RosterTypes, ScreenTypes, KeyEnter \/ KeyEscape \/ \E p \in People : KeyMove(p)
  PROVE  ScreenKept
<1>1. ASSUME NEW p \in People, KeyMove(p) PROVE ScreenKept
  <2>1. UNCHANGED <<rosterVars, at, card, suppress, drag, moved, slipped>> /\ Len(measuring) < MaxMeasuring
    BY <1>1 DEF KeyMove
  <2>2. hover' \in Handlers /\ sel' \in People \cup {None} /\ QueueTypes'
    <3>1. CASE Pinned
      <4>1. Pin(hover, p)
        BY <1>1, <3>1 DEF KeyMove
      <4> QED BY <2>1, <4>1, PinTypes DEF ScreenTypes, CardTypes
    <3>2. CASE ~Pinned
      BY <1>1, <3>2 DEF KeyMove, Select, ScreenTypes, CardTypes, QueueTypes
    <3> QED BY <3>1, <3>2
  <2> QED BY <2>1, <2>2 DEF ScreenKept, RosterStep, ScreenTypes, PointerTypes, CardTypes
<1>2. CASE KeyEnter
  <2>1. UNCHANGED <<rosterVars, at, card, suppress, drag, moved>> /\ Len(measuring) < MaxMeasuring
        /\ Pin(hover, sel) /\ slipped' \in BOOLEAN /\ sel \in People
    BY <1>2 DEF KeyEnter, ScreenTypes, PointerTypes
  <2>2. hover' \in Handlers /\ sel' \in People \cup {None} /\ QueueTypes'
    BY <2>1, PinTypes DEF ScreenTypes, CardTypes
  <2> QED BY <2>1, <2>2 DEF ScreenKept, RosterStep, ScreenTypes, PointerTypes, CardTypes
<1>3. CASE KeyEscape
  <2>1. CASE ClosePanel /\ UNCHANGED ladderVars
    BY <2>1, LadderStays DEF ScreenKept, RosterStep, RosterPanels
  <2>2. CASE CloseHovercard("esc") /\ UNCHANGED <<rosterVars, measuring, suppress, drag, moved, sel>>
    BY <2>2, CloseTypes DEF ScreenKept, RosterStep, ScreenTypes, PointerTypes, CardTypes, QueueTypes
  <2>3. CASE Select(None)
             /\ UNCHANGED <<rosterVars, at, card, measuring, hover, suppress, drag, moved, cause, slipped>>
    BY <2>3 DEF ScreenKept, RosterStep, Select, ScreenTypes, PointerTypes, CardTypes, QueueTypes
  <2> QED BY <1>3, <2>1, <2>2, <2>3 DEF KeyEscape
<1> QED BY <1>1, <1>2, <1>3

(* A role is set from a card's menu or from the popover.                   *)
LEMMA ScreenWritesKept ==
  ASSUME RosterTypes, ScreenTypes, WriteNext
  PROVE  ScreenKept
<1>1. ASSUME NEW p \in People, NEW rung \in Columns, MoveMenu(p, rung) PROVE ScreenKept
  BY <1>1, SetRoleSteps, RedrawnTypes DEF MoveMenu, ScreenKept
<1>2. Popover => card.p \in People
  BY DEF Popover, ScreenTypes, CardTypes, Cards
<1>3. ASSUME NEW rung \in Columns, RoleMenu(rung) PROVE ScreenKept
  BY <1>2, <1>3, SetRoleSteps, RedrawnTypes DEF RoleMenu, ScreenKept
<1>4. CASE DoRemove
  BY <1>2, <1>4, SetRoleSteps, RedrawnTypes DEF DoRemove, ScreenKept
<1> QED BY <1>1, <1>3, <1>4 DEF WriteNext

(* All steps of the screen.                                                *)
LEMMA ScreenStep ==
  ASSUME RosterTypes, ScreenTypes, [LadderNext]_screenVars
  PROVE  ScreenKept
<1>1. CASE Loaded
  <2>1. ReadLands /\ (UNCHANGED ladderVars \/ Redrawn)
    BY <1>1 DEF Loaded
  <2> QED BY <2>1, LadderStays, RedrawnTypes DEF ScreenKept, RosterStep, RosterReads
<1>2. CASE RosterNext /\ IF list = None THEN UNCHANGED ladderVars ELSE Redrawn
  BY <1>2, RosterNextSteps, GoesOnSteps, LadderStays, RedrawnTypes DEF ScreenKept
<1>3. ASSUME NEW how \in {"failed", "denied"}, BodyLost(how) PROVE ScreenKept
  <2>1. /\ at' = None /\ card' = None /\ measuring' = <<>> /\ hover' = NoHover
        /\ suppress' = FALSE /\ drag' = None /\ moved' = FALSE /\ slipped' = FALSE
        /\ UNCHANGED sel /\ ReadFails(how)
    BY <1>3 DEF BodyLost
  <2>2. NoHover \in Handlers
    BY DEF NoHover, Handlers
  <2>3. QueueTypes'
    BY <2>1 DEF QueueTypes, MaxMeasuring
  <2> QED BY <2>1, <2>2, <2>3
          DEF ScreenKept, RosterStep, RosterReads, ScreenTypes, PointerTypes, CardTypes
<1>4. ASSUME NEW which \in {"addPerson", "myCrews"}, PanelOpens(which) PROVE ScreenKept
  <2>1. OpenPanel(which) /\ CloseHovercard("panel") /\ UNCHANGED <<measuring, suppress, drag, moved, sel>>
    BY <1>4 DEF PanelOpens
  <2> QED BY <2>1, CloseTypes
          DEF ScreenKept, RosterStep, RosterPanels, ScreenTypes, PointerTypes, CardTypes, QueueTypes
<1>5. CASE UNCHANGED screenVars
  BY <1>5, LadderStays DEF screenVars, ScreenKept, RosterStep
<1> QED BY <1>1, <1>2, <1>3, <1>4, <1>5, PointerKept, ScreenWritesKept, KeysKept DEF LadderNext

(***************************************************************************)
(* The screen's invariant: the types, a roster read before it is written,  *)
(* what is said of the roster, and then of the hovercard.                  *)
(***************************************************************************)
ScreenInv == RosterTypes /\ ReadFirst /\ ScreenTypes

(* It holds at first, with nothing read or written.                        *)
LEMMA ScreenInitInv == LadderInit => ScreenInv
<1> SUFFICES ASSUME LadderInit PROVE ScreenInv
  OBVIOUS
<1>1. RosterInit /\ writes = <<>>
  BY DEF LadderInit, RosterInit
<1> QED BY <1>1, RosterInitTypes, ScreenInitTypes DEF ScreenInv, ReadFirst

(* Every step keeps it, and is a step of the roster.                       *)
LEMMA ScreenStepInv == ScreenInv /\ [LadderNext]_screenVars => ScreenInv' /\ RosterStep
<1> SUFFICES ASSUME ScreenInv, [LadderNext]_screenVars PROVE ScreenInv' /\ RosterStep
  OBVIOUS
<1>1. RosterStep /\ ScreenTypes'
  BY ScreenStep DEF ScreenInv, ScreenKept
<1>2. RosterTypes' /\ ReadFirst'
  BY <1>1, RosterStepTypes, RosterStepReadFirst DEF ScreenInv
<1> QED BY <1>1, <1>2 DEF ScreenInv

(* Every state of the screen is typed, and no request is out before the    *)
(* list was read (PeopleScreen.tsx: the body renders only then).           *)
THEOREM ScreenIsTyped == LadderSpec => []ScreenInv
<1>1. LadderInit => ScreenInv
  BY ScreenInitInv
<1>2. ScreenInv /\ [LadderNext]_screenVars => ScreenInv'
  BY ScreenStepInv
<1> QED BY <1>1, <1>2, PTL DEF LadderSpec

(* Optimism is undone and nothing of ours is missing: with no read and no  *)
(* request out, the list is the server's roster as of our last accepted    *)
(* write or later (useRoster.ts, writeRole and settle).                    *)
THEOREM RosterStaysCurrent == LadderSpec => []RosterCurrent
<1>1. LadderInit => ScreenInv /\ CurrentInv
  BY ScreenInitInv, CurrentInitInv DEF LadderInit
<1>2. ScreenInv /\ CurrentInv /\ [LadderNext]_screenVars => ScreenInv' /\ CurrentInv'
  BY ScreenStepInv, CurrentStepInv DEF ScreenInv
<1>3. ScreenInv /\ CurrentInv => RosterCurrent
  BY CurrentSuffices DEF ScreenInv
<1> QED BY <1>1, <1>2, <1>3, PTL DEF LadderSpec

(* A change of role never takes a wristband away (useRoster.ts, writeRole: *)
(* the request carries the band of the row it was made from).              *)
THEOREM RosterKeepsBands == LadderSpec => []WristbandKept
<1>1. LadderInit => ScreenInv /\ BandInv
  BY ScreenInitInv, BandInitInv DEF LadderInit
<1>2. ScreenInv /\ BandInv /\ [LadderNext]_screenVars => ScreenInv' /\ BandInv'
  BY ScreenStepInv, BandStepInv DEF ScreenInv
<1>3. ScreenInv /\ BandInv => WristbandKept
  BY BandSuffices DEF ScreenInv
<1> QED BY <1>1, <1>2, <1>3, PTL DEF LadderSpec

(***************************************************************************)
(* A pinned hovercard stays.  While it is pinned, or a pin is being        *)
(* measured, nothing the hover started before is left: no measurement of   *)
(* a hover behind it, and no timer but those of a hover that came later.   *)
(***************************************************************************)
Asked(what) == \E i \in DOMAIN measuring : measuring[i].what = what
PinsLast == \A i, j \in DOMAIN measuring :
               i < j /\ measuring[i].what = "pin" => measuring[j].what # "hover"
QuietTimers == hover.close # "on" /\ (hover.open # None => hover.open.timer # "on")

PinInv == /\ PinsLast /\ (Pinned => ~Asked("hover"))
          /\ Pinned \/ Asked("pin") => QuietTimers

(* The queue of measurements: one more at the end, or one less in front.   *)
LEMMA QueueAppended ==
  ASSUME ScreenTypes, NEW m \in Measurement, measuring' = Append(measuring, m)
  PROVE  /\ \A what : Asked(what)' <=> Asked(what) \/ m.what = what
         /\ PinsLast /\ (m.what = "hover" => ~Asked("pin")) => PinsLast'
<1>1. measuring \in Seq(Measurement)
  BY DEF ScreenTypes, QueueTypes
<1>2. /\ Len(measuring') = Len(measuring) + 1 /\ Len(measuring) \in Nat
      /\ DOMAIN measuring = 1 .. Len(measuring) /\ DOMAIN measuring' = 1 .. (Len(measuring) + 1)
      /\ measuring'[Len(measuring) + 1] = m
      /\ \A i \in DOMAIN measuring : measuring'[i] = measuring[i]
  BY <1>1
<1>3. ASSUME NEW what PROVE Asked(what)' <=> Asked(what) \/ m.what = what
  <2>1. Asked(what)' => Asked(what) \/ m.what = what
    BY <1>2 DEF Asked
  <2>2. Asked(what) => Asked(what)'
    BY <1>2 DEF Asked
  <2>3. m.what = what => Asked(what)'
    BY <1>2 DEF Asked
  <2> QED BY <2>1, <2>2, <2>3
<1>4. ASSUME PinsLast, m.what = "hover" => ~Asked("pin") PROVE PinsLast'
  BY <1>2, <1>4 DEF PinsLast, Asked
<1> QED BY <1>3, <1>4

(* The first measurement answers.                                          *)
LEMMA QueueTaken ==
  ASSUME ScreenTypes, measuring # <<>>, measuring' = Tail(measuring)
  PROVE  /\ \A what : Asked(what) <=> Asked(what)' \/ Head(measuring).what = what
         /\ PinsLast => PinsLast' /\ (Head(measuring).what = "pin" => ~Asked("hover")')
<1>1. measuring \in Seq(Measurement)
  BY DEF ScreenTypes, QueueTypes
<1>2. /\ Len(measuring') = Len(measuring) - 1 /\ Len(measuring) \in Nat \ {0}
      /\ DOMAIN measuring = 1 .. Len(measuring) /\ DOMAIN measuring' = 1 .. (Len(measuring) - 1)
      /\ measuring[1] = Head(measuring)
      /\ \A i \in DOMAIN measuring' : measuring'[i] = measuring[i + 1] /\ i + 1 \in DOMAIN measuring
  BY <1>1
<1>3. ASSUME NEW what PROVE Asked(what) <=> Asked(what)' \/ Head(measuring).what = what
  <2>1. ASSUME NEW i \in DOMAIN measuring, measuring[i].what = what
        PROVE  Asked(what)' \/ Head(measuring).what = what
    <3>1. CASE i = 1
      BY <1>2, <2>1, <3>1
    <3>2. CASE i # 1
      <4>1. i - 1 \in DOMAIN measuring' /\ measuring'[i - 1] = measuring[i]
        BY <1>2, <3>2
      <4> QED BY <2>1, <4>1 DEF Asked
    <3> QED BY <3>1, <3>2
  <2>2. Asked(what)' => Asked(what)
    BY <1>2 DEF Asked
  <2>3. Head(measuring).what = what => Asked(what)
    BY <1>2 DEF Asked
  <2> QED BY <2>1, <2>2, <2>3 DEF Asked
<1>4. ASSUME PinsLast PROVE PinsLast' /\ (Head(measuring).what = "pin" => ~Asked("hover")')
  <2>1. PinsLast'
    BY <1>2, <1>4 DEF PinsLast
  <2>2. Head(measuring).what = "pin" => ~Asked("hover")'
    BY <1>2, <1>4 DEF PinsLast, Asked
  <2> QED BY <2>1, <2>2
<1> QED BY <1>3, <1>4

(* A card is measured, if it is drawn.                                     *)
LEMMA QueueMeasures ==
  ASSUME ScreenInv, Len(measuring) < MaxMeasuring,
         NEW what \in {"pin", "hover", "pick", "early"}, NEW p \in People, Measure(what, p)
  PROVE  /\ \A other : Asked(other)' <=> Asked(other) \/ (Drawn(p) /\ other = what)
         /\ PinsLast /\ (what = "hover" => ~Asked("pin")) => PinsLast'
<1>1. CASE ~Drawn(p)
  BY <1>1 DEF Measure, Asked, PinsLast
<1>2. CASE Drawn(p)
  <2>1. PICK row \in MeasuredRow : measuring' = Append(measuring, [what |-> what, p |-> p, row |-> row])
    BY <1>2, MeasureTypes DEF ScreenInv
  <2> DEFINE m == [what |-> what, p |-> p, row |-> row]
  <2>2. m \in Measurement /\ m.what = what
    BY DEF Measurement
  <2> HIDE DEF m
  <2>3. measuring' = Append(measuring, m)
    BY <2>1 DEF m
  <2> QED BY <1>2, <2>2, <2>3, QueueAppended DEF ScreenInv
<1> QED BY <1>1, <1>2

(* The helpers keep it.                                                    *)
LEMMA CloseKeepsPin ==
  ASSUME PinInv, UNCHANGED measuring \/ measuring' = <<>>, card' = None, hover' = NoHover
  PROVE  PinInv'
<1>1. PinsLast'
  BY DEF PinInv, PinsLast
<1>2. QuietTimers' /\ ~Pinned'
  BY DEF QuietTimers, NoHover, Pinned
<1> QED BY <1>1, <1>2 DEF PinInv

(* A step that leaves hovercard, queue and timers alone keeps it.          *)
LEMMA UnchangedKeepsPin == PinInv /\ UNCHANGED <<card, measuring, hover>> => PinInv'
BY DEF PinInv, PinsLast, Pinned, Asked, QuietTimers

(* A pin clears the timers and is measured last.                           *)
LEMMA PinKeepsPin ==
  ASSUME ScreenInv, PinInv, Len(measuring) < MaxMeasuring, NEW h \in Handlers, NEW p \in People,
         Pin(h, p), drag = None \/ h = hover, UNCHANGED card \/ card' = None
  PROVE  PinInv'
<1>1. CASE drag = None
  <2>1. hover' = ClearHoverTimers(h) /\ Measure("pin", p)
    BY <1>1 DEF Pin
  <2>2. QuietTimers'
    BY <2>1 DEF QuietTimers, ClearHoverTimers, Handlers
  <2>3. PinsLast' /\ (Asked("hover")' => Asked("hover"))
    BY <2>1, QueueMeasures DEF PinInv
  <2>4. Pinned' => Pinned
    BY DEF Pinned
  <2> QED BY <2>2, <2>3, <2>4 DEF PinInv
<1>2. CASE drag # None
  <2>1. UNCHANGED <<hover, measuring>>
    BY <1>2 DEF Pin
  <2> QED BY <2>1 DEF PinInv, PinsLast, Pinned, Asked, QuietTimers
<1> QED BY <1>1, <1>2

(* While something is being measured, a hover starts an early timer; while *)
(* a hovercard is pinned, it starts none.                                  *)
LEMMA HoverKeepsQuiet ==
  ASSUME ScreenInv, Pinned \/ Asked("pin"), NEW h \in Handlers, NEW p \in People,
         h.close # "on", h.open # None => h.open.timer # "on"
  PROVE  /\ \A k \in {CardHoverIn(h, p), CardHoverOut(h, p), HovercardHoverIn(h), HovercardHoverOut(h)} :
              k.close # "on" /\ (k.open # None => k.open.timer # "on")
<1>1. Pinned \/ Timer = "early"
  <2>1. Asked("pin") => measuring # <<>>
    BY DEF Asked
  <2> QED BY <2>1 DEF Timer
<1>2. CardHoverIn(h, p).close # "on" /\ (CardHoverIn(h, p).open # None => CardHoverIn(h, p).open.timer # "on")
  BY <1>1 DEF CardHoverIn, Handlers
<1>3. card = [p |-> p, pinned |-> FALSE] => ~Pinned
  BY DEF Pinned
<1>4. CardHoverOut(h, p).close # "on" /\ CardHoverOut(h, p).open = None
  BY <1>1, <1>3 DEF CardHoverOut, Handlers
<1>5. HovercardHoverIn(h).close # "on" /\ HovercardHoverIn(h).open = h.open
  BY DEF HovercardHoverIn, Handlers
<1>6. HovercardHoverOut(h).close # "on" /\ HovercardHoverOut(h).open = h.open
  BY <1>1 DEF HovercardHoverOut, Handlers
<1> QED BY <1>2, <1>4, <1>5, <1>6

(* The first measurement answers: the pin is up, with no hover behind it.  *)
LEMMA MeasuredKeepsPin == ScreenInv /\ PinInv /\ Measured => PinInv'
<1> SUFFICES ASSUME ScreenInv, PinInv, Measured PROVE PinInv'
  OBVIOUS
<1> DEFINE m == Head(measuring)
<1>1. /\ measuring # <<>> /\ measuring' = Tail(measuring) /\ UNCHANGED hover
      /\ m.what = "pick" => UNCHANGED card
      /\ m.what # "pick" => card' = [p |-> m.p, pinned |-> m.what = "pin"]
  BY DEF Measured
<1>2. PinsLast' /\ (m.what = "pin" => ~Asked("hover")')
  BY <1>1, QueueTaken DEF PinInv, ScreenInv
<1>3. (Asked("hover")' => Asked("hover")) /\ (Asked("pin")' => Asked("pin")) /\ (m.what = "pin" => Asked("pin"))
  BY <1>1, QueueTaken DEF ScreenInv
<1> HIDE DEF m
<1>4. (Pinned' => m.what = "pin" \/ Pinned)
  <2>1. CASE m.what = "pick"
    BY <1>1, <2>1 DEF Pinned
  <2>2. CASE m.what # "pick"
    <3>1. card'.pinned = (m.what = "pin")
      BY <1>1, <2>2
    <3> QED BY <3>1 DEF Pinned
  <2> QED BY <2>1, <2>2
<1>5. Pinned' => ~Asked("hover")'
  <2>1. CASE m.what = "pin"
    BY <1>2, <2>1
  <2>2. CASE m.what # "pin"
    BY <1>3, <1>4, <2>2 DEF PinInv
  <2> QED BY <2>1, <2>2
<1>6. Pinned' \/ Asked("pin")' => QuietTimers'
  BY <1>1, <1>3, <1>4 DEF PinInv, QuietTimers
<1> QED BY <1>2, <1>5, <1>6 DEF PinInv

(* The pointer goes somewhere else.                                        *)
LEMMA HoverKeepsPin ==
  ASSUME ScreenInv, PinInv, NEW x \in People \cup {"popover", None}, HoverTo(x)
  PROVE  PinInv'
<1> DEFINE out == CASE at = None -> hover
                    [] at = "popover" -> HovercardHoverOut(hover)
                    [] OTHER -> CardHoverOut(hover, at)
           Quiet1(k) == k.close # "on" /\ (k.open # None => k.open.timer # "on")
<1>1. /\ UNCHANGED <<card, measuring>>
      /\ hover' = CASE x = None -> out
                    [] x = "popover" -> HovercardHoverIn(out)
                    [] OTHER -> CardHoverIn(out, x)
  BY DEF HoverTo
<1>2. at \in People \cup {"popover", None} /\ hover \in Handlers /\ None # "popover" /\ "popover" \notin People
      /\ None \notin People
  BY LadderAssumption, RosterAssumption DEF ScreenInv, ScreenTypes, PointerTypes, CardTypes
<1>3. ASSUME Pinned \/ Asked("pin") PROVE QuietTimers'
  <2>1. Quiet1(hover)
    BY <1>3 DEF PinInv, QuietTimers
  <2>2. out \in Handlers /\ Quiet1(out)
    <3>1. CASE at = None
      BY <1>2, <2>1, <3>1
    <3>2. CASE at = "popover"
      <4>1. out = HovercardHoverOut(hover)
        BY <1>2, <3>2
      <4>2. Pinned \/ Timer = "early"
        BY <1>3 DEF Timer, Asked
      <4>3. HovercardHoverOut(hover) \in Handlers
        BY <1>2 DEF HovercardHoverOut, Handlers, Timer
      <4>4. HovercardHoverOut(hover).open = hover.open
            /\ HovercardHoverOut(hover).close # "on"
        BY <1>2, <2>1, <4>2 DEF HovercardHoverOut, Handlers
      <4> QED BY <2>1, <4>1, <4>3, <4>4
    <3>3. CASE at \in People
      <4>1. out = CardHoverOut(hover, at)
        BY <1>2, <3>3
      <4> QED BY <1>2, <1>3, <2>1, <3>3, <4>1, HoverTypes, HoverKeepsQuiet DEF ScreenInv
    <3> QED BY <1>2, <3>1, <3>2, <3>3
  <2> HIDE DEF out
  <2>3. CASE x = None
    BY <1>1, <1>2, <2>2, <2>3 DEF QuietTimers
  <2>4. CASE x = "popover"
    <3>1. hover' = HovercardHoverIn(out)
      BY <1>1, <1>2, <2>4
    <3> QED BY <2>2, <3>1 DEF QuietTimers, HovercardHoverIn, Handlers
  <2>5. CASE x \in People
    <3>1. hover' = CardHoverIn(out, x)
      BY <1>1, <1>2, <2>5
    <3> QED BY <1>3, <2>2, <2>5, <3>1, HoverKeepsQuiet DEF QuietTimers
  <2> QED BY <2>3, <2>4, <2>5
<1>4. PinsLast' /\ (Pinned' <=> Pinned) /\ \A what : Asked(what)' <=> Asked(what)
  BY <1>1 DEF PinInv, PinsLast, Pinned, Asked
<1> QED BY <1>3, <1>4 DEF PinInv

(* A timer fires: under a pin, only an early one.                          *)
LEMMA TimersKeepPin ==
  ASSUME ScreenInv, PinInv, OpenTimerFires \/ CloseTimerFires
  PROVE  PinInv'
<1>1. CASE OpenTimerFires
  <2>1. hover' = [hover EXCEPT !.open = None] /\ hover.open # None /\ UNCHANGED card
        /\ Len(measuring) < MaxMeasuring
    BY <1>1 DEF OpenTimerFires
  <2>2. hover \in Handlers /\ hover.open \in Timers
    BY <2>1 DEF ScreenInv, ScreenTypes, CardTypes, Handlers
  <2>3. hover'.close = hover.close /\ hover'.open = None
    BY <2>1, <2>2 DEF Handlers
  <2>4. CASE UNCHANGED measuring
    BY <2>1, <2>3, <2>4 DEF PinInv, PinsLast, Pinned, Asked, QuietTimers
  <2>5. CASE hover.open.timer = "early" /\ Measure("early", hover.open.p)
    <3>1. PinsLast' /\ (Asked("hover")' => Asked("hover")) /\ (Asked("pin")' => Asked("pin"))
      BY <2>1, <2>2, <2>5, QueueMeasures DEF PinInv, Timers
    <3> QED BY <2>1, <2>3, <3>1 DEF PinInv, Pinned, QuietTimers
  <2>6. CASE hover.open.timer # "early" /\ Measure("hover", hover.open.p)
    <3>1. hover.open.timer = "on"
      BY <2>2, <2>6 DEF Timers
    <3>2. ~Pinned /\ ~Asked("pin")
      BY <2>1, <3>1 DEF PinInv, QuietTimers
    <3>3. PinsLast' /\ ~Asked("pin")'
      BY <2>1, <2>2, <2>6, <3>2, QueueMeasures DEF PinInv, Timers
    <3>4. ~Pinned'
      BY <2>1, <3>2 DEF Pinned
    <3> QED BY <3>3, <3>4 DEF PinInv
  <2> QED BY <1>1, <2>4, <2>5, <2>6 DEF OpenTimerFires
<1>2. CASE CloseTimerFires
  <2>1. CASE hover.overCard = None /\ ~hover.overPop
    <3>1. card' = None /\ hover' = NoHover /\ UNCHANGED measuring
      BY <1>2, <2>1 DEF CloseTimerFires, CloseHovercard
    <3> QED BY <3>1, CloseKeepsPin
  <2>2. CASE ~(hover.overCard = None /\ ~hover.overPop)
    <3>1. hover' = [hover EXCEPT !.close = "off"] /\ UNCHANGED <<card, measuring>>
      BY <1>2, <2>2 DEF CloseTimerFires
    <3>2. hover'.close = "off" /\ hover'.open = hover.open
      BY <3>1 DEF ScreenInv, ScreenTypes, CardTypes, Handlers
    <3> QED BY <3>1, <3>2 DEF PinInv, PinsLast, Pinned, Asked, QuietTimers
  <2> QED BY <2>1, <2>2
<1> QED BY <1>1, <1>2

(* A press, a drag begun, or a key that moves the pin.                     *)
LEMMA PressesKeepPin ==
  ASSUME ScreenInv, PinInv, NEW p \in People, CardPress(p) \/ StartDrag(p) \/ KeyMove(p)
  PROVE  PinInv'
<1>1. hover \in Handlers /\ NoHover \in Handlers
  BY DEF ScreenInv, ScreenTypes, CardTypes, NoHover, Handlers
<1>2. CASE CardPress(p)
  <2>1. PICK h \in {NoHover, hover} :
          /\ Len(measuring) < MaxMeasuring /\ HandleCardPress(h, p) /\ drag = None
          /\ (h = NoHover /\ card' = None) \/ (h = hover /\ UNCHANGED card)
    BY <1>2 DEF CardPress
  <2>2. CASE moved
    <3>1. UNCHANGED measuring /\ hover' = h
      BY <2>1, <2>2 DEF HandleCardPress
    <3> QED BY <2>1, <3>1, CloseKeepsPin, UnchangedKeepsPin
  <2>3. CASE ~moved
    <3>1. Pin(h, p)
      BY <2>1, <2>3 DEF HandleCardPress
    <3> QED BY <1>1, <2>1, <3>1, PinKeepsPin
  <2> QED BY <2>2, <2>3
<1>3. CASE StartDrag(p)
  <2>1. card' = None /\ hover' = NoHover /\ Measure("pick", p) /\ Len(measuring) < MaxMeasuring
    BY <1>3 DEF StartDrag, CloseHovercard
  <2>2. PinsLast'
    BY <2>1, QueueMeasures DEF PinInv
  <2>3. QuietTimers' /\ ~Pinned'
    BY <2>1 DEF QuietTimers, NoHover, Pinned
  <2> QED BY <2>2, <2>3 DEF PinInv
<1>4. CASE KeyMove(p)
  <2>1. /\ UNCHANGED card /\ Len(measuring) < MaxMeasuring
        /\ (Pin(hover, p) \/ UNCHANGED <<hover, measuring>>)
    BY <1>4 DEF KeyMove
  <2> QED BY <1>1, <2>1, PinKeepsPin, UnchangedKeepsPin
<1> QED BY <1>2, <1>3, <1>4

(* Every step keeps it.                                                    *)
LEMMA PinStepInv == ScreenInv /\ PinInv /\ [LadderNext]_screenVars => PinInv'
<1> SUFFICES ASSUME ScreenInv, PinInv, [LadderNext]_screenVars PROVE PinInv'
  OBVIOUS
<1>1. CASE PointerNext
  <2>1. CASE PressOutside
    <3>1. card' = None /\ hover' = NoHover /\ UNCHANGED measuring
      BY <2>1 DEF PressOutside, CloseHovercard
    <3> QED BY <3>1, CloseKeepsPin
  <2>2. CASE PointerMovesAfterDrop \/ DropCommitted \/ DropReturned \/ SpringEnds
    BY <2>2, UnchangedKeepsPin DEF PointerMovesAfterDrop, DropCommitted, DropReturned, SpringEnds
  <2>3. CASE \E c \in Columns \cup {None} : OnDragMove(c)
    BY <2>3, UnchangedKeepsPin DEF OnDragMove
  <2> QED BY <1>1, <2>1, <2>2, <2>3, MeasuredKeepsPin, HoverKeepsPin, TimersKeepPin, PressesKeepPin
          DEF PointerNext
<1>2. CASE KeyEnter
  <2>1. Pin(hover, sel) /\ Len(measuring) < MaxMeasuring /\ UNCHANGED card /\ sel \in People
    BY <1>2 DEF KeyEnter, ScreenInv, ScreenTypes, PointerTypes
  <2> QED BY <2>1, PinKeepsPin DEF ScreenInv, ScreenTypes, CardTypes
<1>3. CASE KeyEscape
  <2>1. \/ UNCHANGED <<card, measuring, hover>>
        \/ card' = None /\ hover' = NoHover /\ UNCHANGED measuring
    BY <1>3 DEF KeyEscape, CloseHovercard, ladderVars
  <2> QED BY <2>1, UnchangedKeepsPin, CloseKeepsPin
<1>4. CASE Redrawn \/ UNCHANGED ladderVars
  BY <1>4, UnchangedKeepsPin DEF Redrawn, ladderVars
<1>5. CASE WriteNext
  BY <1>4, <1>5 DEF WriteNext, MoveMenu, RoleMenu, DoRemove
<1>6. CASE Loaded \/ (RosterNext /\ IF list = None THEN UNCHANGED ladderVars ELSE Redrawn)
  BY <1>4, <1>6 DEF Loaded
<1>7. ASSUME NEW how \in {"failed", "denied"}, BodyLost(how) PROVE PinInv'
  <2>1. card' = None /\ hover' = NoHover /\ measuring' = <<>>
    BY <1>7 DEF BodyLost
  <2> QED BY <2>1, CloseKeepsPin
<1>8. ASSUME NEW which \in {"addPerson", "myCrews"}, PanelOpens(which) PROVE PinInv'
  <2>1. card' = None /\ hover' = NoHover /\ UNCHANGED measuring
    BY <1>8 DEF PanelOpens, CloseHovercard
  <2> QED BY <2>1, CloseKeepsPin
<1>9. CASE UNCHANGED screenVars
  BY <1>4, <1>9 DEF screenVars
<1> QED BY <1>1, <1>2, <1>3, <1>5, <1>6, <1>7, <1>8, <1>9, PressesKeepPin DEF LadderNext

(* A step that changes a pinned hovercard is one the user took for it, or  *)
(* the end of a hover that began while the pin was being measured.         *)
PinCauses == {"esc", "outside", "panel", "drag", "pin", "early", "unmount"}

(* Every step that closes or replaces a pinned hovercard has such a cause. *)
LEMMA PinStep ==
  ASSUME ScreenInv, PinInv, LadderNext, Pinned
  PROVE  card' = card \/ cause' \in PinCauses
<1>1. card # None /\ hover \in Handlers
  BY DEF Pinned, ScreenInv, ScreenTypes, CardTypes
<1>2. CASE Measured
  <2>1. CASE Head(measuring).what = "pick"
    BY <1>2, <2>1 DEF Measured
  <2>2. CASE Head(measuring).what # "pick"
    <3>1. measuring # <<>> /\ measuring' = Tail(measuring) /\ cause' = Head(measuring).what
      BY <1>1, <1>2, <2>2 DEF Measured
    <3>2. Head(measuring).what # "hover"
      BY <3>1, QueueTaken DEF PinInv, ScreenInv
    <3>3. Head(measuring) \in Measurement
      BY <3>1 DEF ScreenInv, ScreenTypes, QueueTypes
    <3> QED BY <2>2, <3>1, <3>2, <3>3 DEF Measurement, PinCauses
  <2> QED BY <2>1, <2>2
<1>3. CASE CloseTimerFires
  <2>1. hover.close = "early"
    BY <1>1, <1>3 DEF CloseTimerFires, PinInv, QuietTimers, Handlers
  <2> QED BY <1>1, <1>3, <2>1 DEF CloseTimerFires, CloseHovercard, PinCauses
<1>4. CASE PressOutside
  BY <1>1, <1>4 DEF PressOutside, CloseHovercard, PinCauses
<1>5. ASSUME NEW p \in People, CardPress(p) \/ StartDrag(p) \/ KeyMove(p)
      PROVE  card' = card \/ cause' \in PinCauses
  BY <1>1, <1>5 DEF CardPress, StartDrag, KeyMove, CloseHovercard, PinCauses
<1>6. CASE OpenTimerFires \/ PointerMovesAfterDrop \/ DropCommitted \/ DropReturned \/ SpringEnds
  BY <1>6 DEF OpenTimerFires, PointerMovesAfterDrop, DropCommitted, DropReturned, SpringEnds
<1>7. CASE \/ \E x \in People \cup {"popover", None} : HoverTo(x)
           \/ \E c \in Columns \cup {None} : OnDragMove(c)
  BY <1>7 DEF HoverTo, OnDragMove
<1>8. CASE KeyEnter \/ KeyEscape
  BY <1>1, <1>8 DEF KeyEnter, KeyEscape, CloseHovercard, ladderVars, PinCauses
<1>9. CASE Redrawn \/ UNCHANGED ladderVars
  BY <1>9 DEF Redrawn, ladderVars
<1>10. CASE WriteNext \/ Loaded \/ (RosterNext /\ IF list = None THEN UNCHANGED ladderVars ELSE Redrawn)
  BY <1>9, <1>10 DEF WriteNext, MoveMenu, RoleMenu, DoRemove, Loaded
<1>11. ASSUME NEW how \in {"failed", "denied"}, BodyLost(how) PROVE cause' \in PinCauses
  BY <1>1, <1>11 DEF BodyLost, PinCauses
<1>12. ASSUME NEW which \in {"addPerson", "myCrews"}, PanelOpens(which) PROVE cause' \in PinCauses
  BY <1>1, <1>12 DEF PanelOpens, CloseHovercard, PinCauses
<1>13. CASE PointerNext
  BY <1>2, <1>3, <1>4, <1>5, <1>6, <1>7, <1>13 DEF PointerNext
<1> QED BY <1>5, <1>8, <1>10, <1>11, <1>12, <1>13 DEF LadderNext

(* It holds at first, with no hovercard.                                   *)
LEMMA PinInitInv == LadderInit => PinInv
<1> SUFFICES ASSUME LadderInit PROVE PinInv
  OBVIOUS
<1>1. measuring = <<>> /\ DOMAIN measuring = {} /\ card = None /\ hover = NoHover
  BY DEF LadderInit
<1> QED BY <1>1 DEF PinInv, PinsLast, Pinned, Asked, QuietTimers, NoHover

(* A pinned hovercard stays until the user closes it or pins another: no   *)
(* pending hover closes or downgrades it (PeopleScreen.tsx, openHovercard, *)
(* which clears both timers; usePeopleKeyboardMap.ts for Esc).             *)
THEOREM LadderPinStays == LadderSpec => PinStays
<1>1. LadderInit => ScreenInv /\ PinInv
  BY ScreenInitInv, PinInitInv
<1>2. ScreenInv /\ PinInv /\ [LadderNext]_screenVars => ScreenInv' /\ PinInv'
  BY ScreenStepInv, PinStepInv
<1>3. ScreenInv /\ PinInv /\ [LadderNext]_screenVars
        => [Pinned => card' = card \/ cause' \in {"esc", "outside", "panel", "drag", "pin", "early", "unmount"}]_screenVars
  BY PinStep DEF PinCauses
<1> QED BY <1>1, <1>2, <1>3, PTL DEF LadderSpec, PinStays

(***************************************************************************)
(* A card under the pointer is drawn.                                      *)
(***************************************************************************)
AtDrawn == at \in People => Drawn(at)

(* A list is not the value that stands for none.                           *)
LEMMA ListIsList ==
  ASSUME NEW n \in Nat, NEW rowsRead \in [People -> ListRow(n)]
  PROVE  rowsRead # None
<1>1. ListRow(n) \subseteq [rung : Columns \cup OffLadder, band : Bands, crew : BOOLEAN, at : Nat]
  BY DEF ListRow, OffLadder, OffList
<1>2. rowsRead \in [People -> [rung : Columns \cup OffLadder, band : Bands, crew : BOOLEAN, at : Nat]]
  BY <1>1
<1> QED BY <1>2, RosterAssumption

(* Only a read that fails takes the body down.                             *)
LEMMA BodyStays == ASSUME ScreenInv, BodyUp, RosterGoesOn PROVE BodyUp'
<1>1. Now \in Nat /\ list \in [People -> ListRow(Now)] /\ listErr = "none"
  BY DEF ScreenInv, RosterTypes, BookTypes, ListTypes, Now, BodyUp
<1>2. CASE RosterWrites
  <2>1. PICK p \in People, rung \in Columns \cup {"gone"} :
          UNCHANGED listErr /\ (UNCHANGED list \/ list' = [list EXCEPT ![p].rung = rung])
    BY <1>2 DEF RosterWrites, WriteRole
  <2>2. [list[p] EXCEPT !.rung = rung] \in ListRow(Now)
    BY <1>1 DEF ListRow
  <2>3. list' \in [People -> ListRow(Now)]
    BY <1>1, <2>1, <2>2
  <2> QED BY <1>1, <2>1, <2>3, ListIsList DEF BodyUp
<1>3. CASE ReadLands
  <2>1. PICK v \in read .. Now : list' = Listed(v)
    BY <1>3 DEF ReadLands
  <2>2. v \in 1 .. Now /\ listErr' = "none"
    BY <1>1, <1>3, <2>1 DEF ReadLands, ScreenInv, RosterTypes, ListTypes
  <2>3. list' \in [People -> ListRow(Now)]
    BY <2>1, <2>2, ListedTyped DEF ScreenInv, RosterTypes
  <2> QED BY <1>1, <2>2, <2>3, ListIsList DEF BodyUp
<1>4. CASE Retry \/ Refocus \/ RosterPanels \/ RosterSends \/ UNCHANGED rosterVars
  <2>1. UNCHANGED <<list, listErr>>
    BY <1>1, <1>4 DEF Retry, Refocus, RosterPanels, ClosePanel, SearchAgain, CreateNew, AddAnother, BackToSearch,
                 ToStage, OpenPanel, RosterSends, Create, CrewWrite, rosterVars
  <2> QED BY <2>1 DEF BodyUp
<1>5. CASE ServerNext
  <2>1. ASSUME NEW i \in DOMAIN writes, Serve(i) \/ Refuse(i) \/ Return(i) PROVE BodyUp'
    BY <2>1 DEF Serve, Refuse, Return, BodyUp
  <2>2. ASSUME NEW i \in DOMAIN writes, Answer(i) PROVE BodyUp'
    <3>1. /\ UNCHANGED listErr /\ writes[i] \in Request(Now)
          /\ (UNCHANGED list \/ list' = [list EXCEPT ![writes[i].p] = writes[i].before])
      BY <2>2, RequestTyped DEF Answer, Rollback, ScreenInv
    <3>2. list' \in [People -> ListRow(Now)]
      BY <1>1, <3>1 DEF Request
    <3> QED BY <1>1, <3>1, <3>2, ListIsList DEF BodyUp
  <2>3. ASSUME NEW p \in People, OtherGivesBand(p) \/ OtherRemoves(p) \/ \E rung \in {"reporter", "gone"} : OtherSetsRole(p, rung)
        PROVE  BodyUp'
    BY <2>3 DEF OtherGivesBand, OtherRemoves, OtherSetsRole, BodyUp
  <2> QED BY <1>5, <2>1, <2>2, <2>3 DEF ServerNext
<1> QED BY <1>2, <1>3, <1>4, <1>5 DEF RosterGoesOn

(* A list drawn again takes a card that moved from under the pointer.      *)
LEMMA RedrawnDrawn == ASSUME ScreenInv, AtDrawn, RosterGoesOn, Redrawn PROVE AtDrawn'
<1>1. None \notin People /\ at' \in {at, None}
  BY RosterAssumption DEF Redrawn
<1>2. ASSUME at' \in People PROVE Drawn(at)'
  <2>1. at' = at /\ at \in People
    BY <1>1, <1>2
  <2>2. list'[at].rung = list[at].rung
    BY <1>1, <2>1, LadderAssumption DEF Redrawn
  <2>3. BodyUp' /\ list[at].rung \in Columns
    BY <2>1, BodyStays DEF AtDrawn, Drawn
  <2> QED BY <2>1, <2>2, <2>3 DEF Drawn
<1> QED BY <1>2 DEF AtDrawn

(* Every step keeps it.                                                    *)
LEMMA AtDrawnStep == ScreenInv /\ AtDrawn /\ [LadderNext]_screenVars => AtDrawn'
<1> SUFFICES ASSUME ScreenInv, AtDrawn, [LadderNext]_screenVars PROVE AtDrawn'
  OBVIOUS
<1>1. None \notin People
  BY RosterAssumption
<1>2. ASSUME UNCHANGED rosterVars, at' \in {at, None} PROVE AtDrawn'
  BY <1>1, <1>2 DEF AtDrawn, Drawn, BodyUp, rosterVars
<1>3. CASE PointerNext
  <2>1. ASSUME NEW x \in People \cup {"popover", None}, HoverTo(x) PROVE AtDrawn'
    <3>1. at' = x /\ UNCHANGED rosterVars /\ (x \in People => Drawn(x))
      BY <1>1, <2>1, LadderAssumption DEF HoverTo
    <3> QED BY <3>1 DEF AtDrawn, Drawn, BodyUp, rosterVars
  <2>2. CASE DropCommitted
    <3>1. /\ drag.p \in People /\ drag.hit \in Columns /\ UNCHANGED at
          /\ WriteRole(drag.p, drag.hit, FALSE)
      BY <2>2 DEF DropCommitted, ValidTarget, SetRole, ScreenInv, ScreenTypes, CardTypes, Drags
    <3>2. RosterGoesOn
      BY <3>1 DEF RosterGoesOn, RosterWrites
    <3>3. ASSUME at \in People PROVE list'[at].rung \in Columns
      <4>1. list \in [People -> ListRow(Now)] /\ list[at].rung \in Columns
        BY <3>3 DEF AtDrawn, Drawn, BodyUp, ScreenInv, RosterTypes, ListTypes
      <4>2. \/ list' = list
            \/ list' = [list EXCEPT ![drag.p].rung = drag.hit]
        BY <3>1 DEF WriteRole
      <4> QED BY <3>1, <3>3, <4>1, <4>2 DEF ListRow
    <3> QED BY <3>1, <3>2, <3>3, BodyStays DEF AtDrawn, Drawn
  <2>3. CASE Measured \/ OpenTimerFires \/ PointerMovesAfterDrop \/ DropReturned \/ SpringEnds
             \/ \E c \in Columns \cup {None} : OnDragMove(c)
    BY <1>2, <2>3 DEF Measured, OpenTimerFires, PointerMovesAfterDrop, DropReturned, SpringEnds, OnDragMove
  <2>4. CASE CloseTimerFires \/ PressOutside \/ \E p \in People : CardPress(p) \/ StartDrag(p)
    BY <1>2, <2>4 DEF CloseTimerFires, PressOutside, CardPress, StartDrag, CloseHovercard
  <2> QED BY <1>3, <2>1, <2>2, <2>3, <2>4 DEF PointerNext
<1>4. ASSUME ClosePanel \/ (\E which \in {"addPerson", "myCrews"} : OpenPanel(which)), at' \in {at, None}
      PROVE  AtDrawn'
  <2>1. UNCHANGED <<list, listErr>>
    BY <1>4 DEF ClosePanel, OpenPanel
  <2> QED BY <1>1, <1>4, <2>1 DEF AtDrawn, Drawn, BodyUp
<1>5. CASE KeyEnter \/ KeyEscape \/ \E p \in People : KeyMove(p)
  <2>1. \/ UNCHANGED rosterVars /\ at' \in {at, None}
        \/ ClosePanel /\ UNCHANGED at
    BY <1>5 DEF KeyEnter, KeyEscape, KeyMove, CloseHovercard, ladderVars
  <2> QED BY <1>2, <1>4, <2>1
<1>6. ASSUME NEW which \in {"addPerson", "myCrews"}, PanelOpens(which) PROVE AtDrawn'
  BY <1>4, <1>6 DEF PanelOpens, CloseHovercard
<1>7. ASSUME NEW how \in {"failed", "denied"}, BodyLost(how) PROVE AtDrawn'
  BY <1>1, <1>7 DEF BodyLost, AtDrawn
<1>8. ASSUME NEW p \in People, NEW rung \in Columns \cup {"gone"}, SetRole(p, rung), Redrawn PROVE AtDrawn'
  BY <1>8, RedrawnDrawn DEF SetRole, RosterGoesOn, RosterWrites
<1>9. CASE WriteNext
  <2>1. Popover => card.p \in People
    BY DEF Popover, ScreenInv, ScreenTypes, CardTypes, Cards
  <2> QED BY <1>8, <1>9, <2>1 DEF WriteNext, MoveMenu, RoleMenu, DoRemove
<1>10. CASE Loaded \/ (RosterNext /\ IF list = None THEN UNCHANGED ladderVars ELSE Redrawn)
  <2>1. RosterGoesOn
    BY <1>10, RosterNextSteps DEF Loaded, RosterGoesOn
  <2>2. CASE list = None
    <3>1. UNCHANGED at /\ at \notin People
      BY <1>10, <2>2 DEF Loaded, ladderVars, AtDrawn, Drawn, BodyUp
    <3> QED BY <3>1 DEF AtDrawn
  <2>3. CASE list # None
    BY <1>10, <2>1, <2>3, RedrawnDrawn DEF Loaded
  <2> QED BY <2>2, <2>3
<1>11. CASE UNCHANGED screenVars
  BY <1>2, <1>11 DEF screenVars, ladderVars
<1> QED BY <1>3, <1>5, <1>6, <1>7, <1>9, <1>10, <1>11 DEF LadderNext

(***************************************************************************)
(* A hovercard opened by hovering does not stay behind.  Unless the        *)
(* pointer slipped, the refs of the handlers say where it is, a running    *)
(* close timer means it is over neither, and a hovercard that it is not    *)
(* over has a timer or a measurement to come.                              *)
(***************************************************************************)
Coming == \E what \in {"pin", "hover", "early"} : Asked(what)
Tracked == /\ hover.overPop => at = "popover"
           /\ hover.overCard # None => at = hover.overCard
           /\ hover.open # None => hover.overCard = hover.open.p
           /\ hover.close # "off" => hover.overCard = None /\ ~hover.overPop
Awaited == card # None /\ ~Pinned =>
             at \in {card.p, "popover"} \/ hover.close # "off" \/ hover.open # None \/ Coming

HoverInv == ~slipped => Tracked /\ Awaited

(* With something coming the queue is not empty.                           *)
LEMMA HoverSuffices == ScreenInv /\ HoverInv => HoverCloses
<1> SUFFICES ASSUME ScreenInv, HoverInv PROVE HoverCloses
  OBVIOUS
<1>1. Coming => measuring # <<>>
  BY DEF Coming, Asked
<1> QED BY <1>1, ScreenTypesSuffice DEF ScreenInv, HoverInv, Awaited, HoverCloses

(* It holds at first, with no hovercard.                                   *)
LEMMA HoverInitInv == LadderInit => HoverInv
BY DEF LadderInit, HoverInv, Tracked, Awaited, NoHover

(* The helpers keep it.                                                    *)
LEMMA CloseKeepsHover == ASSUME card' = None, hover' = NoHover PROVE HoverInv'
BY DEF HoverInv, Tracked, Awaited, NoHover

(* What leaves pointer, hovercard and refs alone keeps it.                 *)
LEMMA UnchangedKeepsHover ==
  ASSUME HoverInv, UNCHANGED <<at, card, hover>>, Coming => Coming', slipped => slipped'
  PROVE  HoverInv'
BY DEF HoverInv, Tracked, Awaited, Pinned

(* A queue left alone has the same to come.                                *)
LEMMA ComingSame == ASSUME UNCHANGED measuring PROVE Coming => Coming'
BY DEF Coming, Asked

(* A pin clears the timers, and has itself to come.                        *)
LEMMA PinKeepsHover ==
  ASSUME ScreenInv, HoverInv, Len(measuring) < MaxMeasuring, NEW p \in People, Pin(hover, p),
         drag # None \/ Drawn(p) \/ slipped', UNCHANGED <<at, card>>, slipped => slipped'
  PROVE  HoverInv'
<1>1. CASE drag # None
  BY <1>1, UnchangedKeepsHover, ComingSame DEF Pin
<1>2. CASE slipped'
  BY <1>2 DEF HoverInv
<1>3. CASE drag = None /\ Drawn(p)
  <2>1. hover' = ClearHoverTimers(hover) /\ Measure("pin", p)
    BY <1>3 DEF Pin
  <2>2. Coming'
    <3>1. Asked("pin")'
      BY <1>3, <2>1, QueueMeasures
    <3> QED BY <3>1 DEF Coming
  <2>3. /\ hover'.overPop = hover.overPop /\ hover'.overCard = hover.overCard
        /\ hover'.open = None /\ hover'.close = "off"
    BY <2>1 DEF ClearHoverTimers, ScreenInv, ScreenTypes, CardTypes, Handlers
  <2> QED BY <2>2, <2>3 DEF HoverInv, Tracked, Awaited
<1> QED BY <1>1, <1>2, <1>3

(* The first measurement answers: it is under the pointer, or pinned.      *)
LEMMA MeasuredKeepsHover == ScreenInv /\ HoverInv /\ Measured => HoverInv'
<1> SUFFICES ASSUME ScreenInv, HoverInv, Measured PROVE HoverInv'
  OBVIOUS
<1> DEFINE m == Head(measuring)
<1>1. measuring # <<>> /\ measuring' = Tail(measuring) /\ UNCHANGED <<at, hover>>
  BY DEF Measured
<1>2. CASE m.what = "pick"
  <2>1. UNCHANGED <<card, slipped>>
    BY <1>2 DEF Measured
  <2>2. Coming => Coming'
    BY <1>1, <1>2, QueueTaken DEF Coming, ScreenInv
  <2> QED BY <1>1, <2>1, <2>2, UnchangedKeepsHover
<1>3. CASE m.what # "pick"
  <2>1. card' = [p |-> m.p, pinned |-> m.what = "pin"] /\ slipped' = (slipped \/ (m.what # "pin" /\ at # m.p))
    BY <1>3 DEF Measured
  <2> HIDE DEF m
  <2>2. ASSUME ~slipped' PROVE Tracked' /\ Awaited'
    <3>1. ~slipped /\ (m.what = "pin" \/ at = m.p)
      BY <2>1, <2>2
    <3>2. Tracked'
      BY <1>1, <3>1 DEF HoverInv, Tracked
    <3>3. CASE m.what = "pin"
      <4>1. card'.pinned = TRUE
        BY <2>1, <3>3
      <4>2. card' # None => Pinned'
        BY <4>1 DEF Pinned
      <4> QED BY <3>2, <4>2 DEF Awaited
    <3>4. CASE at = m.p
      BY <1>1, <2>1, <3>2, <3>4 DEF Awaited
    <3> QED BY <3>1, <3>3, <3>4
  <2> QED BY <2>2 DEF HoverInv
<1> QED BY <1>2, <1>3

(* A timer fires: the hovercard comes, or goes.                            *)
LEMMA TimersKeepHover ==
  ASSUME ScreenInv, AtDrawn, HoverInv, OpenTimerFires \/ CloseTimerFires
  PROVE  HoverInv'
<1>1. hover \in Handlers /\ None \notin People
  BY RosterAssumption DEF ScreenInv, ScreenTypes, CardTypes
<1>2. CASE OpenTimerFires
  <2>1. /\ hover.open # None /\ hover' = [hover EXCEPT !.open = None] /\ Len(measuring) < MaxMeasuring
        /\ UNCHANGED <<at, card, slipped>>
    BY <1>2 DEF OpenTimerFires
  <2>2. hover.open \in Timers /\ hover.open.p \in People
    BY <1>1, <2>1 DEF Handlers, Timers
  <2>3. ASSUME ~slipped PROVE Tracked' /\ Awaited'
    <3>1. Tracked /\ hover.overCard = hover.open.p
      BY <2>1, <2>3 DEF HoverInv, Tracked
    <3>2. at = hover.open.p
      BY <1>1, <2>2, <3>1 DEF Tracked
    <3>3. Drawn(hover.open.p)
      BY <2>2, <3>2 DEF AtDrawn
    <3>4. PICK what \in {"early", "hover"} : Measure(what, hover.open.p)
      BY <1>2, <3>1 DEF OpenTimerFires
    <3>5. Asked(what)'
      BY <2>1, <2>2, <3>3, <3>4, QueueMeasures
    <3>6. Coming'
      BY <3>5 DEF Coming
    <3>7. /\ hover'.overPop = hover.overPop /\ hover'.overCard = hover.overCard
          /\ hover'.open = None /\ hover'.close = hover.close
      BY <1>1, <2>1 DEF Handlers
    <3> QED BY <2>1, <3>1, <3>6, <3>7 DEF Tracked, Awaited
  <2> QED BY <2>1, <2>3 DEF HoverInv
<1>3. CASE CloseTimerFires
  <2>1. CASE hover.overCard = None /\ ~hover.overPop
    <3>1. card' = None /\ hover' = NoHover
      BY <1>3, <2>1 DEF CloseTimerFires, CloseHovercard
    <3> QED BY <3>1, CloseKeepsHover
  <2>2. CASE ~(hover.overCard = None /\ ~hover.overPop)
    <3>1. slipped' = slipped /\ hover.close # "off"
      BY <1>3, <2>2 DEF CloseTimerFires
    <3>2. slipped
      BY <2>2, <3>1 DEF HoverInv, Tracked
    <3> QED BY <3>1, <3>2 DEF HoverInv
  <2> QED BY <2>1, <2>2
<1> QED BY <1>2, <1>3

(* What the handlers know once the pointer has left what it was over.      *)
Left(k) == /\ ~k.overPop /\ k.overCard = None /\ k.open = None
           /\ card # None /\ ~Pinned /\ k.close = "off" =>
                (at = None /\ Coming) \/ (at \in People \ {card.p} /\ hover.close = "off")

(* Leaving the hovercard or its card starts the timer that closes it.      *)
LEMMA PointerLeaves ==
  ASSUME ScreenInv, Tracked, Awaited
  PROVE  /\ at = None => Left(hover)
         /\ at = "popover" => Left(HovercardHoverOut(hover))
         /\ at \in People => Left(CardHoverOut(hover, at))
<1>1. /\ hover \in Handlers /\ card \in {None} \cup Cards /\ None # "popover" /\ "popover" \notin People
      /\ None \notin People
  BY LadderAssumption, RosterAssumption DEF ScreenInv, ScreenTypes, CardTypes
<1>2. hover.open # None => at = hover.open.p /\ at = hover.overCard /\ at \in People
  <2>1. hover.open # None => hover.open.p \in People
    BY <1>1 DEF Handlers, Timers
  <2> QED BY <1>1, <2>1 DEF Tracked
<1>3. ASSUME at = None PROVE Left(hover)
  <2>1. ~hover.overPop /\ hover.overCard = None /\ hover.open = None
    BY <1>1, <1>2, <1>3 DEF Tracked
  <2>2. card # None => at \notin {card.p, "popover"}
    BY <1>1, <1>3 DEF Cards
  <2> QED BY <1>3, <2>1, <2>2 DEF Left, Awaited
<1>4. Timer # "off"
  BY DEF Timer
<1>5. ASSUME at = "popover" PROVE Left(HovercardHoverOut(hover))
  <2>1. hover.overCard \in People \cup {None}
    BY <1>1 DEF Handlers
  <2>2. hover.overCard = None /\ hover.open = None
    BY <1>1, <1>2, <1>5, <2>1 DEF Tracked
  <2>3. /\ ~HovercardHoverOut(hover).overPop
        /\ HovercardHoverOut(hover).overCard = hover.overCard
        /\ HovercardHoverOut(hover).open = hover.open
        /\ card # None /\ ~Pinned => HovercardHoverOut(hover).close = Timer
    BY <1>1 DEF HovercardHoverOut, Handlers
  <2> QED BY <1>4, <2>2, <2>3 DEF Left
<1>6. ASSUME at \in People PROVE Left(CardHoverOut(hover, at))
  <2>1. ~hover.overPop /\ hover.overCard \in {None, at}
    BY <1>1, <1>6 DEF Tracked
  <2>2. /\ ~CardHoverOut(hover, at).overPop
        /\ CardHoverOut(hover, at).overCard = None
        /\ CardHoverOut(hover, at).open = None
        /\ CardHoverOut(hover, at).close = IF card = [p |-> at, pinned |-> FALSE] THEN Timer ELSE hover.close
    BY <1>1, <2>1 DEF CardHoverOut, Handlers
  <2>3. ASSUME card # None, ~Pinned, CardHoverOut(hover, at).close = "off"
        PROVE  at \in People \ {card.p} /\ hover.close = "off"
    <3>1. card \in Cards /\ card.pinned = FALSE
      BY <1>1, <2>3 DEF Pinned, Cards
    <3>2. card # [p |-> at, pinned |-> FALSE] /\ hover.close = "off"
      BY <1>4, <2>2, <2>3
    <3>3. card.p # at
      BY <3>1, <3>2 DEF Cards
    <3> QED BY <1>6, <3>2, <3>3
  <2> QED BY <2>2, <2>3 DEF Left
<1> QED BY <1>3, <1>5, <1>6

(* The pointer goes somewhere else.                                        *)
LEMMA HoverKeepsHover ==
  ASSUME ScreenInv, HoverInv, NEW x \in People \cup {"popover", None}, HoverTo(x)
  PROVE  HoverInv'
<1> DEFINE out == CASE at = None -> hover
                    [] at = "popover" -> HovercardHoverOut(hover)
                    [] OTHER -> CardHoverOut(hover, at)
<1>1. /\ at \in People \cup {"popover", None} /\ hover \in Handlers /\ None # "popover"
      /\ "popover" \notin People /\ None \notin People /\ card \in {None} \cup Cards
  BY LadderAssumption, RosterAssumption DEF ScreenInv, ScreenTypes, PointerTypes, CardTypes
<1>2. /\ UNCHANGED <<card, measuring>> /\ at' = x
      /\ hover' = CASE x = None -> out
                    [] x = "popover" -> HovercardHoverIn(out)
                    [] OTHER -> CardHoverIn(out, x)
      /\ slipped' = (slipped \/ /\ card # None /\ ~Pinned /\ hover.close = "off"
                                /\ at \in People \ {card.p}
                                /\ x = None \/ (suppress /\ x \notin {card.p, "popover"}))
      /\ (x \in People => drag = None)
  BY <1>1 DEF HoverTo
<1>3. out = IF at = None THEN hover ELSE IF at = "popover" THEN HovercardHoverOut(hover)
            ELSE CardHoverOut(hover, at)
  BY <1>1
<1>4. out \in Handlers
  <2>1. HovercardHoverOut(hover) \in Handlers
    BY <1>1 DEF HovercardHoverOut, Handlers, Timer
  <2>2. at \in People => CardHoverOut(hover, at) \in Handlers
    BY <1>1, HoverTypes DEF ScreenInv
  <2> QED BY <1>1, <1>3, <2>1, <2>2
<1>5. (Pinned' <=> Pinned) /\ (Coming => Coming')
  BY <1>2, ComingSame DEF Pinned
<1>6. SUFFICES ASSUME ~slipped' PROVE Tracked' /\ Awaited'
  BY DEF HoverInv
<1>7. ~slipped /\ Tracked /\ Awaited
  BY <1>2, <1>6 DEF HoverInv
<1>8. Left(out)
  BY <1>1, <1>3, <1>7, PointerLeaves
<1> HIDE DEF out
<1>9. ASSUME hover' = out, x = None \/ (x \in People /\ (suppress \/ Pinned)) PROVE Tracked' /\ Awaited'
  <2>1. Tracked'
    BY <1>1, <1>8, <1>9 DEF Tracked, Left
  <2>2. ASSUME card # None, ~Pinned, out.close = "off", x # card.p PROVE Coming
    <3>1. x = None \/ (suppress /\ x \notin {card.p, "popover"})
      BY <1>1, <1>9, <2>2
    <3>2. ~(at \in People \ {card.p} /\ hover.close = "off")
      BY <1>2, <1>6, <2>2, <3>1
    <3> QED BY <1>8, <2>2, <3>2 DEF Left
  <2> QED BY <1>2, <1>5, <1>9, <2>1, <2>2 DEF Awaited
<1>10. CASE x = None
  <2>1. hover' = out
    BY <1>1, <1>2, <1>10
  <2> QED BY <1>9, <1>10, <2>1
<1>11. CASE x = "popover"
  <2>1. hover' = HovercardHoverIn(out)
    BY <1>1, <1>2, <1>11
  <2>2. hover'.overPop = TRUE /\ hover'.close = "off" /\ hover'.overCard = out.overCard /\ hover'.open = out.open
    BY <1>4, <2>1 DEF HovercardHoverIn, Handlers
  <2> QED BY <1>2, <1>8, <1>11, <2>2 DEF Left, Tracked, Awaited
<1>12. CASE x \in People
  <2>1. hover' = CardHoverIn(out, x)
    BY <1>1, <1>2, <1>12
  <2>2. CASE Pinned \/ suppress
    <3>1. hover' = out
      BY <2>1, <2>2 DEF CardHoverIn
    <3> QED BY <1>9, <1>12, <2>2, <3>1
  <2>3. CASE ~Pinned /\ ~suppress
    <3>1. hover' = [out EXCEPT !.overCard = x, !.close = "off",
                      !.open = IF card # None /\ card.p = x THEN out.open ELSE [p |-> x, timer |-> Timer]]
      BY <1>2, <1>12, <2>1, <2>3 DEF CardHoverIn
    <3>2. /\ hover'.overPop = out.overPop /\ hover'.overCard = x /\ hover'.close = "off"
          /\ hover'.open = IF card # None /\ card.p = x THEN out.open ELSE [p |-> x, timer |-> Timer]
      BY <1>4, <3>1 DEF Handlers
    <3>3. Tracked'
      BY <1>2, <1>8, <3>2 DEF Tracked, Left
    <3>4. [p |-> x, timer |-> Timer] # None
      <4>1. [p |-> x, timer |-> Timer] \in [p : People, timer : {"on", "early"}]
        BY <1>12 DEF Timer
      <4> QED BY <4>1, LadderAssumption
    <3>5. Awaited'
      BY <1>2, <3>2, <3>4 DEF Awaited
    <3> QED BY <3>3, <3>5
  <2> QED BY <2>2, <2>3
<1> QED BY <1>10, <1>11, <1>12

(* A press, a drag begun, or a key that moves the pin.                     *)
LEMMA PressesKeepHover ==
  ASSUME ScreenInv, HoverInv, NEW p \in People, CardPress(p) \/ StartDrag(p) \/ KeyMove(p)
  PROVE  HoverInv'
<1>1. CASE CardPress(p)
  <2>1. /\ Len(measuring) < MaxMeasuring /\ Drawn(p) /\ drag = None /\ UNCHANGED at
        /\ \/ HandleCardPress(NoHover, p) /\ card' = None
           \/ HandleCardPress(hover, p) /\ UNCHANGED <<card, slipped>>
    BY <1>1 DEF CardPress
  <2>2. CASE HandleCardPress(NoHover, p) /\ card' = None
    <3>1. hover' \in {NoHover, ClearHoverTimers(NoHover)}
      BY <2>1, <2>2 DEF HandleCardPress, Pin
    <3>2. ~hover'.overPop /\ hover'.overCard = None /\ hover'.open = None /\ hover'.close = "off"
      <4>1. /\ NoHover \in Handlers /\ ~NoHover.overPop /\ NoHover.overCard = None /\ NoHover.open = None
            /\ NoHover.close = "off"
        BY DEF NoHover, Handlers
      <4> QED BY <3>1, <4>1 DEF ClearHoverTimers, Handlers
    <3> QED BY <2>2, <3>2 DEF HoverInv, Tracked, Awaited
  <2>3. CASE HandleCardPress(hover, p) /\ UNCHANGED <<card, slipped>>
    <3>1. CASE moved
      BY <2>1, <2>3, <3>1, UnchangedKeepsHover, ComingSame DEF HandleCardPress
    <3>2. CASE ~moved
      BY <2>1, <2>3, <3>2, PinKeepsHover DEF HandleCardPress
    <3> QED BY <3>1, <3>2
  <2> QED BY <2>1, <2>2, <2>3
<1>2. CASE StartDrag(p)
  BY <1>2, CloseKeepsHover DEF StartDrag, CloseHovercard
<1>3. CASE KeyMove(p)
  <2>1. /\ Len(measuring) < MaxMeasuring /\ Drawn(p) /\ UNCHANGED <<at, card, slipped>>
        /\ (Pin(hover, p) \/ UNCHANGED <<hover, measuring>>)
    BY <1>3 DEF KeyMove
  <2>2. CASE Pin(hover, p)
    BY <2>1, <2>2, PinKeepsHover
  <2>3. CASE UNCHANGED <<hover, measuring>>
    BY <2>1, <2>3, UnchangedKeepsHover, ComingSame
  <2> QED BY <2>1, <2>2, <2>3
<1> QED BY <1>1, <1>2, <1>3

(* Every step keeps it.                                                    *)
LEMMA HoverStepInv == ScreenInv /\ AtDrawn /\ HoverInv /\ [LadderNext]_screenVars => HoverInv'
<1> SUFFICES ASSUME ScreenInv, AtDrawn, HoverInv, [LadderNext]_screenVars PROVE HoverInv'
  OBVIOUS
<1>1. ASSUME UNCHANGED <<at, card, measuring, hover, slipped>> PROVE HoverInv'
  BY <1>1, UnchangedKeepsHover, ComingSame
<1>2. ASSUME Redrawn PROVE HoverInv'
  <2>1. UNCHANGED <<card, measuring, hover>> /\ slipped' = (slipped \/ at' # at)
    BY <1>2 DEF Redrawn
  <2>2. CASE slipped'
    BY <2>2 DEF HoverInv
  <2>3. CASE ~slipped'
    BY <2>1, <2>3, UnchangedKeepsHover, ComingSame
  <2> QED BY <2>2, <2>3
<1>3. ASSUME NEW why, CloseHovercard(why) PROVE HoverInv'
  BY <1>3, CloseKeepsHover DEF CloseHovercard
<1>4. CASE PointerNext
  <2>1. CASE PressOutside
    BY <1>3, <2>1 DEF PressOutside
  <2>2. CASE PointerMovesAfterDrop \/ DropCommitted \/ DropReturned \/ SpringEnds
             \/ \E c \in Columns \cup {None} : OnDragMove(c)
    BY <1>1, <2>2 DEF PointerMovesAfterDrop, DropCommitted, DropReturned, SpringEnds, OnDragMove
  <2> QED BY <1>4, <2>1, <2>2, MeasuredKeepsHover, HoverKeepsHover, TimersKeepHover, PressesKeepHover
          DEF PointerNext
<1>5. CASE KeyEnter
  <2>1. /\ Pin(hover, sel) /\ Len(measuring) < MaxMeasuring /\ UNCHANGED <<at, card>> /\ sel \in People
        /\ slipped' = (slipped \/ (drag = None /\ ~Drawn(sel)))
    BY <1>5 DEF KeyEnter, ScreenInv, ScreenTypes, PointerTypes
  <2> QED BY <2>1, PinKeepsHover
<1>6. CASE KeyEscape
  <2>1. \/ UNCHANGED <<at, card, measuring, hover, slipped>>
        \/ CloseHovercard("esc")
    BY <1>6 DEF KeyEscape, ladderVars
  <2> QED BY <1>1, <1>3, <2>1
<1>7. CASE WriteNext
  BY <1>2, <1>7 DEF WriteNext, MoveMenu, RoleMenu, DoRemove
<1>8. CASE Loaded \/ (RosterNext /\ IF list = None THEN UNCHANGED ladderVars ELSE Redrawn)
  <2>1. CASE UNCHANGED ladderVars
    BY <1>1, <2>1 DEF ladderVars
  <2> QED BY <1>2, <1>8, <2>1 DEF Loaded
<1>9. ASSUME NEW how \in {"failed", "denied"}, BodyLost(how) PROVE HoverInv'
  BY <1>9, CloseKeepsHover DEF BodyLost
<1>10. ASSUME NEW which \in {"addPerson", "myCrews"}, PanelOpens(which) PROVE HoverInv'
  BY <1>3, <1>10 DEF PanelOpens
<1>11. CASE UNCHANGED screenVars
  BY <1>1, <1>11 DEF screenVars, ladderVars
<1> QED BY <1>4, <1>5, <1>6, <1>7, <1>8, <1>9, <1>10, <1>11, PressesKeepHover DEF LadderNext

(* A hovercard that was opened by hovering does not stay behind: a timer   *)
(* or a measurement will close or replace it unless the pointer is on it   *)
(* or slipped (PeopleScreen.tsx, the handlers of hover and the timers).    *)
THEOREM LadderHoverCloses == LadderSpec => []HoverCloses
<1>1. LadderInit => ScreenInv /\ AtDrawn /\ HoverInv
  BY ScreenInitInv, HoverInitInv, RosterAssumption DEF LadderInit, AtDrawn
<1>2. ScreenInv /\ AtDrawn /\ HoverInv /\ [LadderNext]_screenVars => ScreenInv' /\ AtDrawn' /\ HoverInv'
  BY ScreenStepInv, AtDrawnStep, HoverStepInv
<1>3. ScreenInv /\ AtDrawn /\ HoverInv => HoverCloses
  BY HoverSuffices
<1> QED BY <1>1, <1>2, <1>3, PTL DEF LadderSpec

(***************************************************************************)
(* The tables: the invariant.                                              *)
(***************************************************************************)
Urls == UrlsWith({Other, "all", "none"})

TableTypes ==
    /\ shift \in Shifts
    /\ views \in [Numbers -> {Default, Other, "none"}]
    /\ aged \subseteq Numbers /\ lost \subseteq Numbers
    /\ url \in Urls /\ text \in Searches
    /\ shown \in [url : Urls, rows : [Numbers -> {Default, Other, "none"}], loaded : BOOLEAN,
                  aged : SUBSET Numbers, fallback : States, drawn : BOOLEAN]
    /\ pref \in [stored : States \cup {"none"}, reading : States \cup {"none", "done"}]
    /\ Incidental \/ (pref.reading = "done" /\ saved = "none")
    /\ effects \in [due : BOOLEAN, box : BOOLEAN]
    /\ top \in [number : Num, url : Urls, carried : BOOLEAN, help : BOOLEAN]
    /\ left \in [acts : Nat, changes : Nat]
    /\ loaded \in BOOLEAN /\ failed \in BOOLEAN /\ dirty \in BOOLEAN /\ focus \in BOOLEAN
    /\ help \in BOOLEAN /\ mounted \in BOOLEAN /\ late \in BOOLEAN /\ outran \in BOOLEAN
    /\ named \subseteq States \cup {"none"} /\ choice \in States \cup {"none"} /\ drawer \in Num

\* A render that is not out of date shows what there is.
DrawnInv == mounted /\ ~dirty => shown = Snapshot

\* Before the table is up nothing has been chosen on it; a page that was not
\* pushed from it carries nothing.
MountInv ==
    /\ ~mounted => url = Bar /\ choice = "none"
    /\ top.number = 0 => ~top.carried

\* A state that the device holds was there at first or has been chosen since; only
\* those can be the fallback of a render, and so get into a pushed page.
NamedInv ==
    /\ url.tab \in named \cup {"none"} /\ shown.url.tab \in named \cup {"none"}
    /\ top.url.tab \in named \cup {"none"} \/ (top.carried /\ top.url.tab = shift.saved)
    /\ saved \in named \cup {shift.saved}
    /\ pref.stored \in named \cup {shift.saved, "none"}
    /\ pref.reading \in named \cup {shift.saved, "none", "done"}
    /\ shown.fallback \in named \cup {shift.saved, Default}

\* The state a URL stands for.
StateOf(u) == IF u.tab = "none" THEN FallbackState ELSE u.tab

\* The last choice is in the URL, or it is what the URL falls back to, as soon
\* as the stored state is there.
ChoiceInv ==
    choice # "none" /\ ~late /\ ~outran /\ (url.tab # "none" \/ pref.reading = "done") =>
        StateOf(url) = choice

LostInv ==
    /\ loaded => \A n \in Numbers : views[n] = "none" => n \in lost
    /\ shown.loaded => \A n \in Numbers : shown.rows[n] = "none" => n \in lost

DrawerInv == ~outran => url.open = drawer \/ (url.open = 0 /\ drawer \in lost)

\* After its effects a render needs no more of them.
NormalInv ==
    Settled /\ shown.url.open # 0 =>
        shown.url.sel = shown.url.open /\ (shown.loaded => shown.rows[shown.url.open] # "none")

\* The box shows what is searched for, unless a render or its effect is still to
\* put it there.
TextInv ==
    ~outran /\ shown.drawn /\ shown.url.q = url.q /\ ~(effects.due /\ effects.box) => text = url.q

\* A carried query filters as the table does.
PageInv ==
    top.carried /\ ~late /\ ~outran =>
        /\ pref.reading = "done"
        /\ (IF top.url.tab = "none" THEN Default ELSE top.url.tab) = StateOf(url)
        /\ top.url.narrow = url.narrow /\ top.url.q = url.q /\ top.url.sort = url.sort

TableInv ==
    /\ TableTypes /\ DrawnInv /\ MountInv /\ NamedInv /\ ChoiceInv
    /\ LostInv /\ DrawerInv /\ NormalInv /\ TextInv /\ PageInv

(***************************************************************************)
(* What a URL becomes                                                      *)
(***************************************************************************)
LEMMA ShiftTypes ==
    ASSUME shift \in Shifts
    PROVE  /\ shift.kind \in {"incidents", "reports"}
           /\ shift.url \in Urls
           /\ shift.rows \in [Numbers -> {Default, Other, "none"}]
           /\ shift.page \in Num /\ (shift.page # 0 => shift.url = Bar)
           /\ shift.kind = "reports" => shift.saved = "none"
           /\ shift.acts \in Nat /\ shift.changes \in Nat
  BY DispatchAssumption DEF Urls, Default, Other

(* The states of the two tables are told apart.                            *)
LEMMA TabNames ==
    ASSUME shift \in Shifts
    PROVE  /\ Default # "none" /\ Default # Other /\ Other # "none" /\ Default # "all" /\ Other # "all"
           /\ Incidental => Default = "open" /\ Other = "closed"
           /\ ~Incidental => Default = "unlinked" /\ Other = "linked"
           /\ "done" \notin States /\ "none" \notin States
  BY ShiftTypes DEF Default, Other, DefaultOf, OtherOf, Incidental, States

(* What a URL holds, and may have set.                                     *)
LEMMA UrlFields ==
    ASSUME NEW T, NEW u \in UrlsWith(T)
    PROVE  /\ u.tab \in T /\ u.narrow \in SUBSET Filters /\ u.q \in Searches
           /\ u.sort \in [key : {"number", "column"}, dir : {"asc", "desc"}]
           /\ u.sel \in Num /\ u.open \in Num
           /\ \A U : \A t \in U : [u EXCEPT !.tab = t] \in UrlsWith(U)
           /\ \A n \in Num : [u EXCEPT !.sel = n] \in UrlsWith(T)
           /\ \A n \in Num : [u EXCEPT !.open = n] \in UrlsWith(T)
           /\ \A x \in Searches : [u EXCEPT !.q = x] \in UrlsWith(T)
           /\ \A x \in SUBSET Filters : [u EXCEPT !.narrow = x] \in UrlsWith(T)
           /\ \A x \in [key : {"number", "column"}, dir : {"asc", "desc"}] :
                 [u EXCEPT !.sort = x] \in UrlsWith(T)
  BY DEF UrlsWith

(* The address without parameters is a URL.                                *)
LEMMA BarIsUrl ==
    ASSUME shift \in Shifts
    PROVE  Bar \in Urls /\ Bar.tab = "none" /\ Bar.open = 0 /\ Bar.sel = 0 /\ Bar.q = ""
  BY DispatchAssumption DEF Bar, Urls, UrlsWith, DefaultSort, Num

\* The URL of a query leaves out a default state and keeps everything else.
(* What the table reads off a URL.                                         *)
LEMMA ParamsFacts ==
    ASSUME shift \in Shifts, NEW q \in UrlsWith(States)
    PROVE  /\ ParamsOf(q) \in Urls
           /\ ParamsOf(q).tab = IF q.tab = Default THEN "none" ELSE q.tab
           /\ ParamsOf(q).narrow = q.narrow /\ ParamsOf(q).q = q.q /\ ParamsOf(q).sort = q.sort
           /\ ParamsOf(q).sel = q.sel /\ ParamsOf(q).open = q.open
<1> DEFINE t == IF q.tab = Default THEN "none" ELSE q.tab
<1>1. ParamsOf(q) = [q EXCEPT !.tab = t]
  BY TabNames DEF ParamsOf, SerializeQuery, ReportSerializeQuery, UrlsWith
<1>2. t \in {Other, "all", "none"}
  BY UrlFields DEF States
<1>3. [q EXCEPT !.tab = t] \in Urls
  BY <1>2, UrlFields DEF Urls
<1> QED BY <1>1, <1>3 DEF UrlsWith

\* What a render reads in the URL, and what its handlers spread.
(* What a patch of the query makes of a URL.                               *)
LEMMA QueryFacts ==
    ASSUME TableTypes
    PROVE  /\ Query \in UrlsWith(States) /\ Base \in UrlsWith(States)
           /\ Query.narrow = shown.url.narrow /\ Query.q = shown.url.q /\ Query.sort = shown.url.sort
           /\ Query.sel = shown.url.sel /\ Query.open = shown.url.open
           /\ Base.narrow = shown.url.narrow /\ Base.q = shown.url.q /\ Base.sort = shown.url.sort
           /\ Base.sel = shown.url.sel /\ Base.open = shown.url.open
           /\ Query.tab = IF shown.url.tab = "none"
                          THEN (IF Incidental THEN shown.fallback ELSE Default) ELSE shown.url.tab
           /\ Base.tab = IF shown.url.tab = "none" THEN Default ELSE shown.url.tab
<1> DEFINE u == shown.url
           f == IF u.tab = "none" THEN (IF Incidental THEN shown.fallback ELSE Default) ELSE u.tab
           b == IF u.tab = "none" THEN Default ELSE u.tab
<1>0. shift \in Shifts /\ u \in Urls /\ shown.fallback \in States
  BY DEF TableTypes
<1>1. Query = [u EXCEPT !.tab = f]
  BY <1>0, TabNames DEF Query, ParseQuery, ReportParseQuery, Urls, UrlsWith
<1>2. f \in States /\ b \in States
  BY <1>0, UrlFields DEF Urls, States
<1>3. Query \in UrlsWith(States)
  BY <1>0, <1>1, <1>2, UrlFields DEF Urls
<1>4. Query.tab = f
  BY <1>0, <1>1 DEF Urls, UrlsWith
<1>5. RawState = b
  BY <1>0, <1>4, TabNames DEF RawState, ParseQuery, Urls, UrlsWith
<1>6. Base = [Query EXCEPT !.tab = b]
  BY <1>5 DEF Base
<1>7. Base \in UrlsWith(States)
  BY <1>2, <1>3, <1>6, UrlFields
<1> QED BY <1>0, <1>1, <1>3, <1>4, <1>6, <1>7 DEF UrlsWith, Urls

(***************************************************************************)
(* What the handlers have in common                                        *)
(***************************************************************************)
\* Nothing of the view changes.
Still == UNCHANGED <<url, dirty, outran, named, choice, pref, drawer, text>>

\* The URL changes and names the state it named for the render; the drawer and
\* the box follow it or stay.
Patched ==
    \E next \in Urls :
        /\ url' = next /\ dirty' = TRUE /\ Race /\ UNCHANGED <<named, choice, pref>>
        /\ next.tab = shown.url.tab
        /\ drawer' = next.open \/ (UNCHANGED drawer /\ next.open = shown.url.open)
        /\ text' = next.q \/ UNCHANGED text

\* The visitor chooses the state t.
Chosen ==
    \E next \in Urls, t \in States :
        /\ url' = next /\ dirty' = TRUE /\ Race
        /\ next.tab = (IF t = Default THEN "none" ELSE t)
        /\ next.open = shown.url.open
        /\ named' = named \cup {t} /\ choice' = t
        /\ pref' = IF Incidental THEN [pref EXCEPT !.stored = t] ELSE pref
        /\ UNCHANGED <<drawer, text>>

HandlerStep ==
    /\ mounted /\ top.number = 0
    /\ UNCHANGED <<shift, views, loaded, failed, aged, shown, effects, top, mounted, late, lost>>
    /\ left' \in [acts : Nat, changes : Nat]
    /\ focus' \in BOOLEAN /\ help' \in BOOLEAN
    /\ Incidental \/ UNCHANGED saved
    /\ saved' \in named' \cup {saved}
    /\ Still \/ Patched \/ Chosen

(* An act of the user counts down.                                         *)
LEMMA ActTypes ==
    ASSUME TableTypes, Act
    PROVE  left' \in [acts : Nat, changes : Nat]
  BY DEF TableTypes, Act

(* A patch replaces the URL by one that the query made.                    *)
LEMMA PatchIsPatched ==
    ASSUME TableTypes, NEW next \in UrlsWith(States), next.tab = Base.tab, Patch(next),
           drawer' = next.open \/ (UNCHANGED drawer /\ next.open = Base.open),
           text' = next.q \/ UNCHANGED text
    PROVE  Patched /\ UNCHANGED saved
<1>0. shift \in Shifts /\ shown.url \in Urls
  BY DEF TableTypes
<1>1. ParamsOf(next) \in Urls /\ ParamsOf(next).open = next.open /\ ParamsOf(next).q = next.q
  BY <1>0, ParamsFacts
<1>2. ParamsOf(next).tab = shown.url.tab
  <2>1. Base.tab = IF shown.url.tab = "none" THEN Default ELSE shown.url.tab
    BY QueryFacts
  <2>2. shown.url.tab # Default
    BY <1>0, UrlFields, TabNames DEF Urls
  <2> QED BY <1>0, <2>1, <2>2, ParamsFacts
<1>3. Base.open = shown.url.open
  BY QueryFacts
<1>4. url' = ParamsOf(next) /\ dirty' = TRUE /\ Race /\ UNCHANGED <<named, choice, pref, saved>>
  BY DEF Patch, Navigate, prefVars
<1> QED BY <1>1, <1>2, <1>3, <1>4 DEF Patched

(* Opening a record patches the URL.                                       *)
LEMMA OpensIsPatched ==
    ASSUME TableTypes, NEW n \in Num, Opens(n), UNCHANGED text
    PROVE  Patched /\ UNCHANGED saved
<1> DEFINE next == [Base EXCEPT !.sel = n, !.open = n]
<1>1. Base \in UrlsWith(States)
  BY QueryFacts
<1>2. next \in UrlsWith(States) /\ next.tab = Base.tab /\ next.open = n
  BY <1>1 DEF UrlsWith
<1>3. Patch(next) /\ drawer' = n
  BY DEF Opens
<1> QED BY <1>2, <1>3, PatchIsPatched

(* Selecting a row patches the URL.                                        *)
LEMMA SelectsIsPatched ==
    ASSUME TableTypes, NEW n \in Num, Selects(n), UNCHANGED text
    PROVE  Patched /\ UNCHANGED saved
<1> DEFINE next == [Base EXCEPT !.sel = n]
<1>1. Base \in UrlsWith(States)
  BY QueryFacts
<1>2. next \in UrlsWith(States) /\ next.tab = Base.tab /\ next.open = Base.open
  BY <1>1 DEF UrlsWith
<1>3. Patch(next) /\ UNCHANGED drawer
  BY DEF Selects
<1> QED BY <1>2, <1>3, PatchIsPatched

(* Closing the drawer patches the URL.                                     *)
LEMMA ClosesIsPatched ==
    ASSUME TableTypes, Closes, UNCHANGED text
    PROVE  Patched /\ UNCHANGED saved
<1> DEFINE next == [Base EXCEPT !.open = 0]
<1>1. Base \in UrlsWith(States)
  BY QueryFacts
<1>2. next \in UrlsWith(States) /\ next.tab = Base.tab /\ next.open = 0
  BY <1>1 DEF UrlsWith, Num
<1>3. Patch(next) /\ drawer' = 0
  BY DEF Closes
<1> QED BY <1>2, <1>3, PatchIsPatched

(* Choosing a state names it in the URL and has it stored.                 *)
LEMMA ChoosesIsChosen ==
    ASSUME TableTypes, NEW t \in States, NEW next \in UrlsWith(States), next.tab = t,
           next.open = shown.url.open, Chooses(t, next), UNCHANGED <<drawer, text>>
    PROVE  Chosen /\ (Incidental \/ UNCHANGED saved) /\ saved' \in named' \cup {saved}
<1>0. shift \in Shifts
  BY DEF TableTypes
<1>1. ParamsOf(next) \in Urls /\ ParamsOf(next).open = shown.url.open
      /\ ParamsOf(next).tab = IF t = Default THEN "none" ELSE t
  BY <1>0, ParamsFacts
<1>2. /\ url' = ParamsOf(next) /\ dirty' = TRUE /\ Race
      /\ named' = named \cup {t} /\ choice' = t
      /\ pref' = IF Incidental THEN [pref EXCEPT !.stored = t] ELSE pref
      /\ Incidental \/ UNCHANGED saved
      /\ saved' \in {t, saved}
  BY DEF Chooses, SaveStatePreference, Navigate, prefVars
<1> QED BY <1>1, <1>2 DEF Chosen

(***************************************************************************)
(* The handlers of the bar, the table and the drawer                       *)
(***************************************************************************)
LEMMA BarHandles ==
    ASSUME TableTypes, BarNext
    PROVE  HandlerStep
<1> USE DEF TableTypes
<1>0. Query \in UrlsWith(States) /\ Base \in UrlsWith(States)
      /\ Query.open = shown.url.open /\ Base.open = shown.url.open /\ Query.sel \in Num
  BY QueryFacts, UrlFields DEF Urls
<1>k. ASSUME Hand, ActKeep
      PROVE  /\ mounted /\ top.number = 0
             /\ UNCHANGED <<shift, views, loaded, failed, aged, shown, effects, top, mounted, late, lost>>
             /\ left' \in [acts : Nat, changes : Nat]
  BY <1>k, ActTypes DEF Hand, OnTop, ActKeep, dataVars
<1>b. "open" \in States \/ ~Incidental
  BY TabNames DEF States
<1>u. "unlinked" \in States \/ Incidental
  BY TabNames DEF States
<1>1. ASSUME NEW t \in States, SetState(t) PROVE HandlerStep
  <2> DEFINE next == [Base EXCEPT !.tab = t]
  <2>1. next \in UrlsWith(States) /\ next.tab = t /\ next.open = shown.url.open
    BY <1>0 DEF UrlsWith
  <2>2. Chooses(t, next) /\ UNCHANGED <<text, focus, help, drawer>> /\ Hand /\ ActKeep
    BY <1>1 DEF SetState
  <2> QED BY <1>k, <2>1, <2>2, ChoosesIsChosen DEF HandlerStep
<1>2. ASSUME NEW t \in States, SetLink(t) PROVE HandlerStep
  <2> DEFINE next == [Query EXCEPT !.tab = t]
  <2>1. next \in UrlsWith(States) /\ next.tab = t /\ next.open = shown.url.open
    BY <1>0 DEF UrlsWith
  <2>2. Chooses(t, next) /\ UNCHANGED <<text, focus, help, drawer>> /\ Hand /\ ActKeep
    BY <1>2 DEF SetLink
  <2> QED BY <1>k, <2>1, <2>2, ChoosesIsChosen DEF HandlerStep
<1>3. CASE Clear
  <2> DEFINE next == ClearFilters(Query)
  <2>1. Incidental
    BY <1>3 DEF Clear
  <2>2. next \in UrlsWith(States) /\ next.tab = "open" /\ next.open = shown.url.open
    BY <1>0, <1>b, <2>1, DispatchAssumption DEF ClearFilters, UrlsWith
  <2>3. Chooses("open", next) /\ UNCHANGED <<text, focus, help, drawer>> /\ Hand /\ ActKeep
    BY <1>3 DEF Clear
  <2> QED BY <1>k, <1>b, <2>1, <2>2, <2>3, ChoosesIsChosen DEF HandlerStep
<1>4. CASE ReportClear
  <2> DEFINE next == ReportClearFilters(Query)
  <2>1. ~Incidental
    BY <1>4 DEF ReportClear
  <2>2. next \in UrlsWith(States) /\ next.tab = "unlinked" /\ next.open = shown.url.open
    BY <1>0, <1>u, <2>1, DispatchAssumption DEF ReportClearFilters, UrlsWith
  <2>3. Chooses("unlinked", next) /\ UNCHANGED <<text, focus, help, drawer>> /\ Hand /\ ActKeep
    BY <1>4 DEF ReportClear
  <2> QED BY <1>k, <1>u, <2>1, <2>2, <2>3, ChoosesIsChosen DEF HandlerStep
<1>5. ASSUME NEW f \in Filters, ToggleFilter(f) PROVE HandlerStep
  <2> DEFINE x == IF f \in Base.narrow THEN Base.narrow \ {f} ELSE Base.narrow \cup {f}
             next == [Base EXCEPT !.narrow = x]
  <2>1. x \in SUBSET Filters
    BY <1>0, UrlFields
  <2>2. next \in UrlsWith(States) /\ next.tab = Base.tab /\ next.open = Base.open
    BY <1>0, <2>1 DEF UrlsWith
  <2>3. Patch(next) /\ UNCHANGED <<text, focus, help, drawer>> /\ Hand /\ ActKeep
    BY <1>5 DEF ToggleFilter
  <2> QED BY <1>k, <2>2, <2>3, PatchIsPatched DEF HandlerStep
<1>6. ASSUME NEW key \in {"number", "column"}, OnSort(key) \/ ReportOnSort(key) PROVE HandlerStep
  <2>1. PICK d \in {"asc", "desc"} :
           /\ Patch([Base EXCEPT !.sort = Resorted(Base.sort, key, d)])
           /\ UNCHANGED <<text, focus, help, drawer>> /\ Hand /\ ActKeep
    BY <1>6 DEF OnSort, ReportOnSort, DefaultDir, ReportDefaultDir
  <2> DEFINE next == [Base EXCEPT !.sort = Resorted(Base.sort, key, d)]
  <2>2. Resorted(Base.sort, key, d) \in [key : {"number", "column"}, dir : {"asc", "desc"}]
    BY <1>0, UrlFields DEF Resorted
  <2>3. next \in UrlsWith(States) /\ next.tab = Base.tab /\ next.open = Base.open
    BY <1>0, <2>2 DEF UrlsWith
  <2> QED BY <1>k, <2>1, <2>3, PatchIsPatched DEF HandlerStep
<1>7. ASSUME NEW s \in Searches, IncidentSearch(s) \/ ReportSearch(s) PROVE HandlerStep
  <2> DEFINE next == [Base EXCEPT !.q = s]
  <2>1. next \in UrlsWith(States) /\ next.tab = Base.tab /\ next.open = Base.open /\ next.q = s
    BY <1>0 DEF UrlsWith
  <2>2. Patch(next) /\ text' = s /\ UNCHANGED <<focus, help, drawer>> /\ Hand /\ ActKeep
    BY <1>7 DEF IncidentSearch, ReportSearch, TypeIn
  <2> QED BY <1>k, <2>1, <2>2, PatchIsPatched DEF HandlerStep
<1>8. CASE SubmitSearch \/ ReportSubmitSearch
  <2>1. Submit /\ Hand /\ ActKeep /\ focus' = FALSE /\ UNCHANGED <<text, help>>
    BY <1>8 DEF SubmitSearch, ReportSubmitSearch, Submit
  <2>2. Bare[Query.q] \in Num /\ \A n \in Numbers : n \in Num
    BY <1>0, UrlFields, DispatchAssumption DEF Num
  <2>3. \/ Opens(Bare[Query.q])
        \/ \E n \in Numbers : Selects(n)
        \/ UNCHANGED <<url, dirty, outran, named, choice, prefVars, drawer>>
    BY <2>1 DEF Submit
  <2>4. CASE Opens(Bare[Query.q])
    BY <1>k, <2>1, <2>2, <2>4, OpensIsPatched DEF HandlerStep
  <2>5. ASSUME NEW n \in Numbers, Selects(n) PROVE HandlerStep
    BY <1>k, <2>1, <2>2, <2>5, SelectsIsPatched DEF HandlerStep
  <2>6. CASE UNCHANGED <<url, dirty, outran, named, choice, prefVars, drawer>>
    BY <1>k, <2>1, <2>6 DEF HandlerStep, Still, prefVars
  <2> QED BY <2>3, <2>4, <2>5, <2>6
<1> QED BY <1>1, <1>2, <1>3, <1>4, <1>5, <1>6, <1>7, <1>8 DEF BarNext

(* What the drawer does is a handler's doing.                              *)
LEMMA DrawersHandle ==
    ASSUME TableTypes, DrawersNext, ~FullPage, ~ReportFullPage
    PROVE  HandlerStep
<1>0. \A n \in Numbers : n \in Num
  BY DEF Num
<1>k. ASSUME Hand, ActKeep
      PROVE  /\ mounted /\ top.number = 0
             /\ UNCHANGED <<shift, views, loaded, failed, aged, shown, effects, top, mounted, late, lost>>
             /\ left' \in [acts : Nat, changes : Nat]
  BY <1>k, ActTypes DEF Hand, OnTop, ActKeep, dataVars
<1>1. /\ Hand /\ ActKeep /\ UNCHANGED <<text, focus, help>>
      /\ (\E n \in Numbers : Opens(n)) \/ Closes
  BY DEF DrawersNext, RowPress, DrawerLink, DrawerNext, ReportDrawerNext, DrawerClose, DrawerStep
<1>2. ASSUME NEW n \in Numbers, Opens(n) PROVE Patched /\ UNCHANGED saved
  BY <1>0, <1>1, <1>2, OpensIsPatched
<1>3. ASSUME Closes PROVE Patched /\ UNCHANGED saved
  BY <1>1, <1>3, ClosesIsPatched
<1>4. focus \in BOOLEAN /\ help \in BOOLEAN
  BY DEF TableTypes
<1> QED BY <1>k, <1>1, <1>2, <1>3, <1>4 DEF HandlerStep

(* Walking with the drawer open opens the next row.                        *)
LEMMA WalkOpens ==
    ASSUME NEW delta, Move(delta)
    PROVE  \E n \in Numbers : Opens(n) \/ Selects(n)
  BY DEF Move

(* What the keys do is a handler's doing.                                  *)
LEMMA KeysHandle ==
    ASSUME TableTypes, KeysNext, ~OnFull
    PROVE  HandlerStep
<1>0. (\A n \in Numbers : n \in Num) /\ 0 \in Num /\ Query.sel \in Num
      /\ Base \in UrlsWith(States) /\ Base.open = shown.url.open
  BY QueryFacts, UrlFields DEF Num
<1>k. ASSUME Key, ActKeep
      PROVE  /\ mounted /\ top.number = 0
             /\ UNCHANGED <<shift, views, loaded, failed, aged, shown, effects, top, mounted, late, lost>>
             /\ left' \in [acts : Nat, changes : Nat]
  BY <1>k, ActTypes DEF Key, OnTop, ActKeep, dataVars
<1>t. focus \in BOOLEAN /\ help \in BOOLEAN
  BY DEF TableTypes
<1>1. CASE KeySlash
  BY <1>k, <1>t, <1>1 DEF KeySlash, Bound, HandlerStep, Still, prefVars
<1>2. CASE KeyEsc
  <2>0. Key /\ ActKeep /\ UNCHANGED text
    BY <1>2 DEF KeyEsc
  <2> DEFINE next == [Base EXCEPT !.q = ""]
  <2>1. next \in UrlsWith(States) /\ next.tab = Base.tab /\ next.open = Base.open
    BY <1>0, DispatchAssumption DEF UrlsWith
  <2>2. /\ focus' \in BOOLEAN /\ help' \in BOOLEAN
        /\ \/ UNCHANGED <<url, dirty, outran, named, choice, prefVars, drawer>>
           \/ Closes
           \/ Selects(0)
           \/ Patch(next) /\ UNCHANGED drawer
    BY <1>2, <1>t DEF KeyEsc
  <2>3. CASE UNCHANGED <<url, dirty, outran, named, choice, prefVars, drawer>>
    BY <1>k, <2>0, <2>2, <2>3 DEF HandlerStep, Still, prefVars
  <2>4. CASE Closes
    BY <1>k, <2>0, <2>2, <2>4, ClosesIsPatched DEF HandlerStep
  <2>5. CASE Selects(0)
    BY <1>0, <1>k, <2>0, <2>2, <2>5, SelectsIsPatched DEF HandlerStep
  <2>6. CASE Patch(next) /\ UNCHANGED drawer
    BY <1>k, <2>0, <2>1, <2>2, <2>6, PatchIsPatched DEF HandlerStep
  <2> QED BY <2>2, <2>3, <2>4, <2>5, <2>6
<1>3. CASE KeyReturn
  <2>1. /\ Key /\ ActKeep /\ UNCHANGED <<text, focus, help>>
        /\ Opens(Query.sel) \/ Move(1)
    BY <1>3 DEF KeyReturn, Bound
  <2>2. \/ Opens(Query.sel)
        \/ \E n \in Numbers : Opens(n) \/ Selects(n)
    BY <2>1, WalkOpens
  <2>3. Patched /\ UNCHANGED saved
    BY <1>0, <2>1, <2>2, OpensIsPatched, SelectsIsPatched
  <2> QED BY <1>k, <1>t, <2>1, <2>3 DEF HandlerStep
<1>4. CASE KeyHelp
  BY <1>k, <1>t, <1>4 DEF KeyHelp, Bound, HandlerStep, Still, prefVars
<1>5. ASSUME NEW delta \in {1, -1}, KeyJK(delta) \/ ReportKeyJK(delta) PROVE HandlerStep
  <2>1. Key /\ ActKeep /\ UNCHANGED <<text, focus, help>> /\ Move(delta)
    BY <1>5 DEF KeyJK, ReportKeyJK, KeyWalk, Bound
  <2>2. \E n \in Numbers : Opens(n) \/ Selects(n)
    BY <2>1, WalkOpens
  <2>3. Patched /\ UNCHANGED saved
    BY <1>0, <2>1, <2>2, OpensIsPatched, SelectsIsPatched
  <2> QED BY <1>k, <1>t, <2>1, <2>3 DEF HandlerStep
<1> QED BY <1>1, <1>2, <1>3, <1>4, <1>5 DEF KeysNext

(***************************************************************************)
(* The invariant                                                           *)
(***************************************************************************)
LEMMA FallbackIsState ==
    ASSUME TableTypes PROVE FallbackState \in States /\ (~Incidental => FallbackState = Default)
  BY DEF TableTypes, FallbackState, States, Incidental, Default

(* Rows that change keep the types.                                        *)
LEMMA DataTypes ==
    ASSUME TableTypes PROVE Data \in [Numbers -> {Default, Other, "none"}]
  BY DEF TableTypes, Data

(* A render shows what the types allow.                                    *)
LEMMA SnapshotTypes ==
    ASSUME TableTypes
    PROVE  Snapshot \in [url : Urls, rows : [Numbers -> {Default, Other, "none"}], loaded : BOOLEAN,
                         aged : SUBSET Numbers, fallback : States, drawn : BOOLEAN]
  BY FallbackIsState, DataTypes DEF Snapshot, TableTypes, BodyDrawn

(* The invariant holds at first.                                           *)
LEMMA TableInitInv ==
    ASSUME TableInit PROVE TableInv
<1>0. shift \in Shifts
  BY DEF TableInit
<1>1. TableTypes
  <2>1. url \in Urls /\ views \in [Numbers -> {Default, Other, "none"}] /\ aged = {}
    BY <1>0, ShiftTypes DEF TableInit
  <2>2. pref \in [stored : States \cup {"none"}, reading : States \cup {"none", "done"}]
        /\ (Incidental \/ (pref.reading = "done" /\ saved = "none"))
    BY <1>0, ShiftTypes DEF TableInit, LoadStatePreference, Incidental
  <2>3. Data \in [Numbers -> {Default, Other, "none"}]
    BY <2>1 DEF Data
  <2>4. shown \in [url : Urls, rows : [Numbers -> {Default, Other, "none"}], loaded : BOOLEAN,
                   aged : SUBSET Numbers, fallback : States, drawn : BOOLEAN]
    BY <2>1, <2>3 DEF TableInit, Snapshot, BodyDrawn, States
  <2>5. top \in [number : Num, url : Urls, carried : BOOLEAN, help : BOOLEAN]
    BY <1>0, ShiftTypes, BarIsUrl DEF TableInit, NoPage
  <2>6. url.tab \in States \cup {"none"} /\ url.open \in Num
    BY <1>0, <2>1, UrlFields DEF Urls, States
  <2>7. left \in [acts : Nat, changes : Nat] /\ "" \in Searches
    BY <1>0, ShiftTypes, DispatchAssumption DEF TableInit
  <2> QED BY <1>0, <2>1, <2>2, <2>4, <2>5, <2>6, <2>7 DEF TableInit, TableTypes
<1>2. shown.url = url /\ shown.loaded = FALSE /\ shown.drawn = FALSE
  BY DEF TableInit, Snapshot, BodyDrawn
<1>3. DrawnInv
  BY DEF DrawnInv, TableInit
<1>4. MountInv
  BY <1>0, ShiftTypes DEF MountInv, TableInit, NoPage
<1>5. NamedInv /\ ChoiceInv
  <2>1. named = {url.tab} /\ choice = "none" /\ saved = shift.saved
        /\ pref = [stored |-> "none", reading |-> IF Incidental THEN LoadStatePreference ELSE "done"]
        /\ shown.fallback = Default
    BY DEF TableInit, Snapshot
  <2>2. top.url.tab = "none"
    BY <1>0, BarIsUrl DEF TableInit, NoPage
  <2> QED BY <1>2, <2>1, <2>2 DEF NamedInv, ChoiceInv, LoadStatePreference
<1>6. LostInv /\ DrawerInv
  BY <1>2 DEF LostInv, DrawerInv, TableInit
<1>7. NormalInv
  BY DEF NormalInv, Settled, TableInit
<1>8. TextInv /\ PageInv
  BY <1>2 DEF TextInv, PageInv, TableInit, NoPage
<1> QED BY <1>1, <1>3, <1>4, <1>5, <1>6, <1>7, <1>8 DEF TableInv

\* What a URL stands for depends on the shift and the preference only.
(* A patch that keeps the state keeps what the URL stands for.             *)
LEMMA StateOfKept ==
    ASSUME UNCHANGED <<shift, pref>>
    PROVE  /\ FallbackState' = FallbackState
           /\ Default' = Default /\ Other' = Other /\ States' = States /\ Urls' = Urls
           /\ Incidental' = Incidental
           /\ StateOf(url)' = IF url'.tab = "none" THEN FallbackState ELSE url'.tab
  BY DEF FallbackState, Default, Other, States, Urls, Incidental, StateOf

(* A handler's patch keeps the invariant.                                  *)
LEMMA HandlerKeeps ==
    ASSUME TableInv, HandlerStep
    PROVE  TableInv'
<1> USE DEF TableInv
<1>0. shift \in Shifts /\ shown.url \in Urls /\ url \in Urls
  BY DEF TableTypes
<1>k. /\ mounted /\ top.number = 0
      /\ UNCHANGED <<shift, views, loaded, failed, aged, shown, effects, top, mounted, late, lost>>
      /\ Default' = Default /\ Other' = Other /\ States' = States /\ Urls' = Urls
      /\ Incidental' = Incidental
  BY DEF HandlerStep, Default, Other, States, Urls, Incidental
<1>t. \A u \in Urls : u.tab \in States \cup {"none"} /\ u.open \in Num /\ u.q \in Searches
  BY UrlFields DEF Urls, States
<1>c. ~top.carried
  BY <1>k DEF MountInv
<1>1. CASE Still
  <2>1. FallbackState' = FallbackState /\ StateOf(url)' = StateOf(url)
    BY <1>1, <1>k, StateOfKept DEF Still, StateOf
  <2>2. TableTypes'
    BY <1>1, <1>k DEF HandlerStep, TableTypes, Still
  <2>3. DrawnInv'
    <3>1. Snapshot' = Snapshot
      BY <1>1, <1>k, <2>1 DEF Still, Snapshot, Data, BodyDrawn
    <3> QED BY <1>1, <1>k, <3>1 DEF DrawnInv, Still
  <2>4. MountInv' /\ LostInv' /\ DrawerInv' /\ TextInv'
    BY <1>1, <1>k DEF Still, MountInv, LostInv, DrawerInv, TextInv
  <2>7. NamedInv'
    BY <1>1, <1>k DEF Still, NamedInv, HandlerStep
  <2>5. ChoiceInv' /\ PageInv'
    BY <1>1, <1>k, <2>1 DEF Still, ChoiceInv, PageInv
  <2>6. NormalInv'
    BY <1>1, <1>k DEF Still, NormalInv, Settled
  <2> QED BY <2>2, <2>3, <2>4, <2>5, <2>6, <2>7
<1>2. CASE Patched
  <2>1. PICK next \in Urls :
          /\ url' = next /\ dirty' = TRUE /\ Race /\ UNCHANGED <<named, choice, pref>>
          /\ next.tab = shown.url.tab
          /\ drawer' = next.open \/ (UNCHANGED drawer /\ next.open = shown.url.open)
          /\ text' = next.q \/ UNCHANGED text
    BY <1>2 DEF Patched
  <2>2. outran' \in BOOLEAN /\ (~outran' => ~outran /\ url = shown.url)
    BY <2>1 DEF Race, TableTypes
  <2>3. FallbackState' = FallbackState
        /\ StateOf(url)' = IF next.tab = "none" THEN FallbackState ELSE next.tab
    BY <1>k, <2>1, StateOfKept
  <2>4. TableTypes'
    BY <1>k, <1>t, <2>1, <2>2 DEF HandlerStep, TableTypes
  <2>5. DrawnInv' /\ NormalInv'
    BY <2>1 DEF DrawnInv, NormalInv, Settled
  <2>6. MountInv' /\ NamedInv' /\ LostInv'
    BY <1>k, <2>1 DEF HandlerStep, MountInv, NamedInv, LostInv
  <2>7. ChoiceInv'
    BY <1>k, <2>1, <2>2, <2>3 DEF ChoiceInv, StateOf
  <2>8. DrawerInv' /\ TextInv'
    BY <1>k, <2>1, <2>2 DEF DrawerInv, TextInv
  <2>9. PageInv'
    BY <1>k, <1>c DEF PageInv
  <2> QED BY <2>4, <2>5, <2>6, <2>7, <2>8, <2>9
<1>3. CASE Chosen
  <2>1. PICK next \in Urls, t \in States :
          /\ url' = next /\ dirty' = TRUE /\ Race
          /\ next.tab = (IF t = Default THEN "none" ELSE t)
          /\ next.open = shown.url.open
          /\ named' = named \cup {t} /\ choice' = t
          /\ pref' = IF Incidental THEN [pref EXCEPT !.stored = t] ELSE pref
          /\ UNCHANGED <<drawer, text>>
    BY <1>3 DEF Chosen
  <2>2. outran' \in BOOLEAN /\ (~outran' => ~outran /\ url = shown.url)
    BY <2>1 DEF Race, TableTypes
  <2>3. /\ pref' \in [stored : States \cup {"none"}, reading : States \cup {"none", "done"}]
        /\ pref'.reading = pref.reading
        /\ Incidental => pref'.stored = t
    BY <2>1 DEF TableTypes
  <2>4. TableTypes'
    BY <1>k, <1>t, <2>1, <2>2, <2>3 DEF HandlerStep, TableTypes
  <2>5. DrawnInv' /\ NormalInv'
    BY <2>1 DEF DrawnInv, NormalInv, Settled
  <2>6. MountInv' /\ LostInv'
    BY <1>k, <2>1 DEF MountInv, LostInv
  <2>7. NamedInv'
    <3>1. pref'.stored \in {t, pref.stored} /\ pref'.reading = pref.reading
      BY <2>1 DEF TableTypes
    <3>2. saved' \in named' \cup {saved}
      BY DEF HandlerStep
    <3> QED BY <1>k, <2>1, <3>1, <3>2 DEF NamedInv
  <2>8. ChoiceInv'
    <3>1. t # "none"
      BY <1>0, TabNames
    <3>2. url'.tab = "none" /\ pref'.reading = "done" => FallbackState' = t
      BY <1>k, <2>1, <2>3, <3>1 DEF FallbackState
    <3> QED BY <2>1, <2>3, <3>1, <3>2 DEF ChoiceInv, StateOf
  <2>9. DrawerInv' /\ TextInv'
    BY <1>k, <2>1, <2>2 DEF DrawerInv, TextInv
  <2>10. PageInv'
    BY <1>k, <1>c DEF PageInv
  <2> QED BY <2>4, <2>5, <2>6, <2>7, <2>8, <2>9, <2>10
<1> QED BY <1>1, <1>2, <1>3 DEF HandlerStep

\* Pushing the page.
(* So does a record pushed as a page of its own.                           *)
LEMMA PushKeeps ==
    ASSUME TableInv, OnFull, Act, mounted
    PROVE  TableInv'
<1> USE DEF TableInv
<1>k. UNCHANGED <<shift, views, loaded, failed, aged, pref, saved, shown, dirty, effects, url, text,
                  focus, help, mounted, named, choice, drawer, lost>>
  BY DEF OnFull, dataVars, prefVars
<1>l. late' = (late \/ pref.reading # "done" \/ shown.fallback # FallbackState)
  BY DEF OnFull
<1>o. outran' = (outran \/ url # shown.url)
  BY <1>k DEF OnFull, Race
<1>t. late \in BOOLEAN /\ outran \in BOOLEAN /\ shift \in Shifts /\ shown.url \in Urls /\ url \in Urls
  BY DEF TableTypes
<1>s. FallbackState' = FallbackState /\ StateOf(url)' = StateOf(url)
      /\ Default' = Default /\ Other' = Other /\ States' = States /\ Urls' = Urls
      /\ Incidental' = Incidental
  BY <1>k, StateOfKept DEF StateOf
<1> DEFINE p == ParamsOf(Query)
<1>q. Query \in UrlsWith(States) /\ p \in Urls
      /\ p.tab = (IF Query.tab = Default THEN "none" ELSE Query.tab)
      /\ p.narrow = shown.url.narrow /\ p.q = shown.url.q /\ p.sort = shown.url.sort
  BY <1>t, QueryFacts, ParamsFacts
<1>p. top' = [number |-> Opened, carried |-> TRUE, help |-> FALSE,
              url |-> [p EXCEPT !.sel = 0, !.open = 0]]
  BY DEF OnFull, Carried
<1>n. Opened \in Num /\ Opened # 0
  BY <1>q, UrlFields DEF OnFull, Opened
<1>u. [p EXCEPT !.sel = 0, !.open = 0] \in Urls
  BY <1>q DEF Urls, UrlsWith, Num
<1>1. TableTypes'
  <2>1. left' \in [acts : Nat, changes : Nat]
    BY ActTypes
  <2>2. late' \in BOOLEAN /\ outran' \in BOOLEAN
    BY <1>l, <1>o, <1>t
  <2>3. top' \in [number : Num, url : Urls, carried : BOOLEAN, help : BOOLEAN]
    BY <1>n, <1>p, <1>u
  <2> QED BY <1>k, <1>s, <2>1, <2>2, <2>3 DEF TableTypes
<1>2. DrawnInv'
  <2>1. Snapshot' = Snapshot
    BY <1>k, <1>s DEF Snapshot, Data, BodyDrawn
  <2> QED BY <1>k, <2>1 DEF DrawnInv
<1>3. MountInv'
  BY <1>k, <1>n, <1>p DEF MountInv
<1>4. LostInv' /\ DrawerInv' /\ TextInv'
  BY <1>k, <1>o, <1>t DEF LostInv, DrawerInv, TextInv
\* The state of the pushed page is the default, one of the table's URL or the fallback.
<1>8. NamedInv'
  <2>1. top'.carried /\ top'.url.tab = p.tab
    BY <1>p, <1>q DEF Urls, UrlsWith
  <2>2. Query.tab \in named \cup {shift.saved, Default}
    BY QueryFacts DEF NamedInv
  <2>3. p.tab \in named \cup {shift.saved, "none"}
    BY <1>q, <2>2
  <2> QED BY <1>k, <1>s, <2>1, <2>3 DEF NamedInv
<1>5. ChoiceInv'
  BY <1>k, <1>l, <1>o, <1>s, <1>t DEF ChoiceInv
<1>6. NormalInv'
  BY <1>k DEF NormalInv, Settled
<1>7. PageInv'
  <2> SUFFICES ASSUME ~late', ~outran' PROVE PageInv'
    BY DEF PageInv
  <2>1. pref.reading = "done" /\ shown.fallback = FallbackState /\ url = shown.url
    BY <1>l, <1>o, <1>t
  <2>2. /\ top'.url.narrow = url.narrow /\ top'.url.q = url.q /\ top'.url.sort = url.sort
        /\ top'.url.tab = p.tab
    BY <1>p, <1>q, <2>1 DEF Urls, UrlsWith
  <2>3. Query.tab = StateOf(url)
    BY <2>1, QueryFacts, FallbackIsState DEF StateOf
  <2>4. Query.tab # "none"
    BY <1>q, <1>t, UrlFields, TabNames
  <2> QED BY <1>k, <1>q, <1>s, <2>1, <2>2, <2>3, <2>4 DEF PageInv
<1> QED BY <1>1, <1>2, <1>3, <1>4, <1>5, <1>6, <1>7, <1>8

\* The page on top: its own steps, and the way back to the table.
(* So does the table that comes up.                                        *)
LEMMA MountKeeps ==
    ASSUME TableInv, NEW data \in BOOLEAN, NEW link \in Urls, Mounts(link, data),
           data => loaded, link.tab \in named \cup {"none"},
           top' \in [number : Num, url : Urls, carried : BOOLEAN, help : BOOLEAN], ~top'.carried,
           top'.url.tab \in named \cup {"none"},
           left' \in [acts : Nat, changes : Nat],
           UNCHANGED <<shift, views, aged, saved, named, lost>>,
           loaded' \in BOOLEAN, failed' \in BOOLEAN, loaded' => loaded,
           late' \in BOOLEAN, outran' \in BOOLEAN, choice' \in States \cup {"none"}, drawer' \in Num,
           choice' # "none" /\ ~late' /\ ~outran' =>
              IF link.tab # "none" THEN link.tab = choice' ELSE Incidental,
           ~outran' => link.open = drawer' \/ (link.open = 0 /\ drawer' \in lost)
    PROVE  TableInv'
<1> USE DEF TableInv
<1>k. /\ mounted' = TRUE /\ url' = link /\ dirty' = TRUE
      /\ effects' = [due |-> FALSE, box |-> FALSE]
      /\ pref' = [stored |-> "none", reading |-> IF Incidental THEN LoadStatePreference ELSE "done"]
      /\ shown' = [url |-> link, aged |-> aged, fallback |-> Default, loaded |-> data, drawn |-> FALSE,
                   rows |-> [n \in Numbers |-> IF data THEN views[n] ELSE "none"]]
      /\ text' = "" /\ focus' = FALSE /\ help' = FALSE
  BY DEF Mounts
<1>s. Default' = Default /\ Other' = Other /\ States' = States /\ Urls' = Urls
      /\ Incidental' = Incidental
  BY DEF Default, Other, States, Urls, Incidental
<1>r. pref'.reading \in States \cup {"none", "done"} /\ (pref'.reading = "done" => ~Incidental)
  <2>1. "done" \notin States /\ LoadStatePreference \in States \cup {"none"}
    BY TabNames DEF TableTypes, LoadStatePreference
  <2>2. pref'.reading = IF Incidental THEN LoadStatePreference ELSE "done"
    BY <1>k
  <2> QED BY <2>1, <2>2
<1>1. TableTypes'
  <2>1. shown' \in [url : Urls, rows : [Numbers -> {Default, Other, "none"}], loaded : BOOLEAN,
                    aged : SUBSET Numbers, fallback : States, drawn : BOOLEAN]
    BY <1>k DEF TableTypes, States
  <2>2. Incidental \/ (pref'.reading = "done" /\ saved' = "none")
    BY <1>k DEF TableTypes
  <2>3. pref' \in [stored : States \cup {"none"}, reading : States \cup {"none", "done"}]
    BY <1>k, <1>r
  <2>4. "" \in Searches
    BY DispatchAssumption
  <2> QED BY <1>k, <1>s, <2>1, <2>2, <2>3, <2>4 DEF TableTypes
<1>2. DrawnInv' /\ NormalInv' /\ TextInv'
  BY <1>k DEF DrawnInv, NormalInv, Settled, TextInv
<1>3. MountInv' /\ PageInv' /\ DrawerInv'
  BY <1>k DEF MountInv, PageInv, DrawerInv
<1>6. NamedInv'
  BY <1>k, <1>s DEF NamedInv, LoadStatePreference
<1>4. LostInv'
  BY <1>k DEF LostInv, TableTypes
<1>5. ChoiceInv'
  BY <1>k, <1>r DEF ChoiceInv, StateOf
<1> QED BY <1>1, <1>2, <1>3, <1>4, <1>5, <1>6

(* So does what is done on the page.                                       *)
LEMMA PageKeeps ==
    ASSUME TableInv, PageNext
    PROVE  TableInv'
<1> USE DEF TableInv
<1>a. left' \in [acts : Nat, changes : Nat]
  BY ActTypes DEF PageNext, IncidentPageGoTo, ReportPageGoTo, PageGoTo, IncidentPageGoBack,
     ReportPageGoBack, PageGoBack, PageHelp
\* The table beneath stands still.
<1>1. ASSUME PageKeep, UNCHANGED <<mounted, shown, dirty, effects>>,
             top' \in [number : Num, url : Urls, carried : BOOLEAN, help : BOOLEAN],
             top'.number = 0 => ~top'.carried,
             top'.carried => top.carried /\ top'.url = top.url,
             top'.url.tab = "none" \/ (top'.url = top.url /\ top'.carried = top.carried)
      PROVE  TableInv'
  <2>k. UNCHANGED <<shift, views, loaded, failed, aged, pref, saved, shown, dirty, effects, url, text,
                    focus, help, mounted, named, choice, late, outran, drawer, lost>>
    BY <1>1 DEF PageKeep, dataVars, prefVars, tableHist
  <2>s. FallbackState' = FallbackState /\ StateOf(url)' = StateOf(url)
        /\ Default' = Default /\ Other' = Other /\ States' = States /\ Urls' = Urls
        /\ Incidental' = Incidental
    BY <2>k, StateOfKept DEF StateOf
  <2>1. TableTypes'
    BY <1>a, <1>1, <2>k, <2>s DEF TableTypes
  <2>2. DrawnInv'
    <3>1. Snapshot' = Snapshot
      BY <2>k, <2>s DEF Snapshot, Data, BodyDrawn
    <3> QED BY <2>k, <3>1 DEF DrawnInv
  <2>3. MountInv' /\ NamedInv' /\ LostInv' /\ DrawerInv' /\ TextInv'
    BY <1>1, <2>k, <2>s DEF MountInv, NamedInv, LostInv, DrawerInv, TextInv
  <2>4. ChoiceInv' /\ PageInv'
    BY <1>1, <2>k, <2>s DEF ChoiceInv, PageInv
  <2>5. NormalInv'
    BY <2>k DEF NormalInv, Settled
  <2> QED BY <2>1, <2>2, <2>3, <2>4, <2>5
<1>2. ASSUME NEW delta, PageGoTo(delta) PROVE TableInv'
  <2>1. PICK n \in Numbers : top' = [top EXCEPT !.number = n]
    BY <1>2 DEF PageGoTo
  <2>2. n # 0 /\ n \in Num
    BY DispatchAssumption DEF Num
  <2>3. top' \in [number : Num, url : Urls, carried : BOOLEAN, help : BOOLEAN]
        /\ top'.number # 0 /\ top'.url = top.url /\ top'.carried = top.carried
    BY <2>1, <2>2 DEF TableTypes
  <2> QED BY <1>1, <1>2, <2>3 DEF PageGoTo
<1>3. CASE PageHelp
  <2>1. top' = [top EXCEPT !.help = ~top.help] /\ top.number # 0
    BY <1>3 DEF PageHelp
  <2>2. top' \in [number : Num, url : Urls, carried : BOOLEAN, help : BOOLEAN]
        /\ top'.number # 0 /\ top'.url = top.url /\ top'.carried = top.carried
    BY <2>1 DEF TableTypes
  <2> QED BY <1>1, <1>3, <2>2 DEF PageHelp
<1>4. CASE PageGoBack
  <2>1. top' = NoPage
    BY <1>4 DEF PageGoBack
  <2>2. top' \in [number : Num, url : Urls, carried : BOOLEAN, help : BOOLEAN] /\ ~top'.carried
        /\ top'.url.tab = "none"
    BY <2>1, BarIsUrl DEF TableTypes, NoPage, Num
  <2>3. CASE mounted
    BY <1>1, <1>4, <2>2, <2>3 DEF PageGoBack
  <2>4. CASE ~mounted
    <3>1. Mounts(Bar, loaded) /\ UNCHANGED <<shift, views, loaded, failed, aged, saved, named, choice,
                                            late, outran, drawer, lost>>
      BY <1>4, <2>4 DEF PageGoBack, dataVars, tableHist
    <3>2. url = Bar /\ choice = "none"
      BY <2>4 DEF MountInv
    <3>3. Bar \in Urls /\ Bar.tab = "none"
      BY BarIsUrl DEF TableTypes
    <3>4. loaded \in BOOLEAN /\ failed \in BOOLEAN /\ late \in BOOLEAN /\ outran \in BOOLEAN
          /\ drawer \in Num
      BY DEF TableTypes
    <3>5. ~outran => Bar.open = drawer \/ (Bar.open = 0 /\ drawer \in lost)
      BY <3>2 DEF DrawerInv
    <3> QED BY <1>a, <2>2, <3>1, <3>2, <3>3, <3>4, <3>5, MountKeeps
  <2> QED BY <2>3, <2>4 DEF TableTypes
<1> QED
  BY <1>2, <1>3, <1>4 DEF PageNext, IncidentPageGoTo, ReportPageGoTo, IncidentPageGoBack, ReportPageGoBack

(***************************************************************************)
(* Renders and their effects                                               *)
(***************************************************************************)
LEMMA RenderKeeps ==
    ASSUME TableInv, Render
    PROVE  TableInv'
<1> USE DEF TableInv
<1>k. UNCHANGED <<shift, views, loaded, failed, aged, pref, saved, url, help, top, mounted, left,
                  named, choice, late, outran, drawer, lost>>
  BY DEF Render, dataVars, prefVars, tableHist
<1>r. /\ mounted /\ dirty /\ ~effects.due
      /\ shown' = Snapshot /\ dirty' = FALSE
      /\ effects' = [due |-> TRUE, box |-> shown.drawn /\ BodyDrawn /\ shown.url.q # url.q]
      /\ text' = IF BodyDrawn /\ ~shown.drawn THEN url.q ELSE text
      /\ focus' = (focus /\ BodyDrawn)
  BY DEF Render
<1>s. FallbackState' = FallbackState /\ StateOf(url)' = StateOf(url)
      /\ Default' = Default /\ Other' = Other /\ States' = States /\ Urls' = Urls
      /\ Incidental' = Incidental
  BY <1>k, StateOfKept DEF StateOf
<1>v. shown'.url = url /\ shown'.rows = Data /\ shown'.loaded = loaded /\ shown'.drawn = BodyDrawn
  BY <1>r DEF Snapshot
<1>1. TableTypes'
  <2>1. url.q \in Searches /\ text' \in Searches
    BY <1>r, UrlFields DEF TableTypes, Urls
  <2>2. effects' \in [due : BOOLEAN, box : BOOLEAN] /\ focus' \in BOOLEAN /\ dirty' \in BOOLEAN
    BY <1>r DEF BodyDrawn, TableTypes
  <2>3. shown' \in [url : Urls, rows : [Numbers -> {Default, Other, "none"}], loaded : BOOLEAN,
                    aged : SUBSET Numbers, fallback : States, drawn : BOOLEAN]
    BY <1>r, SnapshotTypes
  <2> QED BY <1>k, <1>s, <2>1, <2>2, <2>3 DEF TableTypes
<1>2. DrawnInv'
  <2>1. Snapshot' = Snapshot
    BY <1>k, <1>s DEF Snapshot, Data, BodyDrawn
  <2> QED BY <1>r, <2>1 DEF DrawnInv
<1>3. MountInv' /\ DrawerInv'
  BY <1>k, <1>v DEF MountInv, DrawerInv
<1>8. NamedInv'
  <2>1. shown'.fallback = FallbackState
    BY <1>r DEF Snapshot
  <2>2. FallbackState \in named \cup {shift.saved, Default}
    BY DEF NamedInv, FallbackState
  <2> QED BY <1>k, <1>s, <1>v, <2>1, <2>2 DEF NamedInv
<1>4. LostInv'
  BY <1>k, <1>v DEF LostInv, Data
<1>5. ChoiceInv' /\ PageInv'
  BY <1>k, <1>s DEF ChoiceInv, PageInv
<1>6. NormalInv'
  BY <1>r DEF NormalInv, Settled
<1>7. TextInv'
  BY <1>k, <1>r, <1>v DEF TextInv
<1> QED BY <1>1, <1>2, <1>3, <1>4, <1>5, <1>6, <1>7, <1>8

(* So do the effects of a render.                                          *)
LEMMA EffectsKeep ==
    ASSUME TableInv, RunEffects
    PROVE  TableInv'
<1> USE DEF TableInv
<1>0. shift \in Shifts /\ shown.url \in Urls /\ url \in Urls
  BY DEF TableTypes
<1>k. UNCHANGED <<shift, views, loaded, failed, aged, pref, saved, shown, focus, help, top, mounted,
                  left, named, choice, late, drawer, lost>>
  BY DEF RunEffects, dataVars, prefVars
<1>r. /\ mounted /\ effects.due /\ effects' = [due |-> FALSE, box |-> FALSE]
      /\ text' = IF effects.box THEN shown.url.q ELSE text
      /\ Normalise
  BY DEF RunEffects, ReportNormalise
<1>q. Query.open = shown.url.open /\ Query.sel = shown.url.sel /\ Base \in UrlsWith(States)
      /\ Base.narrow = shown.url.narrow /\ Base.q = shown.url.q /\ Base.sort = shown.url.sort
      /\ Base.open = shown.url.open
      /\ Base.tab = IF shown.url.tab = "none" THEN Default ELSE shown.url.tab
  BY QueryFacts
<1>s. FallbackState' = FallbackState
      /\ StateOf(url)' = (IF url'.tab = "none" THEN FallbackState ELSE url'.tab)
      /\ Default' = Default /\ Other' = Other /\ States' = States /\ Urls' = Urls
      /\ Incidental' = Incidental
  BY <1>k, StateOfKept
<1>t. text' \in Searches
  BY <1>0, <1>r, UrlFields DEF TableTypes, Urls
<1>1. CASE UNCHANGED <<url, dirty, outran>> /\ (Query.open # 0 =>
              Query.sel = Query.open /\ (shown.loaded => Present(Query.open)))
  <2>1. TableTypes'
    BY <1>1, <1>k, <1>r, <1>s, <1>t DEF TableTypes
  <2>2. DrawnInv'
    <3>1. Snapshot' = Snapshot
      BY <1>1, <1>k, <1>s DEF Snapshot, Data, BodyDrawn
    <3> QED BY <1>1, <1>k, <3>1 DEF DrawnInv
  <2>3. MountInv' /\ NamedInv' /\ LostInv' /\ DrawerInv'
    BY <1>1, <1>k, <1>s DEF MountInv, NamedInv, LostInv, DrawerInv
  <2>4. ChoiceInv' /\ PageInv'
    BY <1>1, <1>k, <1>s DEF ChoiceInv, PageInv, StateOf
  <2>5. NormalInv'
    BY <1>1, <1>k, <1>q DEF NormalInv, Present
  <2>6. TextInv'
    BY <1>1, <1>k, <1>r DEF TextInv
  <2> QED BY <2>1, <2>2, <2>3, <2>4, <2>5, <2>6
<1>2. ASSUME NEW next \in UrlsWith(States), Navigate(next), next.tab = Base.tab,
             next.narrow = Base.narrow, next.q = Base.q, next.sort = Base.sort,
             next.open = Base.open \/ (next.open = 0 /\ Base.open \in lost)
      PROVE  TableInv'
  <2>1. url' = ParamsOf(next) /\ dirty' = TRUE /\ outran' = (outran \/ url # shown.url)
    BY <1>2 DEF Navigate, Race
  <2>2. outran' \in BOOLEAN /\ (~outran' => ~outran /\ url = shown.url)
    BY <1>k, <2>1 DEF TableTypes
  <2>3. /\ url' \in Urls /\ url'.tab = shown.url.tab
        /\ url'.narrow = shown.url.narrow /\ url'.q = shown.url.q /\ url'.sort = shown.url.sort
        /\ url'.open = shown.url.open \/ (url'.open = 0 /\ shown.url.open \in lost)
    <3>1. shown.url.tab # Default
      BY <1>0, UrlFields, TabNames DEF Urls
    <3> QED BY <1>0, <1>2, <1>q, <2>1, <3>1, ParamsFacts
  <2>4. TableTypes'
    BY <1>k, <1>r, <1>s, <1>t, <2>1, <2>2, <2>3 DEF TableTypes
  <2>5. DrawnInv' /\ NormalInv'
    BY <2>1 DEF DrawnInv, NormalInv, Settled
  <2>6. MountInv' /\ NamedInv' /\ LostInv'
    BY <1>k, <1>r, <1>s, <2>3 DEF MountInv, NamedInv, LostInv
  <2>7. DrawerInv' /\ TextInv'
    BY <1>k, <1>r, <2>2, <2>3 DEF DrawerInv, TextInv
  <2>8. ChoiceInv' /\ PageInv'
    BY <1>k, <1>s, <2>2, <2>3 DEF ChoiceInv, PageInv, StateOf
  <2> QED BY <2>4, <2>5, <2>6, <2>7, <2>8
<1>3. CASE shown.loaded /\ ~Present(Query.open) /\ Query.open # 0
           /\ Navigate([Base EXCEPT !.open = 0, !.sel = 0])
  <2> DEFINE next == [Base EXCEPT !.open = 0, !.sel = 0]
  <2>1. next \in UrlsWith(States) /\ next.tab = Base.tab /\ next.narrow = Base.narrow
        /\ next.q = Base.q /\ next.sort = Base.sort /\ next.open = 0
    BY <1>q DEF UrlsWith, Num
  <2>2. Base.open \in lost
    <3>1. Query.open \in Numbers
      BY <1>0, <1>3, <1>q, UrlFields DEF Urls, Num
    <3> QED BY <1>3, <1>q, <3>1 DEF LostInv, Present
  <2> QED BY <1>2, <1>3, <2>1, <2>2
<1>4. CASE Navigate([Base EXCEPT !.sel = Query.open])
  <2> DEFINE next == [Base EXCEPT !.sel = Query.open]
  <2>1. Query.open \in Num
    BY <1>0, <1>q, UrlFields DEF Urls
  <2>2. next \in UrlsWith(States) /\ next.tab = Base.tab /\ next.narrow = Base.narrow
        /\ next.q = Base.q /\ next.sort = Base.sort /\ next.open = Base.open
    BY <1>q, <2>1 DEF UrlsWith
  <2> QED BY <1>2, <1>4, <2>2
<1> QED BY <1>r, <1>1, <1>3, <1>4 DEF Normalise

(***************************************************************************)
(* The device, the rows and the clock                                      *)
(***************************************************************************)
LEMMA LoadedKeeps ==
    ASSUME TableInv, StatePreferenceLoaded
    PROVE  TableInv'
<1> USE DEF TableInv
<1>k. UNCHANGED <<shift, views, loaded, failed, aged, url, text, focus, help, top, mounted, saved, shown,
                  effects, left, named, choice, outran, drawer, lost>>
  BY DEF StatePreferenceLoaded, dataVars, viewVars
<1>p. /\ mounted /\ pref.reading # "done" /\ dirty' = TRUE
      /\ pref' = [stored |-> pref.reading, reading |-> "done"]
      /\ late' = (late \/ (choice # "none" /\ url.tab = "none"
                           /\ choice # (IF pref.reading = "none" THEN Default ELSE pref.reading)))
  BY DEF StatePreferenceLoaded
<1>s. Default' = Default /\ Other' = Other /\ States' = States /\ Urls' = Urls
      /\ Incidental' = Incidental /\ Incidental
  BY <1>k, <1>p DEF Default, Other, States, Urls, Incidental, TableTypes
<1>f. FallbackState' = IF pref.reading = "none" THEN Default ELSE pref.reading
  BY <1>p, <1>s DEF FallbackState
<1>1. TableTypes'
  <2>1. late' \in BOOLEAN /\ pref' \in [stored : States \cup {"none"}, reading : States \cup {"none", "done"}]
    BY <1>p DEF TableTypes
  <2> QED BY <1>k, <1>p, <1>s, <2>1 DEF TableTypes
<1>2. DrawnInv' /\ NormalInv'
  BY <1>p DEF DrawnInv, NormalInv, Settled
<1>3. MountInv' /\ LostInv' /\ DrawerInv' /\ TextInv'
  BY <1>k DEF MountInv, LostInv, DrawerInv, TextInv
<1>6. NamedInv'
  BY <1>k, <1>p, <1>s DEF NamedInv
<1>4. ChoiceInv'
  <2>1. late \in BOOLEAN
    BY DEF TableTypes
  <2> QED BY <1>k, <1>p, <1>f, <2>1 DEF ChoiceInv, StateOf
<1>5. PageInv'
  <2>1. late \in BOOLEAN
    BY DEF TableTypes
  <2> QED BY <1>k, <1>p, <2>1 DEF PageInv
<1> QED BY <1>1, <1>2, <1>3, <1>4, <1>5, <1>6

(* So does a reload.                                                       *)
LEMMA ReloadKeeps ==
    ASSUME TableInv, ReloadTable
    PROVE  TableInv'
<1> USE DEF TableInv
<1>1. /\ mounted /\ top.number = 0 /\ Act
      /\ Mounts(url, FALSE)
      /\ loaded' = FALSE /\ failed' = FALSE
      /\ choice' = IF choice = (IF url.tab = "none" THEN saved ELSE url.tab) THEN choice ELSE "none"
      /\ late' = FALSE /\ outran' = FALSE /\ drawer' = url.open
      /\ UNCHANGED <<shift, views, aged, saved, top, named, lost>>
  BY DEF ReloadTable, OnTop
<1>2. url \in Urls /\ url.tab \in named \cup {"none"} /\ ~top.carried
      /\ top.url.tab \in named \cup {"none"}
      /\ top \in [number : Num, url : Urls, carried : BOOLEAN, help : BOOLEAN]
  BY <1>1 DEF TableTypes, NamedInv, MountInv
<1>3. left' \in [acts : Nat, changes : Nat]
  BY <1>1, ActTypes
<1>4. choice' \in States \cup {"none"} /\ drawer' \in Num
  BY <1>1, <1>2, UrlFields DEF TableTypes, Urls
<1>5. choice' # "none" => IF url.tab # "none" THEN url.tab = choice' ELSE Incidental
  BY <1>1 DEF TableTypes
<1> QED BY <1>1, <1>2, <1>3, <1>4, <1>5, MountKeeps

(* So do rows that arrive, change or are lost.                             *)
LEMMA RowsKeepInv ==
    ASSUME TableInv,
           RowsLoaded \/ RowsFailed \/ \E n \in Numbers : MinuteClock(n)
              \/ \E s \in {Default, Other, "none"} : RowPatched(n, s)
    PROVE  TableInv'
<1> USE DEF TableInv
<1>k. /\ UNCHANGED <<shift, url, text, focus, help, top, mounted, pref, saved, shown, effects, named,
                     choice, late, outran, drawer>>
      /\ dirty' = mounted
  BY DEF RowsLoaded, RowsFailed, MinuteClock, RowPatched, RowsKeep, viewVars, prefVars, tableHist
<1>s. FallbackState' = FallbackState /\ StateOf(url)' = StateOf(url)
      /\ Default' = Default /\ Other' = Other /\ States' = States /\ Urls' = Urls
      /\ Incidental' = Incidental
  BY <1>k, StateOfKept DEF StateOf
<1>l. left' \in [acts : Nat, changes : Nat]
  BY DEF RowsLoaded, RowsFailed, MinuteClock, RowPatched, Change, TableTypes
<1> DEFINE Kept == /\ loaded' \in BOOLEAN /\ failed' \in BOOLEAN /\ aged' \subseteq Numbers
                   /\ views' \in [Numbers -> {Default, Other, "none"}]
                   /\ lost \subseteq lost' /\ lost' \subseteq Numbers
                   /\ loaded' => \A n \in Numbers : views'[n] = "none" => n \in lost'
<1>d. Kept
  <2>1. CASE RowsLoaded
    BY <2>1 DEF RowsLoaded, RowsKeep, Missing, TableTypes
  <2>2. CASE RowsFailed
    BY <2>2 DEF RowsFailed, RowsKeep, TableTypes, LostInv
  <2>3. ASSUME NEW n \in Numbers, MinuteClock(n) PROVE Kept
    BY <2>3 DEF MinuteClock, tableHist, TableTypes, LostInv
  <2>4. ASSUME NEW n \in Numbers, NEW s \in {Default, Other, "none"}, RowPatched(n, s) PROVE Kept
    BY <2>4 DEF RowPatched, RowsKeep, TableTypes, LostInv
  <2> QED BY <2>1, <2>2, <2>3, <2>4
<1>1. TableTypes'
  BY <1>k, <1>s, <1>l, <1>d DEF TableTypes
<1>2. DrawnInv' /\ NormalInv'
  BY <1>k DEF DrawnInv, NormalInv, Settled
<1>3. MountInv' /\ NamedInv' /\ DrawerInv' /\ TextInv'
  BY <1>k, <1>s, <1>d DEF MountInv, NamedInv, DrawerInv, TextInv
<1>4. LostInv'
  BY <1>k, <1>d DEF LostInv
<1>5. ChoiceInv' /\ PageInv'
  BY <1>k, <1>s DEF ChoiceInv, PageInv
<1> QED BY <1>1, <1>2, <1>3, <1>4, <1>5

(* Every step keeps the invariant.                                         *)
LEMMA TableStep ==
    ASSUME TableInv, [TableNext]_tableVars
    PROVE  TableInv'
<1>1. CASE UNCHANGED tableVars
  <2>1. UNCHANGED <<shift, views, loaded, failed, aged, url, text, focus, help, top, mounted, pref,
                    saved, shown, dirty, effects, left, named, choice, late, outran, drawer, lost>>
    BY <1>1 DEF tableVars, dataVars, viewVars, prefVars, tableHist
  <2>2. FallbackState' = FallbackState /\ StateOf(url)' = StateOf(url) /\ Snapshot' = Snapshot
        /\ Default' = Default /\ Other' = Other /\ States' = States /\ Urls' = Urls
        /\ Incidental' = Incidental
    BY <2>1, StateOfKept DEF StateOf, Snapshot, Data, BodyDrawn
  <2>3. TableTypes' /\ DrawnInv'
    BY <2>1, <2>2 DEF TableInv, TableTypes, DrawnInv
  <2>4. MountInv' /\ NamedInv' /\ LostInv' /\ DrawerInv' /\ TextInv' /\ NormalInv'
    BY <2>1, <2>2 DEF TableInv, MountInv, NamedInv, LostInv, DrawerInv, TextInv, NormalInv, Settled
  <2>5. ChoiceInv' /\ PageInv'
    BY <2>1, <2>2 DEF TableInv, ChoiceInv, PageInv
  <2> QED BY <2>3, <2>4, <2>5 DEF TableInv
<1>2. CASE Render \/ RunEffects
  BY <1>2, RenderKeeps, EffectsKeep
<1>3. CASE BarNext
  BY <1>3, BarHandles, HandlerKeeps DEF TableInv
<1>4. CASE FullPage \/ ReportFullPage
  BY <1>4, PushKeeps DEF FullPage, ReportFullPage, Hand, OnTop
<1>5. CASE DrawersNext /\ ~FullPage /\ ~ReportFullPage
  BY <1>5, DrawersHandle, HandlerKeeps DEF TableInv
<1>6. CASE KeysNext
  <2>1. CASE ~OnFull
    BY <1>6, <2>1, KeysHandle, HandlerKeeps DEF TableInv
  <2>2. CASE OnFull
    <3>1. Act /\ mounted
      BY <1>6 DEF KeysNext, KeySlash, KeyEsc, KeyReturn, KeyHelp, KeyJK, ReportKeyJK, KeyWalk,
         Bound, Key, OnTop
    <3> QED BY <2>2, <3>1, PushKeeps
  <2> QED BY <2>1, <2>2
<1>7. CASE PageNext
  BY <1>7, PageKeeps
<1>8. CASE DataNext
  BY <1>8, LoadedKeeps, ReloadKeeps, RowsKeepInv DEF DataNext
<1> QED
  BY <1>1, <1>2, <1>3, <1>4, <1>5, <1>6, <1>7, <1>8 DEF TableNext

(* The table's invariant holds in every state.                             *)
LEMMA TableInvariant == TableSpec => []TableInv
<1>1. TableInit => TableInv
  BY TableInitInv
<1>2. TableInv /\ [TableNext]_tableVars => TableInv'
  BY TableStep
<1> QED BY <1>1, <1>2, PTL DEF TableSpec

\* No URL names a state that neither the link named nor the visitor chose, the
\* stored preference included: not the table's, and a page's only if it was pushed
\* from the table (useDispatchQuery.ts, setQuery and rawState; DispatchScreen.tsx,
\* onFull).
THEOREM TableKeepsPreference == TableSpec => []PreferenceStaysLocal
<1>1. TableInv => PreferenceStaysLocal
  BY DEF TableInv, NamedInv, PreferenceStaysLocal
<1> QED BY <1>1, TableInvariant, PTL

\* The table shows the state chosen last, unless the stored one arrived after it
\* and undid it or the choice was made from a render out of date: the two cases
\* that ChoiceShown names (useDispatchQuery.ts, setQuery and the fallback).
THEOREM TableShowsChoice == TableSpec => []ChoiceShown
<1>1. TableInv => ChoiceShown
  <2> SUFFICES ASSUME TableInv, Settled, choice # "none", pref.reading = "done", ~late, ~outran
               PROVE  Query.tab = choice
    BY DEF ChoiceShown
  <2>1. shown.url = url /\ shown.fallback = FallbackState
    BY DEF TableInv, DrawnInv, Settled, Snapshot
  <2>2. Query.tab = StateOf(url)
    BY <2>1, QueryFacts, FallbackIsState DEF TableInv, StateOf
  <2> QED BY <2>2 DEF TableInv, ChoiceInv
<1> QED BY <1>1, TableInvariant, PTL

\* Drawer, selection, search box and URL agree after the effects of a render
\* (useDispatchQuery.ts, the normalising effect; FilterBar.tsx, Search); with the
\* types of the state.
THEOREM TableViewFollows == TableSpec => []ViewFollows
<1>1. TableInv => TableTypeOK
  <2> SUFFICES ASSUME TableInv PROVE TableTypeOK
    OBVIOUS
  <2>1. \A u \in Urls : u \in UrlsWith(States \cup {"none"})
    BY DEF Urls, UrlsWith, States
  <2> QED BY <2>1 DEF TableInv, TableTypes, TableTypeOK
<1>2. TableInv => ViewFollows
  <2> SUFFICES ASSUME TableInv, Settled
               PROVE  /\ Query.open # 0 => Query.sel = Query.open /\ (shown.loaded => Present(Query.open))
                      /\ ~outran => Query.open = drawer \/ (Query.open = 0 /\ drawer \in lost)
                      /\ ~outran /\ shown.drawn => text = Query.q
    BY <1>1 DEF ViewFollows
  <2>1. shown.url = url
    BY DEF TableInv, DrawnInv, Settled, Snapshot
  <2>2. Query.open = url.open /\ Query.sel = url.sel /\ Query.q = url.q
    BY <2>1, QueryFacts DEF TableInv
  <2>3. Query.open # 0 => Query.sel = Query.open /\ (shown.loaded => Present(Query.open))
    BY <2>1, <2>2 DEF TableInv, NormalInv, Present
  <2>4. ~outran => Query.open = drawer \/ (Query.open = 0 /\ drawer \in lost)
    BY <2>2 DEF TableInv, DrawerInv
  <2>5. ~outran /\ shown.drawn => text = Query.q
    BY <2>1, <2>2 DEF TableInv, TextInv, Settled
  <2> QED BY <2>3, <2>4, <2>5
<1> QED BY <1>2, TableInvariant, PTL

\* What is visible depends on the filters of a query, not on its drawer.
(* Which rows are seen depends on the filters of the URL alone.            *)
LEMMA VisibleByFilters ==
    ASSUME NEW some, NEW old, NEW p, NEW q,
           p.tab = q.tab, p.narrow = q.narrow, p.q = q.q, p.sort = q.sort
    PROVE  VisibleIn(some, old, p) = VisibleIn(some, old, q)
<1>1. ApplyQuery(some, old, p) = ApplyQuery(some, old, q)
  BY DEF ApplyQuery
<1>2. ReportApplyQuery(some, p) = ReportApplyQuery(some, q)
  BY DEF ReportApplyQuery
<1> QED BY <1>1, <1>2 DEF VisibleIn

\* The page pushed from the table walks the table's some in the table's order
\* (DispatchScreen.tsx, onFull; IncidentPage.tsx).
THEOREM TablePageWalksTable == TableSpec => []PageWalksTable
<1>1. TableInv => PageWalksTable
  <2> SUFFICES ASSUME TableInv, Settled, top.carried, ~late, ~outran
               PROVE  PageVisible = Visible
    BY DEF PageWalksTable
  <2>0. shift \in Shifts /\ top.url \in Urls
    BY DEF TableInv, TableTypes
  <2>1. shown.url = url /\ shown.fallback = FallbackState /\ shown.rows = Data /\ shown.aged = aged
    BY DEF TableInv, DrawnInv, Settled, Snapshot
  <2>2. /\ Query.tab = StateOf(url) /\ Query.narrow = url.narrow
        /\ Query.q = url.q /\ Query.sort = url.sort
    BY <2>1, QueryFacts, FallbackIsState DEF TableInv, StateOf
  <2>3. PageQuery = [top.url EXCEPT !.tab = IF top.url.tab = "none" THEN Default ELSE top.url.tab]
    BY <2>0, TabNames DEF PageQuery, ParseQuery, ReportParseQuery, Urls, UrlsWith
  <2>4. /\ PageQuery.tab = (IF top.url.tab = "none" THEN Default ELSE top.url.tab)
        /\ PageQuery.narrow = top.url.narrow
        /\ PageQuery.q = top.url.q /\ PageQuery.sort = top.url.sort
    BY <2>0, <2>3 DEF Urls, UrlsWith
  <2>5. /\ PageQuery.tab = Query.tab /\ PageQuery.narrow = Query.narrow
        /\ PageQuery.q = Query.q /\ PageQuery.sort = Query.sort
    BY <2>2, <2>4 DEF TableInv, PageInv
  <2> QED BY <2>1, <2>5, VisibleByFilters DEF PageVisible, Visible
<1> QED BY <1>1, TableInvariant, PTL
=============================================================================
