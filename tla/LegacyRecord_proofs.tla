------------------------ MODULE LegacyRecord_proofs ------------------------
(***************************************************************************)
(* Proofs about the page of one record in the legacy web client, for any   *)
(* tabs, texts, types and bounds: it creates one record, keeps every text  *)
(* typed, posts each to its own record only, and what it sends back whole  *)
(* undoes no earlier change.                                               *)
(*                                                                         *)
(* Every step is of one of eleven kinds (NextIsPages); each invariant is   *)
(* then shown for the kinds and not for the thirty actions.                *)
(***************************************************************************)
EXTENDS LegacyRecord, TLAPS

(***************************************************************************)
(* A legacy record page: types.                                            *)
(***************************************************************************)
Known == 1 .. Len(server)
Senders == Tabs \cup {Nil}
Hists == Seq(Versions) \ {<<>>}
Args == (Texts \cup BOOLEAN \cup {Nil}) \cup SUBSET Types
Chosen == Texts \cup Types \cup BOOLEAN \cup {Nil}

(* A request of a page, and the pages it may be about.                     *)
Asks == [id : Nat, what : Ops, num : Numbers, first : BOOLEAN, item : Chosen, arg : Args,
         stage : {"sent", "done", "failed", "named", "reading"}, err : BOOLEAN,
         rd : {Nil} \cup [num : Nums, from : Nat]]

About(o, n) == o.num = n \/ (o.rd # Nil /\ o.rd.num = n)

PageTypes ==
  /\ plan \in Plans
  /\ server \in Seq(Hists) /\ Len(server) \in Nums
  /\ journal \in [Nums -> SUBSET Texts] /\ draft \in [Nums \cup {New} -> Box]
  /\ page \in [Tabs -> Pages \cup {Nil}]
  /\ ops \in [Senders -> SUBSET Asks]
  /\ used \in [ops : Nat, opens : Nat, faults : Nat]
  /\ wanted \in SUBSET Texts /\ home \in [Texts -> 0 .. Astray \cup {Nil}]
  /\ asked \in [Nums -> Versions] /\ muddled \in SUBSET Nums

(* What a request holds, by its operation and its stage.                   *)
AskShape(o) ==
  /\ o.id < used.ops
  /\ o.first => o.what \in {"link", "file", "relate", "person"}
  /\ o.num = Nil => Edits(o) /\ o.what # "remove" /\ o.stage # "named"
  /\ o.num # Nil => o.num \in Known
  /\ o.rd # Nil => o.rd.num \in Known
  /\ o.stage \in {"sent", "failed"} => o.rd = Nil
  /\ o.stage \in {"done", "named", "reading"} => o.rd # Nil
  /\ o.stage \in {"done", "named"} /\ o.num # Nil => o.rd.num = o.num
  /\ o.stage = "reading" => o.rd.from \in 1 .. Len(server[o.rd.num])
  /\ o.what \in Lists => o.item \in Types
  /\ o.what \in Lists /\ ~o.first => o.arg \in SUBSET Types
  /\ o.what \in {"grant", "involve"} => o.arg \in BOOLEAN /\ o.arg = o.item
  /\ o.what = "entry" => o.arg \in Texts
  /\ o.what = "poke" => o.stage = "reading"

ShapeInv ==
  /\ \A u \in Senders : \A o \in ops[u] : AskShape(o)
  /\ \A o \in ops[Nil] : o.stage = "sent"
  /\ \A t \in Tabs : IF Open(t) THEN {page[t].path, page[t].num} \subseteq Known \cup {Nil}
                                     /\ page[t].made < Len(server)
                     ELSE ops[t] = {}

(* The creation of a page's record: until the first answer nothing is      *)
(* addressed to a number, and one create is out unless two crossed.  A     *)
(* page whose creates crossed is never one of the first record.            *)
CreateOf(p, asks) ==
  /\ p.path = Nil <=> p.num = Nil
  /\ p.num = Nil => p.copy.types = {} /\ ~p.grant /\ \A o \in asks : o.num = Nil /\ o.stage # "reading"
  /\ \A o \in asks : o.num = Nil /\ o.stage = "done" => o.rd.num > 1
  /\ ~p.crossed =>
        /\ p.path = p.num /\ p.made <= 1
        /\ p.num # Nil => \A o \in asks : o.num = p.num /\ (o.rd # Nil => o.rd.num = p.num)
        /\ \A o, q \in asks : o.num = Nil /\ q.num = Nil => o = q
        /\ p.num = Nil /\ p.made = 1 => \E o \in asks : o.stage = "done"
        /\ \A o \in asks : o.num = Nil /\ o.stage # "done" => p.made = 0
  /\ p.crossed =>
        /\ p.num # Nil => p.num > 1 /\ p.path > 1
        /\ \A o \in asks : (o.num # Nil => o.num > 1) /\ (o.stage = "reading" => o.rd.num > 1)

CreateInv(t) == CreateOf(page[t], ops[t])

RecordCreateInv == \A t \in Tabs : Open(t) => CreateInv(t)

(* Where a text may go that was typed at h: to the record n.               *)
MayGo(h, n) == h = Astray \/ (IF n = Nil THEN h = New ELSE h = n \/ (h = New /\ n > 1))

(* A text that no timer is to store is stored.                             *)
SavedInv ==
  \A t \in Tabs : Open(t) /\ HasDrafts /\ ~page[t].timer /\ page[t].box \in wanted =>
        \E k \in DOMAIN draft : draft[k] = page[t].box

(* One request at a time is about a record that is not muddled, and what   *)
(* it says was made from the record as it is.                              *)
Lone(n) ==
  \A u, v \in Senders : \A o \in ops[u], q \in ops[v] :
     About(o, n) /\ About(q, n) => u = v /\ o = q

Fits(o, v) ==
  /\ o.what \in {"add", "link"} => o.arg = v.types \cup {o.item}
  /\ o.what = "remove" => o.arg = v.types \ {o.item}
  /\ o.what = "involve" => o.arg = v.grant

SaysInv(n) ==
  \A u \in Senders : \A o \in ops[u] :
     o.num = n /\ o.stage = "sent" /\ ~o.first => Fits(o, Record(n))

(* Nothing of it was written since a read of it started.                   *)
ReadsInv(n) ==
  \A u \in Senders : \A o \in ops[u] :
     o.stage = "reading" /\ o.rd.num = n => o.rd.from = Len(server[n])

(* The page shows the record, or a request about it is to have it read or  *)
(* tells the page what has become of the grant.                            *)
PageShows(p, asks, n) ==
  /\ ~p.crossed
  /\ \/ p.copy.types = Record(n).types
     \/ \E o \in asks : About(o, n) /\ Edits(o)
  /\ \/ p.removed
     \/ p.grant = Record(n).grant
     \/ \E o \in asks : About(o, n) /\ o.stage = "done" /\ o.what \in {"grant", "unperson"}
  /\ \A o \in asks : o.what = "grant" =>
        o.id \in p.rows /\ (o.stage = "done" => o.arg = Record(n).grant)

ShowsInv(n) == \A t \in Tabs : Open(t) /\ page[t].num = n => PageShows(page[t], ops[t], n)

StandsInv(n) == Record(n) = asked[n] /\ Lone(n) /\ SaysInv(n) /\ ReadsInv(n) /\ ShowsInv(n)

(* Creates that crossed muddle what they are about.                        *)
PageCrossed(p, asks, m) ==
  p.crossed => /\ {p.path, p.num} \subseteq m \cup {Nil}
               /\ \A o \in asks : /\ o.num # Nil => o.num \in m
                                  /\ o.stage = "reading" => o.rd.num \in m

(* What is created comes out as it was asked for.                          *)
CreateStands(o, m) ==
  o.num = Nil => /\ o.stage = "sent" /\ ~o.first => Fits(o, Blank)
                 /\ o.stage = "done" /\ o.rd.num \notin m => ~Record(o.rd.num).grant

RecordStandsInv ==
  /\ \A n \in Known \ muddled : StandsInv(n)
  /\ \A n \in Nums \ Known : asked[n] = Blank
  /\ \A t \in Tabs : Open(t) => PageCrossed(page[t], ops[t], muddled)
  /\ \A u \in Senders : \A o \in ops[u] : CreateStands(o, muddled)


(***************************************************************************)
(* The steps of a page, told apart by what they do to it and its requests: *)
(* nine kinds, and the two of the network, stand for the thirty actions.   *)
(***************************************************************************)

(* What a new request says, made from the page p.                          *)
MadeFrom(o, p) ==
  /\ o.num \in {p.num, p.path} /\ (o.num = Nil <=> p.num = Nil)
  /\ o.first => o.num = Nil /\ o.what \in {"link", "file", "relate", "person"}
  /\ o.num = Nil => Edits(o) /\ o.what # "remove"
  /\ o.what \in Lists => o.item \in Types
  /\ o.what \in {"add", "link"} /\ ~o.first => o.arg = p.copy.types \cup {o.item}
  /\ o.what = "remove" => o.arg = p.copy.types \ {o.item}
  /\ o.what \in {"grant", "involve"} => o.arg \in BOOLEAN /\ o.item = o.arg
  /\ o.what = "involve" => o.arg = p.grant
  /\ o.what = "entry" => o.arg = p.box /\ o.arg \in Texts /\ o.num = p.num
  /\ IF o.what = "poke"
     THEN o.num = p.num /\ o.stage = "reading" /\ o.rd = [num |-> o.num, from |-> Len(server[o.num])]
     ELSE o.stage = "sent" /\ o.rd = Nil

(* A page that stays at its record, and one that keeps its text.           *)
SameRecord(p, q) == p.path = q.path /\ p.num = q.num /\ p.copy = q.copy
SameText(p, q) == p.box = q.box /\ p.timer = q.timer /\ p.made = q.made

(* The page asks for something.                                            *)
SendStep(t) ==
  \E o \in Asks, p \in Pages :
    /\ Open(t) /\ MadeFrom(o, page[t]) /\ o.id = used.ops
    /\ used' = [used EXCEPT !.ops = @ + 1]
    /\ ops' = [ops EXCEPT ![t] = @ \cup {o}]
    /\ muddled' = muddled \cup {n \in {o.num} \ {Nil} :
                       Busy(n) \/ Shared(t, n) \/ (o.what = "involve" /\ page[t].removed)}
    /\ page' = [page EXCEPT ![t] = p]
    /\ SameRecord(p, page[t]) /\ SameText(p, page[t])
    /\ p.grant = page[t].grant /\ p.removed = page[t].removed
    /\ p.crossed = (page[t].crossed \/ (o.num = Nil /\ Creating(t)))
    /\ page[t].rows \subseteq p.rows /\ (o.what = "grant" => o.id \in p.rows)
    /\ UNCHANGED <<plan, server, journal, draft, wanted, home, asked>>

(* The page is left.                                                       *)
LeaveStep(t) == ClosePage(t) \/ KillTab(t)

(* An answer starts a read of the record.                                  *)
ReadStep(t) ==
  \E o \in ops[t] : \E err \in BOOLEAN :
    /\ Open(t) /\ page[t].num # Nil
    /\ o.stage \in {"done", "named", "failed"} /\ (o.stage = "done" => o.num # Nil)
    /\ Edits(o) \/ o.what \in {"file", "strike"}
    /\ ops' = [ops EXCEPT ![t] = (@ \ {o}) \cup
            {[o EXCEPT !.stage = "reading", !.err = err,
                       !.rd = [num |-> page[t].num, from |-> Len(server[page[t].num])]]}]
    /\ UNCHANGED <<plan, server, journal, draft, page, used, recordHistory>>

(* What a draw keeps of the page, and may do to the rows of the people.    *)
Redraws(p, q) ==
  /\ SameText(p, q) /\ p.path = q.path /\ p.crossed = q.crossed
  /\ \/ p.grant = p.copy.grant /\ p.rows = {} /\ ~p.removed
     \/ p.grant = q.grant /\ p.rows = q.rows /\ p.removed = q.removed

(* A request is over and the page drawn as p.                              *)
FinishStep(t) ==
  \E o \in ops[t], p \in Pages : \E err \in BOOLEAN :
    /\ Open(t) /\ Finish(t, o, p, err) /\ Redraws(p, page[t])
    /\ \/ /\ page[t].num = Nil /\ o.stage = "failed" /\ Edits(o) /\ err
          /\ p.num = Nil /\ p.copy = Blank /\ muddled' = muddled
       \/ /\ o.stage = "reading" /\ p.num = o.rd.num /\ muddled' = muddled
          /\ \E i \in o.rd.from .. Len(server[o.rd.num]) : p.copy = server[o.rd.num][i]
       \/ /\ o.stage = "reading" /\ p.num = page[t].num /\ p.copy = page[t].copy
          /\ muddled' = muddled \cup {o.rd.num}
    /\ used' \in [ops : {used.ops}, opens : Nat, faults : Nat]
    /\ UNCHANGED <<plan, server, journal, home, asked>>

(* A request is over and nothing read.                                     *)
DropStep(t) ==
  \E o \in ops[t], p \in Pages :
    /\ Open(t) /\ o.stage \in {"failed", "done"} /\ ~Edits(o)
    /\ ops' = [ops EXCEPT ![t] = @ \ {o}]
    /\ page' = [page EXCEPT ![t] = p]
    /\ SameRecord(p, page[t]) /\ SameText(p, page[t])
    /\ p.rows = page[t].rows /\ p.crossed = page[t].crossed
    /\ p.removed = (page[t].removed \/ (o.what = "unperson" /\ o.stage = "done"))
    /\ p.grant = IF o.what = "grant" /\ o.stage = "done" /\ o.id \in page[t].rows
                 THEN o.arg ELSE page[t].grant
    /\ UNCHANGED <<plan, server, journal, draft, used, recordHistory>>

PageStep(t) ==
  \/ \E n \in Known \cup {Nil} : OpenPage(t, n)
  \/ LeaveStep(t)
  \/ \E w \in Box : TypeText(t, w)
  \/ SaveJournalDraft(t)
  \/ SendStep(t)
  \/ \E o \in ops[t] : Created(t, o)
  \/ ReadStep(t)
  \/ FinishStep(t)
  \/ DropStep(t)

(***************************************************************************)
(* A legacy record page: every step is one of these kinds.                 *)
(***************************************************************************)
LEMMA NilApart ==
  /\ Nil \notin Tabs /\ Nil \notin Texts /\ Nil \notin Types /\ Nil \notin Nums
  /\ Nil # New /\ Nil # Astray /\ Nil \notin Pages /\ Nil \notin [num : Nat, from : Nat]
  /\ MaxRecords \in Nat /\ MaxRecords >= 1 /\ Nums \subseteq Nat
BY RecordAssumption DEF Nums, New, Astray

LEMMA OpenTyped ==
  ASSUME PageTypes, NEW t \in Tabs
  PROVE  Open(t) <=> page[t] \in Pages
BY NilApart DEF PageTypes, Open

(* The last version of a record, and a new one.                            *)
LEMMA RecordTyped ==
  ASSUME PageTypes, NEW n \in Known \cup {Nil}
  PROVE  /\ Record(n) \in Versions
         /\ n # Nil => /\ server[n] \in Seq(Versions) /\ Len(server[n]) \in Nat \ {0}
                       /\ Record(n) = server[n][Len(server[n])]
                       /\ \A i \in 1 .. Len(server[n]) : server[n][i] \in Versions
<1>1. Blank \in Versions
  BY DEF Blank, Versions
<1>2. CASE n = Nil
  BY <1>1, <1>2 DEF Record
<1>3. CASE n # Nil
  <2>1. n \in DOMAIN server /\ server[n] \in Hists
    BY <1>3 DEF PageTypes, Known
  <2>2. server[n] \in Seq(Versions) /\ Len(server[n]) \in Nat \ {0}
    BY <2>1 DEF Hists
  <2> QED BY <1>3, <2>2 DEF Record, Last
<1> QED BY <1>2, <1>3

LEMMA ArgsTyped ==
  /\ Nil \in Chosen /\ Texts \subseteq Chosen /\ Types \subseteq Chosen /\ BOOLEAN \subseteq Chosen
  /\ Nil \in Args /\ Texts \subseteq Args /\ BOOLEAN \subseteq Args /\ SUBSET Types \subseteq Args
<1>1. /\ Nil \in Chosen /\ Texts \subseteq Chosen /\ Types \subseteq Chosen /\ BOOLEAN \subseteq Chosen
  BY SMT DEF Chosen
<1>2. SUBSET Types \subseteq Args /\ Texts \cup BOOLEAN \cup {Nil} \subseteq Args
  BY Zenon DEF Args
<1>3. Nil \in Texts \cup BOOLEAN \cup {Nil} /\ BOOLEAN \subseteq Texts \cup BOOLEAN \cup {Nil}
      /\ Texts \subseteq Texts \cup BOOLEAN \cup {Nil}
  BY SMT
<1>4. Nil \in Args /\ BOOLEAN \subseteq Args /\ Texts \subseteq Args
  BY <1>2, <1>3, Zenon
<1> QED BY <1>1, <1>2, <1>4, Zenon

(* The values of a page.                                                   *)
LEMMA PageFields ==
  ASSUME NEW p \in Pages
  PROVE  /\ p.path \in Numbers /\ p.num \in Numbers /\ p.copy \in Versions
         /\ p.copy.types \in SUBSET Types /\ p.copy.grant \in BOOLEAN
         /\ p.grant \in BOOLEAN /\ p.rows \in SUBSET Nat /\ p.removed \in BOOLEAN
         /\ p.held \in BOOLEAN /\ p.locked \in BOOLEAN /\ p.box \in Box /\ p.armed \in BOOLEAN
         /\ p.timer \in BOOLEAN /\ p.made \in 0 .. MaxRecords /\ p.crossed \in BOOLEAN
BY DEF Pages, Versions

LEMMA AskTyped ==
  ASSUME PageTypes, NEW what \in Ops, NEW n \in Numbers, NEW first \in BOOLEAN,
         NEW item \in Chosen, NEW arg \in Args
  PROVE  /\ Request(what, n, first, item, arg) \in Asks
         /\ Request(what, n, first, item, arg).id = used.ops
         /\ Request(what, n, first, item, arg).what = what
         /\ Request(what, n, first, item, arg).num = n
BY DEF Request, Asks, PageTypes

(* A request that is posted, and one of its own.                           *)
LEMMA PostSends ==
  ASSUME PageTypes, NEW t \in Tabs, Open(t),
         NEW what \in Ops \ {"grant", "involve", "poke"}, NEW first \in BOOLEAN, NEW item \in Chosen,
         NEW arg \in Args,
         Post(t, what, first, item, arg),
         MadeFrom(Request(what, page[t].num, first, item, arg), page[t])
  PROVE  SendStep(t)
<1> DEFINE o == Request(what, page[t].num, first, item, arg)
           p == [page[t] EXCEPT !.crossed = @ \/ (page[t].num = Nil /\ Creating(t)),
                                !.held = @ \/ what = "add", !.armed = @ /\ what # "entry"]
<1>1. page[t] \in Pages
  BY OpenTyped
<1>2. o \in Asks /\ o.num = page[t].num /\ o.id = used.ops /\ o.what = what
  BY <1>1, AskTyped DEF Pages
<1>3. p \in Pages
  <2>1. \A c, h, a \in BOOLEAN : [page[t] EXCEPT !.crossed = c, !.held = h, !.armed = a] \in Pages
    BY <1>1 DEF Pages
  <2>2. /\ (page[t].crossed \/ (page[t].num = Nil /\ Creating(t))) \in BOOLEAN
        /\ (page[t].held \/ what = "add") \in BOOLEAN /\ (page[t].armed /\ what # "entry") \in BOOLEAN
    OBVIOUS
  <2>3. p = [page[t] EXCEPT !.crossed = page[t].crossed \/ (page[t].num = Nil /\ Creating(t)),
                            !.held = page[t].held \/ what = "add",
                            !.armed = page[t].armed /\ what # "entry"]
    OBVIOUS
  <2> HIDE DEF p
  <2> QED BY <2>1, <2>2, <2>3, Zenon
<1>4. Begin(t, o) /\ UNCHANGED <<plan, server, journal, draft, wanted, home, asked>>
  BY DEF Post
<1>5. page' = [page EXCEPT ![t] = p]
  BY <1>1 DEF Post, Pages, PageTypes
<1>6. /\ SameRecord(p, page[t]) /\ SameText(p, page[t])
      /\ p.grant = page[t].grant /\ p.removed = page[t].removed /\ p.rows = page[t].rows
      /\ p.crossed = (page[t].crossed \/ (o.num = Nil /\ Creating(t)))
  BY <1>1, <1>2, <1>3 DEF Pages, SameRecord, SameText
<1> HIDE DEF o, p
<1> QED BY <1>2, <1>3, <1>4, <1>5, <1>6 DEF SendStep, Begin, o

LEMMA OwnSends ==
  ASSUME PageTypes, NEW t \in Tabs, Open(t), NEW o \in Asks, NEW p \in Pages,
         Begin(t, o), o.id = used.ops, o.num # Nil, MadeFrom(o, page[t]),
         page' = [page EXCEPT ![t] = p], p = [page[t] EXCEPT !.rows = p.rows],
         page[t].rows \subseteq p.rows, o.what = "grant" => o.id \in p.rows,
         UNCHANGED <<plan, server, journal, draft, wanted, home, asked>>
  PROVE  SendStep(t)
<1>1. page[t] \in Pages
  BY OpenTyped
<1>2. /\ SameRecord(p, page[t]) /\ SameText(p, page[t])
      /\ p.grant = page[t].grant /\ p.removed = page[t].removed
      /\ p.crossed = (page[t].crossed \/ (o.num = Nil /\ Creating(t)))
  BY <1>1 DEF Pages, SameRecord, SameText
<1> QED BY <1>2 DEF SendStep, Begin

(* Single fields, the incident of a report, and entries.                   *)
LEMMA EditsSend ==
  ASSUME PageTypes, RecordCreateInv, NEW t \in Tabs,
         EditIncident(t) \/ EditVisit(t) \/ UpdateIncident(t) \/ SubmitJournalEntry(t)
  PROVE  SendStep(t)
<1>1. Open(t) /\ page[t] \in Pages
  BY OpenTyped DEF EditIncident, EditVisit, UpdateIncident, SubmitJournalEntry, EditValue, Acts
<1>2. CASE EditValue(t)
  <2>1. MadeFrom(Request("edit", page[t].num, FALSE, Nil, Nil), page[t])
    BY DEF MadeFrom, Request, Edits, Lists
  <2> QED BY <1>1, <1>2, <2>1, PostSends, ArgsTyped DEF EditValue, Ops
<1>3. CASE UpdateIncident(t) /\ ~EditValue(t)
  <2> DEFINE o == Request("file", page[t].num, FALSE, Nil, Nil)
  <2>1. page[t].num # Nil /\ Begin(t, o)
        /\ UNCHANGED <<plan, server, journal, draft, page, wanted, home, asked>>
    BY <1>3 DEF UpdateIncident
  <2>5. "file" \in Ops /\ page[t].num \in Numbers /\ FALSE \in BOOLEAN /\ Nil \in Chosen /\ Nil \in Args
    BY <1>1, ArgsTyped, PageFields DEF Ops
  <2>2. o \in Asks /\ o.id = used.ops /\ o.what = "file" /\ o.num = page[t].num
    BY <2>5 DEF Request, Asks, PageTypes
  <2>4. MadeFrom(o, page[t])
    BY <2>1 DEF MadeFrom, Request, Lists
  <2>3. page' = [page EXCEPT ![t] = page[t]] /\ page[t] = [page[t] EXCEPT !.rows = page[t].rows]
    BY <1>1, <2>1 DEF PageTypes, Pages
  <2> HIDE DEF o
  <2> QED BY <1>1, <2>1, <2>2, <2>3, <2>4, OwnSends
<1>4. CASE SubmitJournalEntry(t)
  <2>1. page[t].box \in Texts
    BY <1>1, <1>4 DEF SubmitJournalEntry, Pages, Box
  <2>2. MadeFrom(Request("entry", page[t].num, FALSE, page[t].box, page[t].box), page[t])
    BY <2>1 DEF MadeFrom, Request, Edits, Lists
  <2> QED BY <1>1, <1>4, <2>1, <2>2, PostSends, ArgsTyped DEF SubmitJournalEntry, Ops
<1> QED BY <1>2, <1>3, <1>4 DEF EditIncident, EditVisit

(* Whole lists.                                                            *)
LEMMA ListsSend ==
  ASSUME PageTypes, RecordCreateInv, NEW t \in Tabs, NEW y \in Types,
         AddIncidentType(t, y) \/ RemoveIncidentType(t, y) \/ LinkIncident(t, y)
  PROVE  SendStep(t)
<1>1. Open(t) /\ page[t] \in Pages /\ CreateInv(t)
  BY OpenTyped DEF AddIncidentType, RemoveIncidentType, LinkIncident, Acts, RecordCreateInv
<1>2. ListedOn(page[t]) \in SUBSET Types /\ ListedOn(page[t]) = page[t].copy.types
  BY <1>1 DEF ListedOn, Pages, Versions
<1>3. y \in Chosen /\ Nil \in Args /\ ListedOn(page[t]) \cup {y} \in Args /\ ListedOn(page[t]) \ {y} \in Args
  BY <1>2, ArgsTyped
<1>4. CASE AddIncidentType(t, y)
  <2>1. MadeFrom(Request("add", page[t].num, FALSE, y, ListedOn(page[t]) \cup {y}), page[t])
    BY <1>2 DEF MadeFrom, Request, Edits, Lists
  <2> QED BY <1>1, <1>3, <1>4, <2>1, PostSends DEF AddIncidentType, Ops
<1>5. CASE RemoveIncidentType(t, y)
  <2>1. page[t].num # Nil
    BY <1>1, <1>2, <1>5 DEF RemoveIncidentType, CreateInv, CreateOf
  <2>2. MadeFrom(Request("remove", page[t].num, FALSE, y, ListedOn(page[t]) \ {y}), page[t])
    BY <1>2, <2>1 DEF MadeFrom, Request, Edits, Lists
  <2> QED BY <1>1, <1>3, <1>5, <2>2, PostSends DEF RemoveIncidentType, Ops
<1>6. CASE LinkIncident(t, y)
  <2>1. CASE page[t].path = Nil
    <3>1. page[t].num = Nil
      BY <1>1, <2>1 DEF CreateInv, CreateOf
    <3>2. MadeFrom(Request("link", page[t].num, TRUE, y, Nil), page[t])
      BY <3>1 DEF MadeFrom, Request, Edits, Lists
    <3> QED BY <1>1, <1>3, <1>6, <2>1, <3>2, PostSends DEF LinkIncident, Ops
  <2>2. CASE page[t].path # Nil
    <3>1. MadeFrom(Request("link", page[t].num, FALSE, y, ListedOn(page[t]) \cup {y}), page[t])
      BY <1>2 DEF MadeFrom, Request, Edits, Lists
    <3> QED BY <1>1, <1>3, <1>6, <2>2, <3>1, PostSends DEF LinkIncident, Ops
  <2> QED BY <2>1, <2>2
<1> QED BY <1>4, <1>5, <1>6

(* Files, strikes and relations.                                           *)
LEMMA OwnRequestSends ==
  ASSUME PageTypes, RecordCreateInv, NEW t \in Tabs, Open(t),
         NEW what \in {"file", "strike", "relate", "person", "unperson"},
         page[t].path # Nil \/ what \in {"file", "relate", "person"}, OwnRequest(t, what)
  PROVE  SendStep(t)
<1>1. page[t] \in Pages /\ CreateInv(t)
  BY OpenTyped DEF RecordCreateInv
<1>2. CASE page[t].path = Nil
  <2>1. page[t].num = Nil
    BY <1>1, <1>2 DEF CreateInv, CreateOf
  <2>2. MadeFrom(Request(what, page[t].num, TRUE, Nil, Nil), page[t])
    BY <1>2, <2>1 DEF MadeFrom, Request, Edits, Lists
  <2> QED BY <1>2, <2>2, PostSends, ArgsTyped DEF OwnRequest, Ops
<1>3. CASE page[t].path # Nil
  <2> DEFINE o == Request(what, page[t].path, FALSE, Nil, Nil)
  <2>1. page[t].num # Nil /\ Begin(t, o)
        /\ UNCHANGED <<plan, server, journal, draft, page, wanted, home, asked>>
    BY <1>1, <1>3 DEF OwnRequest, CreateInv, CreateOf
  <2>5. what \in Ops /\ page[t].path \in Numbers /\ Nil \in Chosen /\ Nil \in Args
    BY <1>1, ArgsTyped, PageFields DEF Ops
  <2>2. o \in Asks /\ o.id = used.ops /\ o.what = what /\ o.num = page[t].path
    BY <2>5 DEF Request, Asks, PageTypes
  <2>4. MadeFrom(o, page[t])
    BY <1>3, <2>1 DEF MadeFrom, Request, Lists
  <2>3. page' = [page EXCEPT ![t] = page[t]] /\ page[t] = [page[t] EXCEPT !.rows = page[t].rows]
    BY <1>1, <2>1 DEF PageTypes, Pages
  <2> HIDE DEF o
  <2> QED BY <1>1, <1>3, <2>1, <2>2, <2>3, <2>4, OwnSends
<1> QED BY <1>2, <1>3

LEMMA OwnOnesSend ==
  ASSUME PageTypes, RecordCreateInv, NEW t \in Tabs,
         \/ AttachFile(t) \/ AttachReport(t) \/ DetachReport(t) \/ AttachPersonToRecord(t)
         \/ RemovePerson(t) \/ SetStrike(t)
  PROVE  SendStep(t)
BY OwnRequestSends DEF AttachFile, AttachReport, DetachReport, AttachPersonToRecord, RemovePerson, SetStrike,
                       Acts, Numbered

(* A person's row, and an announcement.                                    *)
LEMMA RowsSend ==
  ASSUME PageTypes, NEW t \in Tabs, SetPersonGrant(t) \/ SetPersonInvolvement(t)
  PROVE  SendStep(t)
<1>1. Open(t) /\ page[t] \in Pages /\ page[t].num # Nil /\ page[t].path # Nil
  BY OpenTyped DEF SetPersonGrant, SetPersonInvolvement, PersonRow, Numbered, Acts
<1>2. PICK what \in {"grant", "involve"}, g \in BOOLEAN :
        PersonRow(t, what, g) /\ (what = "involve" => g = page[t].grant)
  BY <1>1 DEF SetPersonGrant, SetPersonInvolvement, Pages
<1> DEFINE o == Request(what, page[t].path, FALSE, g, g)
           p == [page[t] EXCEPT !.rows = IF what = "grant" THEN @ \cup {used.ops} ELSE @]
<1>3. /\ Begin(t, o) /\ page' = [page EXCEPT ![t] = p]
      /\ UNCHANGED <<plan, server, journal, draft, wanted, home, asked>>
  BY <1>1, <1>2 DEF PersonRow, PageTypes, Pages
<1>7. what \in Ops /\ page[t].path \in Numbers /\ g \in Chosen /\ g \in Args
  BY <1>1, ArgsTyped, PageFields DEF Ops
<1>4. o \in Asks /\ o.id = used.ops /\ o.what = what /\ o.num = page[t].path
  BY <1>7 DEF Request, Asks, PageTypes
<1>6. MadeFrom(o, page[t])
  BY <1>1, <1>2 DEF MadeFrom, Request, Lists
<1>5. p \in Pages /\ p = [page[t] EXCEPT !.rows = p.rows] /\ page[t].rows \subseteq p.rows
      /\ (what = "grant" => used.ops \in p.rows)
  BY <1>1 DEF Pages, PageTypes
<1> HIDE DEF o, p
<1> QED BY <1>1, <1>3, <1>4, <1>5, <1>6, OwnSends

LEMMA PokeSends ==
  ASSUME PageTypes, ShapeInv, NEW t \in Tabs, Poke(t)
  PROVE  SendStep(t)
<1>1. Open(t) /\ page[t] \in Pages /\ page[t].num # Nil /\ page[t].num \in Known
  BY OpenTyped DEF Poke, ShapeInv
<1> DEFINE o == [Request("poke", page[t].num, FALSE, Nil, Nil) EXCEPT
                   !.stage = "reading", !.rd = [num |-> page[t].num, from |-> Len(server[page[t].num])]]
<1>2. Begin(t, o) /\ UNCHANGED <<plan, server, journal, draft, page, wanted, home, asked>>
  BY DEF Poke
<1>3. Len(server[page[t].num]) \in Nat
  BY <1>1, RecordTyped
<1> DEFINE r == Request("poke", page[t].num, FALSE, Nil, Nil)
<1>9. "poke" \in Ops /\ page[t].num \in Numbers /\ Nil \in Chosen /\ Nil \in Args
  BY <1>1, ArgsTyped, PageFields DEF Ops
<1>6. r \in Asks /\ r.id = used.ops /\ r.what = "poke" /\ r.num = page[t].num
  BY <1>9 DEF Request, Asks, PageTypes
<1>7. [num |-> page[t].num, from |-> Len(server[page[t].num])] \in [num : Nums, from : Nat]
  <2>1. page[t].num \in Nums
    BY <1>1, PageFields DEF Numbers
  <2> QED BY <1>3, <2>1
<1>4. o \in Asks /\ o.id = used.ops /\ o.what = "poke" /\ o.num = page[t].num
  BY <1>6, <1>7 DEF Asks
<1>8. MadeFrom(o, page[t])
  BY <1>1 DEF MadeFrom, Request, Lists
<1>5. page' = [page EXCEPT ![t] = page[t]] /\ page[t] = [page[t] EXCEPT !.rows = page[t].rows]
  BY <1>1, <1>2 DEF PageTypes, Pages
<1> HIDE DEF o
<1> QED BY <1>1, <1>2, <1>4, <1>5, <1>8, OwnSends

(* What a draw changes of a page.                                          *)
LEMMA DrawChanges ==
  ASSUME NEW q \in Pages, NEW p \in {Draw(q), DrawFailed(q)}
  PROVE  /\ p \in Pages /\ Redraws(p, q) /\ p.num = q.num /\ p.copy = q.copy
<1> USE DEF Redraws, SameText
<1>1. ASSUME NEW r, r = DrawPeople(q) \/ r = DrawIncident(q)
      PROVE  /\ r \in Pages /\ Redraws(r, q) /\ r.num = q.num /\ r.copy = q.copy
  <2>1. q.copy.grant \in BOOLEAN
    BY PageFields
  <2>2. DrawPeople(q) \in Pages
    BY <2>1 DEF DrawPeople, Pages
  <2>3. DrawIncident(q) \in Pages
    BY <2>2 DEF DrawIncident, Pages
  <2>4. /\ \A f \in {"path", "num", "copy", "box", "timer", "made", "crossed"} :
             DrawPeople(q)[f] = q[f] /\ DrawIncident(q)[f] = q[f]
        /\ DrawPeople(q).grant = q.copy.grant /\ DrawPeople(q).rows = {} /\ ~DrawPeople(q).removed
        /\ DrawIncident(q).grant = q.copy.grant /\ DrawIncident(q).rows = {}
        /\ ~DrawIncident(q).removed
    BY DEF DrawPeople, DrawIncident, Pages
  <2> QED BY <1>1, <2>2, <2>3, <2>4
<1>2. ASSUME NEW r, r = DrawReport(q) \/ r = [q EXCEPT !.locked = TRUE]
      PROVE  /\ r \in Pages /\ Redraws(r, q) /\ r.num = q.num /\ r.copy = q.copy
  BY <1>2 DEF DrawReport, Pages, Versions
<1>3. \/ p = DrawPeople(q) \/ p = DrawIncident(q)
      \/ p = DrawReport(q) \/ p = [q EXCEPT !.locked = TRUE]
  BY DEF Draw, DrawFailed, DrawVisit
<1> QED BY <1>1, <1>2, <1>3

(* The page of a request that is out.                                      *)
LEMMA AskerOpen ==
  ASSUME PageTypes, ShapeInv, RecordCreateInv, NEW t \in Tabs, NEW o \in ops[t]
  PROVE  /\ Open(t) /\ page[t] \in Pages /\ o \in Asks /\ AskShape(o) /\ CreateInv(t)
         /\ o.num # Nil \/ o.stage = "reading" => page[t].num # Nil
         /\ page[t].num # Nil => page[t].num \in Known /\ page[t].num \in Nums
         /\ page[t].path # Nil => page[t].path \in Known
<1>1. Open(t)
  BY DEF ShapeInv
<1>2. page[t] \in Pages /\ o \in Asks /\ AskShape(o) /\ CreateInv(t)
  BY <1>1, OpenTyped DEF ShapeInv, RecordCreateInv, PageTypes, Senders
<1>3. {page[t].path, page[t].num} \subseteq Known \cup {Nil}
  BY <1>1 DEF ShapeInv
<1>4. Known \subseteq Nums
  BY NilApart DEF PageTypes, Known, Nums
<1> QED BY <1>1, <1>2, <1>3, <1>4 DEF CreateInv, CreateOf

LEMMA ReloadSteps ==
  ASSUME PageTypes, ShapeInv, RecordCreateInv, NEW t \in Tabs, NEW o \in ops[t], NEW err \in BOOLEAN,
         Reload(t, o, err), UNCHANGED <<plan, server, journal, used, home, asked, muddled>>,
         \/ o.stage \in {"done", "named"} /\ (o.stage = "done" => o.num # Nil)
         \/ o.stage = "failed" /\ err /\ Edits(o),
         Edits(o) \/ o.what \in {"file", "strike"}
  PROVE  ReadStep(t) \/ FinishStep(t)
<1>1. /\ Open(t) /\ page[t] \in Pages /\ o \in Asks /\ AskShape(o) /\ CreateInv(t)
      /\ o.num # Nil => page[t].num # Nil
  BY AskerOpen
<1>2. CASE page[t].num # Nil
  BY <1>1, <1>2 DEF Reload, ReadStep, recordHistory
<1>3. CASE page[t].num = Nil
  <2>1. o.stage = "failed" /\ err /\ Edits(o)
    BY <1>1, <1>3 DEF AskShape
  <2> DEFINE q == [page[t] EXCEPT !.copy = Blank]
             p == Draw(q)
  <2>2. q \in Pages /\ q.num = Nil /\ q.copy = Blank /\ q.grant = page[t].grant /\ q.rows = page[t].rows
        /\ q.removed = page[t].removed /\ q.path = page[t].path /\ q.box = page[t].box
        /\ q.timer = page[t].timer /\ q.made = page[t].made /\ q.crossed = page[t].crossed
    BY <1>1, <1>3, RecordTyped DEF Pages, Record
  <2>3. /\ p \in Pages /\ Redraws(p, q) /\ p.num = q.num /\ p.copy = q.copy
    BY <2>2, DrawChanges
  <2>4. Finish(t, o, p, err)
    BY <1>3 DEF Reload
  <2>6. used' \in [ops : {used.ops}, opens : Nat, faults : Nat]
    BY DEF PageTypes
  <2> HIDE DEF p, q
  <2>8. Redraws(p, page[t]) /\ p.num = Nil /\ p.copy = Blank
    BY <2>2, <2>3 DEF Redraws, SameText
  <2> QED BY <1>1, <1>3, <2>1, <2>3, <2>4, <2>6, <2>8 DEF FinishStep
<1> QED BY <1>2, <1>3

(* A read lands, or fails.                                                 *)
LEMMA LandSteps ==
  ASSUME PageTypes, ShapeInv, RecordCreateInv, NEW t \in Tabs, NEW o \in ops[t],
         Land(t, o) \/ LoadFails(t, o)
  PROVE  FinishStep(t)
<1>1. /\ Open(t) /\ page[t] \in Pages /\ o \in Asks /\ AskShape(o) /\ page[t].num # Nil
      /\ o.stage = "reading" /\ o.rd # Nil /\ o.rd.num \in Known /\ o.rd.num \in Nums
      /\ o.rd.from \in 1 .. Len(server[o.rd.num]) /\ o.err \in BOOLEAN
  <2>1. o.stage = "reading"
    BY DEF Land, LoadFails
  <2>2. /\ Open(t) /\ page[t] \in Pages /\ o \in Asks /\ AskShape(o) /\ page[t].num # Nil
    BY <2>1, AskerOpen
  <2> QED BY <2>1, <2>2 DEF AskShape, Asks, Known, Nums, PageTypes
<1>2. CASE Land(t, o)
  <2>1. PICK i \in o.rd.from .. Len(server[o.rd.num]) :
          Finish(t, o, Draw([page[t] EXCEPT !.num = o.rd.num, !.copy = server[o.rd.num][i]]), o.err)
    BY <1>2 DEF Land
  <2> DEFINE v == server[o.rd.num][i]
             q == [page[t] EXCEPT !.num = o.rd.num, !.copy = v]
             p == Draw(q)
  <2>2. v \in Versions
    <3>1. i \in 1 .. Len(server[o.rd.num])
      BY <1>1, <2>1, RecordTyped
    <3> QED BY <1>1, <3>1, RecordTyped, NilApart
  <2> HIDE DEF v
  <2>3. q \in Pages /\ q.num = o.rd.num /\ q.copy = v /\ q.grant = page[t].grant /\ q.rows = page[t].rows
        /\ q.removed = page[t].removed /\ q.path = page[t].path /\ q.box = page[t].box
        /\ q.timer = page[t].timer /\ q.made = page[t].made /\ q.crossed = page[t].crossed
    BY <1>1, <2>2 DEF Pages, Numbers
  <2>4. /\ p \in Pages /\ Redraws(p, q) /\ p.num = q.num /\ p.copy = q.copy
    BY <2>3, DrawChanges
  <2>5. Finish(t, o, p, o.err)
    BY <2>1 DEF v
  <2>7. used' \in [ops : {used.ops}, opens : Nat, faults : Nat] /\ muddled' = muddled
        /\ UNCHANGED <<plan, server, journal, home, asked>>
    BY <1>2 DEF PageTypes, Land
  <2> HIDE DEF p, q
  <2>9. Redraws(p, page[t]) /\ p.num = o.rd.num /\ p.copy = server[o.rd.num][i]
    BY <2>3, <2>4 DEF Redraws, SameText, v
  <2> QED BY <1>1, <2>1, <2>4, <2>5, <2>7, <2>9 DEF FinishStep
<1>3. CASE LoadFails(t, o)
  <2> DEFINE p == DrawFailed(page[t])
  <2>1. /\ p \in Pages /\ Redraws(p, page[t]) /\ p.num = page[t].num /\ p.copy = page[t].copy
    BY <1>1, DrawChanges
  <2>2. Finish(t, o, p, o.err) /\ muddled' = muddled \cup {o.rd.num}
        /\ UNCHANGED <<plan, server, journal, home, asked>>
        /\ used' = [used EXCEPT !.faults = @ + 1]
    BY <1>3 DEF LoadFails
  <2>3. used' \in [ops : {used.ops}, opens : Nat, faults : Nat]
    BY <2>2 DEF PageTypes
  <2> HIDE DEF p
  <2> QED BY <1>1, <2>1, <2>2, <2>3 DEF FinishStep
<1> QED BY <1>2, <1>3

(* A request that is over without a read.                                  *)
LEMMA DropSteps ==
  ASSUME PageTypes, ShapeInv, RecordCreateInv, NEW t \in Tabs, NEW o \in ops[t],
         PersonGrantSet(t, o) \/ Ended(t, o)
  PROVE  DropStep(t)
<1>1. Open(t) /\ page[t] \in Pages /\ o \in Asks /\ AskShape(o)
  BY AskerOpen
<1>2. CASE PersonGrantSet(t, o)
  <2> DEFINE p == [page[t] EXCEPT !.grant = IF o.id \in page[t].rows THEN o.arg ELSE @]
  <2>1. o.arg \in BOOLEAN /\ o.what = "grant" /\ o.stage = "done" /\ ~o.first
    BY <1>1, <1>2 DEF PersonGrantSet, AskShape
  <2>2. ~Edits(o)
    BY <2>1 DEF Edits, Lists
  <2>3. p \in Pages /\ SameRecord(p, page[t]) /\ SameText(p, page[t])
        /\ p.rows = page[t].rows /\ p.crossed = page[t].crossed
        /\ p.removed = (page[t].removed \/ (o.what = "unperson" /\ o.stage = "done"))
        /\ p.grant = IF o.what = "grant" /\ o.stage = "done" /\ o.id \in page[t].rows
                     THEN o.arg ELSE page[t].grant
    BY <1>1, <2>1 DEF Pages, SameRecord, SameText
  <2>4. page' = [page EXCEPT ![t] = p] /\ ops' = [ops EXCEPT ![t] = @ \ {o}]
        /\ UNCHANGED <<plan, server, journal, draft, used, recordHistory>>
    BY <1>1, <1>2 DEF PersonGrantSet, PageTypes, Pages
  <2> HIDE DEF p
  <2> QED BY <1>1, <2>1, <2>2, <2>3, <2>4 DEF DropStep
<1>3. CASE Ended(t, o)
  <2> DEFINE p == [page[t] EXCEPT !.removed = @ \/ (o.what = "unperson" /\ o.stage = "done")]
  <2>1. o.stage \in {"failed", "done"} /\ ~Edits(o) /\ ~(o.what = "grant" /\ o.stage = "done")
    BY <1>3 DEF Ended
  <2>3. p \in Pages /\ SameRecord(p, page[t]) /\ SameText(p, page[t])
        /\ p.rows = page[t].rows /\ p.crossed = page[t].crossed
        /\ p.removed = (page[t].removed \/ (o.what = "unperson" /\ o.stage = "done"))
        /\ p.grant = IF o.what = "grant" /\ o.stage = "done" /\ o.id \in page[t].rows
                     THEN o.arg ELSE page[t].grant
    BY <1>1, <2>1 DEF Pages, SameRecord, SameText
  <2>4. page' = [page EXCEPT ![t] = p] /\ ops' = [ops EXCEPT ![t] = @ \ {o}]
        /\ UNCHANGED <<plan, server, journal, draft, used, recordHistory>>
    BY <1>1, <1>3 DEF Ended, PageTypes, Pages
  <2> HIDE DEF p
  <2> QED BY <1>1, <2>1, <2>3, <2>4 DEF DropStep
<1> QED BY <1>2, <1>3

(* So every step is a page's, or the network's.                            *)
NetworkStep ==
  \E u \in Senders : \E o \in ops[u] : (\E lost \in BOOLEAN : Apply(u, o, lost)) \/ RefuseRequest(u, o)

LEMMA NextIsPages ==
  ASSUME PageTypes, ShapeInv, RecordCreateInv, Next
  PROVE  NetworkStep \/ \E t \in Tabs : PageStep(t)
<1>1. CASE Network
  BY <1>1 DEF Network, NetworkStep, Senders
<1>2. CASE User
  <2>1. PICK t \in Tabs :
        \/ \E n \in 1..Len(server) \cup {Nil} : OpenPage(t, n)
        \/ ClosePage(t) \/ KillTab(t)
        \/ \E w \in Texts \cup {Nil} : TypeText(t, w)
        \/ SaveJournalDraft(t)
        \/ EditIncident(t) \/ EditVisit(t) \/ UpdateIncident(t) \/ SubmitJournalEntry(t)
        \/ \E y \in Types : AddIncidentType(t, y) \/ RemoveIncidentType(t, y) \/ LinkIncident(t, y)
        \/ AttachFile(t) \/ AttachReport(t) \/ DetachReport(t) \/ AttachPersonToRecord(t)
        \/ RemovePerson(t) \/ SetStrike(t)
        \/ SetPersonGrant(t) \/ SetPersonInvolvement(t) \/ Poke(t)
    BY <1>2 DEF User
  <2> QED BY <2>1, EditsSend, ListsSend, OwnOnesSend, RowsSend, PokeSends DEF PageStep, LeaveStep, Known, Box
<1>3. CASE Answers
  <2>1. PICK t \in Tabs : \E o \in ops[t] :
        \/ Created(t, o) \/ Edited(t, o) \/ EditFailed(t, o) \/ OwnRequestDone(t, o)
        \/ PersonGrantSet(t, o) \/ Ended(t, o) \/ Land(t, o) \/ LoadFails(t, o)
    BY <1>3 DEF Answers
  <2>6. PICK o \in ops[t] :
        \/ Created(t, o) \/ Edited(t, o) \/ EditFailed(t, o) \/ OwnRequestDone(t, o)
        \/ PersonGrantSet(t, o) \/ Ended(t, o) \/ Land(t, o) \/ LoadFails(t, o)
    BY <2>1
  <2>2. AskShape(o)
    BY AskerOpen
  <2>3. CASE Edited(t, o)
    BY <2>3, ReloadSteps DEF Edited, PageStep
  <2>4. CASE EditFailed(t, o)
    BY <2>4, ReloadSteps DEF EditFailed, PageStep
  <2>5. CASE OwnRequestDone(t, o)
    <3>1. o.num # Nil
      BY <2>2, <2>5 DEF OwnRequestDone, AskShape, Edits, Lists
    <3> QED BY <2>5, <3>1, ReloadSteps DEF OwnRequestDone, PageStep
  <2> QED BY <2>6, <2>3, <2>4, <2>5, LandSteps, DropSteps DEF PageStep
<1> QED BY <1>1, <1>2, <1>3 DEF Next

(***************************************************************************)
(* A legacy record page: types.                                            *)
(***************************************************************************)
LEMMA RecordTypesSuffice == PageTypes /\ ShapeInv => TypeOK
<1> SUFFICES ASSUME PageTypes, ShapeInv PROVE TypeOK
  OBVIOUS
<1>1. \A n \in DOMAIN server : \A i \in DOMAIN server[n] : server[n][i] \in Versions
  <2> SUFFICES ASSUME NEW n \in DOMAIN server, NEW i \in DOMAIN server[n] PROVE server[n][i] \in Versions
    OBVIOUS
  <2>1. server[n] \in Seq(Versions)
    BY DEF PageTypes, Hists
  <2> QED BY <2>1
<1>2. \A t \in Tabs \cup {Nil} : \A o \in ops[t] :
          /\ o.what \in Ops /\ o.num \in Numbers
          /\ o.stage \in {"sent", "done", "failed", "named", "reading"}
  BY DEF PageTypes, Senders, Asks
<1> QED BY <1>1, <1>2 DEF PageTypes, TypeOK

LEMMA RecordInitTypes == Init => PageTypes /\ ShapeInv
<1> SUFFICES ASSUME Init PROVE PageTypes /\ ShapeInv
  OBVIOUS
<1>1. Blank \in Versions
  BY DEF Blank, Versions
<1>2. server \in Seq(Hists) /\ Len(server) = 1
  <2>1. <<Blank>> \in Hists
    BY <1>1 DEF Hists
  <2> QED BY <2>1 DEF Init
<1>3. PageTypes
  BY <1>1, <1>2, NilApart DEF Init, PageTypes, Nums, Box, Senders
<1>4. ShapeInv
  BY DEF Init, ShapeInv, Open, Senders
<1> QED BY <1>3, <1>4

(* The server only grows, and what was said of a request stays true.       *)
Grows ==
  /\ Len(server) <= Len(server') /\ used.ops <= used'.ops
  /\ \A n \in Known : Len(server[n]) <= Len(server'[n])

LEMMA ShapeKept ==
  ASSUME PageTypes, PageTypes', Grows, NEW o \in Asks, AskShape(o)
  PROVE  AskShape(o)'
<1>1. Len(server) \in Nat /\ Len(server') \in Nat /\ Known \subseteq Known' /\ used.ops \in Nat /\ used'.ops \in Nat
  BY NilApart DEF PageTypes, Grows, Known
<1>2. o.id < used'.ops
  BY <1>1 DEF Grows, AskShape, Asks
<1>3. o.stage = "reading" => o.rd.from \in 1 .. Len(server'[o.rd.num])
  <2> SUFFICES ASSUME o.stage = "reading" PROVE o.rd.from \in 1 .. Len(server'[o.rd.num])
    OBVIOUS
  <2>1. o.rd # Nil /\ o.rd.num \in Known /\ o.rd.num \in Known' /\ o.rd.from \in 1 .. Len(server[o.rd.num])
        /\ o.rd.num # Nil
    BY <1>1, NilApart DEF AskShape, Asks
  <2>2. Len(server[o.rd.num]) \in Nat /\ Len(server[o.rd.num]) <= Len(server'[o.rd.num])
    BY <2>1, RecordTyped DEF Grows
  <2>3. Len(server'[o.rd.num]) \in Nat
    <3>1. server'[o.rd.num] \in Hists
      BY <2>1 DEF PageTypes, Known
    <3> QED BY <3>1 DEF Hists
  <2> QED BY <2>1, <2>2, <2>3
<1> QED BY <1>1, <1>2, <1>3 DEF AskShape

LEMMA ShapesKept ==
  ASSUME PageTypes, PageTypes', ShapeInv, Grows,
         \A u \in Senders : \A o \in ops'[u] : (\E v \in Senders : o \in ops[v]) \/ AskShape(o)'
  PROVE  \A u \in Senders : \A o \in ops'[u] : AskShape(o)'
<1> SUFFICES ASSUME NEW u \in Senders, NEW o \in ops'[u], NEW v \in Senders, o \in ops[v]
             PROVE  AskShape(o)'
  OBVIOUS
<1>1. o \in Asks /\ AskShape(o)
  BY DEF PageTypes, ShapeInv
<1> QED BY <1>1, ShapeKept

(* A step of the page t that leaves the server as it is.                   *)
LEMMA ShapeOfPage ==
  ASSUME PageTypes, PageTypes', ShapeInv, NEW t \in Tabs, server' = server, used.ops <= used'.ops,
         NEW p \in Pages \cup {Nil}, page' = [page EXCEPT ![t] = p],
         \A u \in Senders \ {t} : ops'[u] = ops[u],
         \A o \in ops'[t] : o \in ops[t] \/ AskShape(o)',
         p = Nil => ops'[t] = {},
         p # Nil => {p.path, p.num} \subseteq Known \cup {Nil} /\ p.made < Len(server)
  PROVE  ShapeInv'
<1>1. Grows
  <2>1. \A n \in Known : Len(server[n]) \in Nat
    BY RecordTyped, NilApart DEF Known, PageTypes, Nums
  <2>2. Len(server) \in Nat
    BY NilApart DEF PageTypes
  <2> QED BY <2>1, <2>2 DEF Grows
<1>2. \A u \in Senders : \A o \in ops'[u] : AskShape(o)'
  BY <1>1, ShapesKept
<1>3. ops'[Nil] = ops[Nil]
  BY NilApart DEF Senders
<1>4. ASSUME NEW u \in Tabs
      PROVE IF Open(u)' THEN {page'[u].path, page'[u].num} \subseteq Known' \cup {Nil}
                             /\ page'[u].made < Len(server')
            ELSE ops'[u] = {}
  <2>1. CASE u = t
    <3>1. page'[t] = p
      BY DEF PageTypes
    <3> QED BY <2>1, <3>1 DEF Open, Known
  <2>2. CASE u # t
    <3>1. page'[u] = page[u] /\ ops'[u] = ops[u]
      BY <2>2 DEF PageTypes, Senders
    <3> QED BY <3>1 DEF Open, Known, ShapeInv
  <2> QED BY <2>1, <2>2
<1> QED BY <1>2, <1>3, <1>4 DEF ShapeInv

LEMMA MadeSmaller == ASSUME PageTypes, ShapeInv, NEW t \in Tabs, Open(t)
  PROVE /\ page[t] \in Pages /\ {page[t].path, page[t].num} \subseteq Known \cup {Nil}
        /\ page[t].made < Len(server) /\ Len(server) \in 1 .. MaxRecords
        /\ Known \subseteq Nums
BY OpenTyped, NilApart DEF ShapeInv, PageTypes, Known, Nums

(* Drafts.                                                                 *)
LEMMA DraftKeyTyped ==
  ASSUME NEW p \in Pages
  PROVE  /\ JournalDraftKey(p) \in Nums \cup {New}
         /\ p.path = Nil => JournalDraftKey(p) = New
         /\ p.path # Nil => JournalDraftKey(p) = p.path
BY PageFields DEF JournalDraftKey, Numbers

LEMMA DraftsTyped ==
  ASSUME PageTypes, NEW p \in Pages
  PROVE  /\ FlushJournalDraft(p) \in [Nums \cup {New} -> Box]
         /\ ClearJournalDraft(p) \in [Nums \cup {New} -> Box]
         /\ \A n \in Nums : MigrateJournalDraftToNumber(n) \in [Nums \cup {New} -> Box]
<1>1. Nil \in Box /\ p.box \in Box /\ JournalDraftKey(p) \in Nums \cup {New}
  BY PageFields, DraftKeyTyped DEF Box
<1>2. draft \in [Nums \cup {New} -> Box]
  BY DEF PageTypes
<1>3. [draft EXCEPT ![JournalDraftKey(p)] = p.box] \in [Nums \cup {New} -> Box]
  BY <1>1, <1>2
<1>4. [draft EXCEPT ![JournalDraftKey(p)] = Nil] \in [Nums \cup {New} -> Box]
  BY <1>1, <1>2
<1>5. \A n \in Nums : [draft EXCEPT ![n] = draft[New], ![New] = Nil] \in [Nums \cup {New} -> Box]
  BY <1>1, <1>2
<1> QED BY <1>2, <1>3, <1>4, <1>5 DEF FlushJournalDraft, ClearJournalDraft, MigrateJournalDraftToNumber

(* The page opened on a record.                                            *)
LEMMA OpenedPage ==
  ASSUME PageTypes, NEW t \in Tabs, NEW n \in Known \cup {Nil}, OpenPage(t, n)
  PROVE  \E p \in Pages :
           /\ page' = [page EXCEPT ![t] = p]
           /\ p.path = n /\ p.num = n /\ p.copy = Record(n) /\ p.grant = Record(n).grant
           /\ p.rows = {} /\ ~p.removed /\ ~p.timer /\ p.made = 0 /\ ~p.crossed
           /\ p.box = IF HasDrafts THEN draft[JournalDraftKey(p)] ELSE Nil
<1> DEFINE q == [path |-> n, num |-> n, copy |-> Record(n), grant |-> Record(n).grant, rows |-> {},
                 removed |-> FALSE, held |-> FALSE, locked |-> FALSE, box |-> Nil, armed |-> FALSE,
                 timer |-> FALSE, made |-> 0, crossed |-> FALSE]
           d == IF HasDrafts THEN draft[JournalDraftKey(q)] ELSE Nil
           p == [q EXCEPT !.box = d, !.armed = d # Nil]
<1>1. n \in Numbers
  BY NilApart DEF Known, PageTypes, Nums, Numbers
<1>2. Record(n) \in Versions /\ Record(n).grant \in BOOLEAN
  BY RecordTyped DEF Versions
<1>3. q \in Pages
  BY <1>1, <1>2, NilApart DEF Pages, Box
<1>4. d \in Box
  BY <1>3, DraftKeyTyped DEF PageTypes, Box
<1>5. page' = [page EXCEPT ![t] = p]
  BY DEF OpenPage, RestoreJournalDraft
<1>6. JournalDraftKey(p) = JournalDraftKey(q)
  BY DEF JournalDraftKey
<1> HIDE DEF d
<1>7. p \in Pages /\ p.box = d
  BY <1>3, <1>4 DEF Pages
<1>8. p.path = n /\ p.num = n /\ p.copy = Record(n) /\ p.grant = Record(n).grant
      /\ p.rows = {} /\ ~p.removed /\ ~p.timer /\ p.made = 0 /\ ~p.crossed
  OBVIOUS
<1>9. p.box = IF HasDrafts THEN draft[JournalDraftKey(p)] ELSE Nil
  BY <1>6, <1>7 DEF d
<1> HIDE DEF p
<1> QED BY <1>5, <1>7, <1>8, <1>9

LEMMA OpenPageTypes ==
  ASSUME PageTypes, ShapeInv, NEW t \in Tabs, NEW n \in Known \cup {Nil}, OpenPage(t, n)
  PROVE  PageTypes' /\ ShapeInv'
<1>1. PICK p \in Pages : page' = [page EXCEPT ![t] = p] /\ p.path = n /\ p.num = n /\ p.made = 0
  BY OpenedPage
<1>2. UNCHANGED <<plan, server, journal, draft, ops, recordHistory>> /\ used' = [used EXCEPT !.opens = @ + 1]
      /\ page[t] = Nil
  BY DEF OpenPage, Open
<1>7. used' \in [ops : Nat, opens : Nat, faults : Nat]
  BY <1>2 DEF PageTypes
<1>8. page' \in [Tabs -> Pages \cup {Nil}]
  BY <1>1 DEF PageTypes
<1>3. PageTypes'
  BY <1>2, <1>7, <1>8 DEF PageTypes, Hists, recordHistory, Senders
<1>4. \A u \in Senders : ops'[u] = ops[u]
  BY <1>2
<1>5. used.ops <= used'.ops /\ 0 < Len(server)
  BY <1>2, NilApart DEF PageTypes, Nums
<1>6. p # Nil
  BY NilApart
<1> QED BY <1>1, <1>2, <1>3, <1>4, <1>5, <1>6, ShapeOfPage

(* A page left drops its requests; those sent go on.                       *)
LEMMA Abandoned ==
  ASSUME PageTypes, NEW t \in Tabs, Abandon(t)
  PROVE  /\ ops' \in [Senders -> SUBSET Asks] /\ ops'[t] = {}
         /\ \A u \in Tabs \ {t} : ops'[u] = ops[u]
         /\ ops'[Nil] = ops[Nil] \cup {o \in ops[t] : o.stage = "sent"}
<1>1. ops \in [Senders -> SUBSET Asks] /\ t \in Senders /\ Nil \in Senders /\ Nil # t /\ Tabs \subseteq Senders
  BY NilApart DEF PageTypes, Senders
<1>2. ops[t] \in SUBSET Asks /\ ops[Nil] \cup {o \in ops[t] : o.stage = "sent"} \in SUBSET Asks
  BY <1>1
<1>3. ops' = [ops EXCEPT ![t] = {}, ![Nil] = ops[Nil] \cup {o \in ops[t] : o.stage = "sent"}]
  BY <1>1 DEF Abandon
<1> HIDE DEF Abandon
<1> DEFINE kept == ops[Nil] \cup {o \in ops[t] : o.stage = "sent"}
<1>4. kept \in SUBSET Asks /\ ops' = [ops EXCEPT ![t] = {}, ![Nil] = kept]
  BY <1>2, <1>3
<1> HIDE DEF kept
<1>5. /\ ops' \in [Senders -> SUBSET Asks] /\ ops'[t] = {}
      /\ \A u \in Tabs \ {t} : ops'[u] = ops[u]
      /\ ops'[Nil] = kept
  BY <1>1, <1>4, NilApart
<1> QED BY <1>5 DEF kept

LEMMA LeavePageTypes ==
  ASSUME PageTypes, ShapeInv, NEW t \in Tabs, LeaveStep(t)
  PROVE  PageTypes' /\ ShapeInv'
<1>1. /\ Open(t) /\ page[t] \in Pages /\ page' = [page EXCEPT ![t] = Nil] /\ Abandon(t)
      /\ UNCHANGED <<plan, server, journal, home, asked, muddled>>
      /\ draft' \in {draft, FlushJournalDraft(page[t])} /\ wanted' \subseteq wanted
      /\ used' \in {used, [used EXCEPT !.faults = @ + 1]}
  BY OpenTyped DEF LeaveStep, ClosePage, KillTab
<1>2. /\ ops' \in [Senders -> SUBSET Asks] /\ ops'[t] = {}
      /\ \A u \in Tabs \ {t} : ops'[u] = ops[u]
      /\ ops'[Nil] = ops[Nil] \cup {o \in ops[t] : o.stage = "sent"}
  BY <1>1, Abandoned
<1>3. draft' \in [Nums \cup {New} -> Box]
  BY <1>1, DraftsTyped DEF PageTypes
<1>4. used' \in [ops : {used.ops}, opens : Nat, faults : Nat] /\ used.ops \in Nat
  BY <1>1 DEF PageTypes
<1>5. PageTypes'
  BY <1>1, <1>2, <1>3, <1>4 DEF PageTypes, Hists, Senders
<1>6. Grows
  <2>1. \A n \in Known : Len(server[n]) \in Nat
    BY RecordTyped, NilApart DEF Known, PageTypes, Nums
  <2>2. Len(server) \in Nat
    BY NilApart DEF PageTypes
  <2> QED BY <1>1, <1>4, <2>1, <2>2 DEF Grows
<1>7. \A u \in Senders : \A o \in ops'[u] : \E v \in Senders : o \in ops[v]
  BY <1>2, NilApart DEF Senders
<1>8. \A u \in Senders : \A o \in ops'[u] : AskShape(o)'
  BY <1>5, <1>6, <1>7, ShapesKept
<1>9. \A o \in ops'[Nil] : o.stage = "sent"
  BY <1>2 DEF ShapeInv
<1>10. ASSUME NEW u \in Tabs
       PROVE IF Open(u)' THEN {page'[u].path, page'[u].num} \subseteq Known' \cup {Nil}
                              /\ page'[u].made < Len(server')
             ELSE ops'[u] = {}
  <2>1. CASE u = t
    <3>1. page'[t] = Nil
      BY <1>1 DEF PageTypes
    <3> QED BY <1>2, <2>1, <3>1 DEF Open
  <2>2. CASE u # t
    <3>1. page'[u] = page[u] /\ ops'[u] = ops[u]
      BY <1>1, <1>2, <2>2 DEF PageTypes
    <3> QED BY <1>1, <3>1 DEF Open, Known, ShapeInv
  <2> QED BY <2>1, <2>2
<1> QED BY <1>5, <1>8, <1>9, <1>10 DEF ShapeInv

(* Typing and storing.                                                     *)
LEMMA TextPage ==
  ASSUME PageTypes, NEW t \in Tabs, (\E w \in Box : TypeText(t, w)) \/ SaveJournalDraft(t)
  PROVE  \E p \in Pages :
           /\ Open(t) /\ page' = [page EXCEPT ![t] = p] /\ SameRecord(p, page[t])
           /\ p.made = page[t].made /\ p.crossed = page[t].crossed
           /\ p.grant = page[t].grant /\ p.rows = page[t].rows /\ p.removed = page[t].removed
           /\ UNCHANGED <<plan, server, journal, ops, used, asked, muddled>>
<1>1. Open(t) /\ page[t] \in Pages
  BY OpenTyped DEF TypeText, Acts, SaveJournalDraft
<1>2. CASE SaveJournalDraft(t)
  <2> DEFINE p == [page[t] EXCEPT !.timer = FALSE]
  <2>1. p \in Pages /\ page' = [page EXCEPT ![t] = p]
    BY <1>1, <1>2 DEF SaveJournalDraft, Pages, PageTypes
  <2>2. SameRecord(p, page[t]) /\ p.made = page[t].made /\ p.crossed = page[t].crossed
        /\ p.grant = page[t].grant /\ p.rows = page[t].rows /\ p.removed = page[t].removed
    BY <1>1 DEF SameRecord, Pages
  <2> HIDE DEF p
  <2> QED BY <1>1, <1>2, <2>1, <2>2 DEF SaveJournalDraft
<1>3. CASE \E w \in Box : TypeText(t, w)
  <2>1. PICK w \in Box : TypeText(t, w)
    BY <1>3
  <2> DEFINE p == [page[t] EXCEPT !.box = w, !.armed = w # Nil, !.timer = HasDrafts]
  <2>2. p \in Pages /\ page' = [page EXCEPT ![t] = p]
    BY <1>1, <2>1 DEF TypeText, Pages, PageTypes, HasDrafts
  <2>3. SameRecord(p, page[t]) /\ p.made = page[t].made /\ p.crossed = page[t].crossed
        /\ p.grant = page[t].grant /\ p.rows = page[t].rows /\ p.removed = page[t].removed
    BY <1>1 DEF SameRecord, Pages
  <2> HIDE DEF p
  <2> QED BY <1>1, <2>1, <2>2, <2>3 DEF TypeText
<1> QED BY <1>2, <1>3

LEMMA TextTypes ==
  ASSUME PageTypes, ShapeInv, NEW t \in Tabs, (\E w \in Box : TypeText(t, w)) \/ SaveJournalDraft(t)
  PROVE  PageTypes' /\ ShapeInv'
<1>1. PICK p \in Pages :
           /\ Open(t) /\ page' = [page EXCEPT ![t] = p] /\ SameRecord(p, page[t]) /\ p.made = page[t].made
           /\ UNCHANGED <<plan, server, journal, ops, used, asked, muddled>>
  BY TextPage
<1>2. draft' \in [Nums \cup {New} -> Box] /\ wanted' \in SUBSET Texts /\ home' \in [Texts -> 0 .. Astray \cup {Nil}]
  <2>1. CASE SaveJournalDraft(t)
    BY <1>1, <2>1, DraftsTyped, MadeSmaller DEF SaveJournalDraft, PageTypes
  <2>2. CASE \E w \in Box : TypeText(t, w)
    <3>1. PICK w \in Box : TypeText(t, w)
      BY <2>2
    <3>2. JournalDraftKey(page[t]) \in 0 .. Astray /\ Astray \in 0 .. Astray
      BY <1>1, MadeSmaller, DraftKeyTyped, NilApart DEF Nums, New, Astray
    <3>3. home' \in [Texts -> 0 .. Astray \cup {Nil}]
      BY <3>1, <3>2 DEF TypeText, PageTypes
    <3> QED BY <3>1, <3>3 DEF TypeText, PageTypes, Box
  <2> QED BY <2>1, <2>2
<1>3. PageTypes'
  BY <1>1, <1>2 DEF PageTypes, Hists, Senders
<1>4. {p.path, p.num} \subseteq Known \cup {Nil} /\ p.made < Len(server) /\ p # Nil /\ used.ops <= used'.ops
  BY <1>1, MadeSmaller, NilApart DEF SameRecord, PageTypes
<1> QED BY <1>1, <1>3, <1>4, ShapeOfPage

LEMMA RecordSendTypes ==
  ASSUME PageTypes, ShapeInv, NEW t \in Tabs, SendStep(t)
  PROVE  PageTypes' /\ ShapeInv'
<1>1. PICK o \in Asks, p \in Pages :
    /\ Open(t) /\ MadeFrom(o, page[t]) /\ o.id = used.ops
    /\ used' = [used EXCEPT !.ops = @ + 1]
    /\ ops' = [ops EXCEPT ![t] = @ \cup {o}]
    /\ muddled' = muddled \cup {n \in {o.num} \ {Nil} :
                       Busy(n) \/ Shared(t, n) \/ (o.what = "involve" /\ page[t].removed)}
    /\ page' = [page EXCEPT ![t] = p]
    /\ SameRecord(p, page[t]) /\ SameText(p, page[t])
    /\ UNCHANGED <<plan, server, journal, draft, wanted, home, asked>>
  BY DEF SendStep
<1>2. /\ page[t] \in Pages /\ {page[t].path, page[t].num} \subseteq Known \cup {Nil}
      /\ page[t].made < Len(server) /\ Known \subseteq Nums /\ page[t].copy.types \in SUBSET Types
  BY <1>1, MadeSmaller, PageFields
<1>3. o.num \in Known \cup {Nil} /\ o.num \in Nums \cup {Nil}
  BY <1>1, <1>2 DEF MadeFrom
<1>4. muddled' \in SUBSET Nums
  BY <1>1, <1>3 DEF PageTypes
<1>5. used' \in [ops : Nat, opens : Nat, faults : Nat] /\ used'.ops = used.ops + 1 /\ used.ops \in Nat
  BY <1>1 DEF PageTypes
<1>6. ops' \in [Senders -> SUBSET Asks] /\ page' \in [Tabs -> Pages \cup {Nil}]
      /\ ops'[t] = ops[t] \cup {o} /\ \A u \in Senders \ {t} : ops'[u] = ops[u]
  BY <1>1 DEF PageTypes, Senders
<1>7. PageTypes'
  BY <1>1, <1>4, <1>5, <1>6 DEF PageTypes, Hists, Senders
<1>8. AskShape(o)'
  <2>1. o.num # Nil => Len(server[o.num]) \in Nat \ {0}
    BY <1>3, RecordTyped
  <2>2. CASE o.what = "poke"
    <3>1. o.num # Nil
      BY <1>1, <2>2 DEF MadeFrom, Edits, Lists
    <3>2. /\ ~o.first /\ o.stage = "reading"
          /\ o.rd = [num |-> o.num, from |-> Len(server[o.num])]
      BY <1>1, <2>2, <3>1 DEF MadeFrom
    <3>3. o.rd # Nil /\ o.rd.num = o.num /\ o.rd.from = Len(server[o.num])
      <4>1. Len(server[o.num]) \in Nat /\ o.num \in Nat
        BY <1>3, <2>1, <3>1, NilApart
      <4>2. [num |-> o.num, from |-> Len(server[o.num])] \in [num : Nat, from : Nat]
        BY <4>1
      <4>3. o.rd # Nil
        BY <3>2, <4>2, NilApart, Zenon
      <4> QED BY <3>2, <4>3
    <3>4. o.id < used'.ops /\ server' = server /\ o.num \in Known
      BY <1>1, <1>3, <1>5, <3>1
    <3>5. o.rd.from \in 1 .. Len(server[o.rd.num])
      BY <2>1, <3>1, <3>3
    <3> QED BY <2>2, <3>1, <3>2, <3>3, <3>4, <3>5 DEF AskShape, Lists, Known
  <2>3. CASE o.what # "poke"
    BY <1>1, <1>2, <1>3, <1>5, <2>3 DEF MadeFrom, AskShape, Edits, Lists, Known
  <2> QED BY <2>2, <2>3
<1>9. {p.path, p.num} \subseteq Known \cup {Nil} /\ p.made < Len(server) /\ p # Nil
  BY <1>1, <1>2, NilApart DEF SameRecord, SameText
<1>10. \A x \in ops'[t] : x \in ops[t] \/ AskShape(x)'
  BY <1>6, <1>8
<1>11. used.ops <= used'.ops /\ server' = server /\ page' = [page EXCEPT ![t] = p]
  BY <1>1, <1>5
<1> QED BY <1>6, <1>7, <1>9, <1>10, <1>11, ShapeOfPage

LEMMA CreatedTypes ==
  ASSUME PageTypes, ShapeInv, RecordCreateInv, NEW t \in Tabs, NEW o \in ops[t], Created(t, o)
  PROVE  PageTypes' /\ ShapeInv'
<1> DEFINE n == o.rd.num
           p == [page[t] EXCEPT !.path = n, !.num = n]
<1>1. Open(t) /\ page[t] \in Pages /\ o \in Asks /\ AskShape(o)
  BY AskerOpen
<1>2. n \in Known /\ n \in Nums /\ n # Nil /\ o.num = Nil /\ o.stage = "done" /\ o.rd # Nil
  BY <1>1, MadeSmaller, NilApart DEF Created, AskShape
<1>3. p \in Pages /\ p.path = n /\ p.num = n /\ p.made = page[t].made
  BY <1>1, <1>2 DEF Pages, Numbers
<1>4. PICK q \in Asks : AskShape(q) /\ q = [o EXCEPT !.stage = "named", !.num = n]
  BY <1>1, <1>2 DEF Asks, AskShape, Edits, Lists, Numbers
<1>5. page' = [page EXCEPT ![t] = p]
  BY <1>1 DEF Created, StoreNumber, PageTypes, Pages
<1>6. /\ ops' = [ops EXCEPT ![t] = (@ \ {o}) \cup {q}]
      /\ UNCHANGED <<plan, server, journal, used, home, asked>>
      /\ draft' = MigrateJournalDraftToNumber(n) /\ wanted' \subseteq wanted
      /\ muddled' \subseteq muddled \cup {n}
  BY <1>4 DEF Created
<1> HIDE DEF p
<1>7. ops' \in [Senders -> SUBSET Asks] /\ page' \in [Tabs -> Pages \cup {Nil}]
      /\ ops'[t] = (ops[t] \ {o}) \cup {q} /\ \A u \in Senders \ {t} : ops'[u] = ops[u]
  BY <1>3, <1>4, <1>5, <1>6 DEF PageTypes, Senders
<1>8. draft' \in [Nums \cup {New} -> Box]
  BY <1>2, <1>3, <1>6, DraftsTyped
<1>9. PageTypes'
  BY <1>2, <1>6, <1>7, <1>8 DEF PageTypes, Hists, Senders
<1>10. AskShape(q)'
  BY <1>4, <1>6 DEF AskShape, Known
<1>11. {p.path, p.num} \subseteq Known \cup {Nil} /\ p.made < Len(server) /\ p # Nil /\ used.ops <= used'.ops
  BY <1>1, <1>2, <1>3, <1>6, MadeSmaller, NilApart DEF PageTypes
<1>12. \A x \in ops'[t] : x \in ops[t] \/ AskShape(x)'
  BY <1>7, <1>10
<1> QED BY <1>3, <1>5, <1>6, <1>7, <1>9, <1>11, <1>12, ShapeOfPage

LEMMA RecordReadTypes ==
  ASSUME PageTypes, ShapeInv, RecordCreateInv, NEW t \in Tabs, ReadStep(t)
  PROVE  PageTypes' /\ ShapeInv'
<1>1. PICK o \in ops[t], err \in BOOLEAN :
    /\ Open(t) /\ page[t].num # Nil
    /\ o.stage \in {"done", "named", "failed"}
    /\ Edits(o) \/ o.what \in {"file", "strike"}
    /\ ops' = [ops EXCEPT ![t] = (@ \ {o}) \cup
            {[o EXCEPT !.stage = "reading", !.err = err,
                       !.rd = [num |-> page[t].num, from |-> Len(server[page[t].num])]]}]
    /\ UNCHANGED <<plan, server, journal, draft, page, used, recordHistory>>
  BY DEF ReadStep
<1>2. /\ Open(t) /\ page[t] \in Pages /\ o \in Asks /\ AskShape(o)
      /\ page[t].num \in Known /\ page[t].num \in Nums
  BY <1>1, AskerOpen
<1>3. Len(server[page[t].num]) \in Nat \ {0}
  BY <1>1, <1>2, RecordTyped
<1>4. PICK r \in [num : Nums, from : Nat] :
        r = [num |-> page[t].num, from |-> Len(server[page[t].num])]
  BY <1>2, <1>3
<1>5. r # Nil /\ r.num \in Known /\ r.from \in 1 .. Len(server[r.num])
  <2>1. r # Nil
    <3>1. [num : Nums, from : Nat] \subseteq [num : Nat, from : Nat]
      BY NilApart
    <3> QED BY <3>1, NilApart
  <2> QED BY <1>2, <1>3, <1>4, <2>1
<1>6. PICK q \in Asks : q = [o EXCEPT !.stage = "reading", !.err = err, !.rd = r]
  BY <1>2 DEF Asks
<1>7. AskShape(q)
  <2>1. o.what # "poke"
    BY <1>1, <1>2 DEF Edits, Lists, AskShape
  <2>2. q.id = o.id /\ q.what = o.what /\ q.num = o.num /\ q.first = o.first /\ q.item = o.item
        /\ q.arg = o.arg /\ q.stage = "reading" /\ q.rd = r
    BY <1>2, <1>6 DEF Asks
  <2> QED BY <1>2, <1>5, <2>1, <2>2 DEF AskShape, Edits
<1>8. /\ ops' \in [Senders -> SUBSET Asks] /\ ops'[t] = (ops[t] \ {o}) \cup {q}
      /\ \A u \in Senders \ {t} : ops'[u] = ops[u]
  BY <1>1, <1>4, <1>6 DEF PageTypes, Senders
<1>9. PageTypes'
  BY <1>1, <1>8 DEF PageTypes, Hists, Senders, recordHistory
<1>10. \A x \in ops'[t] : x \in ops[t] \/ AskShape(x)'
  BY <1>1, <1>7, <1>8 DEF AskShape, Known
<1>11. page' = [page EXCEPT ![t] = page[t]] /\ page[t] # Nil /\ used.ops <= used'.ops
       /\ {page[t].path, page[t].num} \subseteq Known \cup {Nil} /\ page[t].made < Len(server)
  <2>1. page[t] # Nil /\ used.ops <= used'.ops
    BY <1>1, <1>2, NilApart DEF PageTypes
  <2>2. page' = [page EXCEPT ![t] = page[t]]
    BY <1>1 DEF PageTypes
  <2> QED BY <1>1, <2>1, <2>2, MadeSmaller
<1> QED BY <1>1, <1>2, <1>8, <1>9, <1>10, <1>11, ShapeOfPage

LEMMA DropTypes ==
  ASSUME PageTypes, ShapeInv, RecordCreateInv, NEW t \in Tabs, DropStep(t)
  PROVE  PageTypes' /\ ShapeInv'
<1>1. PICK o \in ops[t], p \in Pages :
    /\ Open(t) /\ ops' = [ops EXCEPT ![t] = @ \ {o}] /\ page' = [page EXCEPT ![t] = p]
    /\ SameRecord(p, page[t]) /\ SameText(p, page[t])
    /\ UNCHANGED <<plan, server, journal, draft, used, recordHistory>>
  BY DEF DropStep
<1>2. /\ ops' \in [Senders -> SUBSET Asks] /\ ops'[t] = ops[t] \ {o}
      /\ page' \in [Tabs -> Pages \cup {Nil}]
      /\ \A u \in Senders \ {t} : ops'[u] = ops[u]
  BY <1>1 DEF PageTypes, Senders
<1>3. PageTypes'
  BY <1>1, <1>2 DEF PageTypes, Hists, Senders, recordHistory
<1>4. {p.path, p.num} \subseteq Known \cup {Nil} /\ p.made < Len(server) /\ p # Nil /\ used.ops <= used'.ops
  BY <1>1, MadeSmaller, NilApart DEF SameRecord, SameText, PageTypes
<1> QED BY <1>1, <1>2, <1>3, <1>4, ShapeOfPage

(* What a call's return changes of the page, and what it sends next.       *)
LEMMA ReturnChanges ==
  ASSUME NEW o \in Asks, NEW p \in Pages, NEW err \in BOOLEAN
  PROVE  /\ Returned(o, p, err) \in Pages
         /\ SameRecord(Returned(o, p, err), p) /\ Returned(o, p, err).made = p.made
         /\ Returned(o, p, err).grant = p.grant /\ Returned(o, p, err).rows = p.rows
         /\ Returned(o, p, err).removed = p.removed /\ Returned(o, p, err).crossed = p.crossed
         /\ IF o.what = "entry" /\ ~err
            THEN Returned(o, p, err).box = Nil /\ ~Returned(o, p, err).timer
            ELSE Returned(o, p, err).box = p.box /\ Returned(o, p, err).timer = p.timer
<1>1. Nil \in Box
  BY DEF Box
<1>2. CASE o.what = "entry" /\ ~err
  BY <1>1, <1>2 DEF Returned, Pages, SameRecord
<1>3. CASE o.what = "entry" /\ err
  BY <1>3 DEF Returned, Pages, SameRecord
<1>4. CASE o.what = "add"
  BY <1>4 DEF Returned, Pages, SameRecord
<1>5. CASE o.what \notin {"entry", "add"}
  BY <1>5 DEF Returned, Pages, SameRecord
<1> QED BY <1>2, <1>3, <1>4, <1>5

(* What is sent next is addressed to the page's record.                    *)
Followed(q, o, p) ==
  /\ q.id = o.id /\ q.what = o.what /\ q.num # Nil /\ q.num \in {p.num, p.path} /\ ~q.first
  /\ q.item = o.item /\ q.stage = "sent" /\ q.rd = Nil
  /\ q.what \in {"link", "file", "relate", "person"}
  /\ q.what = "link" => q.arg = p.copy.types \cup {o.item} /\ o.item \in Types

LEMMA FollowSent ==
  ASSUME NEW o \in Asks, AskShape(o), NEW p \in Pages, NEW err \in BOOLEAN,
         err \/ (p.num # Nil /\ p.path # Nil), NEW q \in Follow(o, p, err)
  PROVE  q \in Asks /\ Followed(q, o, p) /\ o.first /\ ~err
<1>1. o.first /\ ~err /\ p.num # Nil /\ p.path # Nil /\ o.what \in {"link", "file", "relate", "person"}
  BY DEF Follow, AskShape
<1>2. p.num \in Numbers /\ p.path \in Numbers /\ p.copy.types \in SUBSET Types
  BY PageFields
<1>3. CASE o.what = "link"
  <2>1. o.item \in Types /\ q = [o EXCEPT !.num = p.num, !.first = FALSE, !.stage = "sent", !.rd = Nil,
                                          !.arg = ListedOn(p) \cup {o.item}]
    BY <1>1, <1>3 DEF Follow, AskShape, Lists
  <2>2. ListedOn(p) \cup {o.item} \in Args /\ ListedOn(p) = p.copy.types
    BY <1>2, <2>1, ArgsTyped DEF ListedOn
  <2> QED BY <1>1, <1>2, <1>3, <2>1, <2>2 DEF Asks, Followed
<1>4. CASE o.what # "link"
  <2>1. q = [o EXCEPT !.num = p.path, !.first = FALSE, !.stage = "sent", !.rd = Nil]
    BY <1>1, <1>4 DEF Follow
  <2> QED BY <1>1, <1>2, <1>4, <2>1 DEF Asks, Followed
<1> QED BY <1>3, <1>4

(* The call is over.                                                       *)
LEMMA Finishing ==
  ASSUME PageTypes, ShapeInv, RecordCreateInv, NEW t \in Tabs, NEW o \in ops[t], NEW p \in Pages,
         NEW err \in BOOLEAN, Finish(t, o, p, err),
         o.stage = "reading" \/ err, o.stage = "reading" => p.num # Nil /\ p.path # Nil
  PROVE  /\ page' = [page EXCEPT ![t] = Returned(o, p, err)] /\ Returned(o, p, err) \in Pages
         /\ ops' \in [Senders -> SUBSET Asks]
         /\ \A u \in Senders \ {t} : ops'[u] = ops[u]
         /\ ops'[t] = (ops[t] \ {o}) \cup Follow(o, p, err)
         /\ \A q \in Follow(o, p, err) : q \in Asks /\ Followed(q, o, p) /\ o.first /\ ~err
<1>1. Open(t) /\ page[t] \in Pages /\ o \in Asks /\ AskShape(o)
  BY AskerOpen
<1>2. Returned(o, p, err) \in Pages
  BY <1>1, ReturnChanges
<1>3. \A q \in Follow(o, p, err) : q \in Asks /\ Followed(q, o, p) /\ o.first /\ ~err
  BY <1>1, FollowSent
<1>4. ops' = [ops EXCEPT ![t] = (@ \ {o}) \cup Follow(o, p, err)]
      /\ page' = [page EXCEPT ![t] = Returned(o, p, err)]
  BY DEF Finish
<1>5. (ops[t] \ {o}) \cup Follow(o, p, err) \in SUBSET Asks
  BY <1>3 DEF PageTypes, Senders
<1> QED BY <1>2, <1>3, <1>4, <1>5 DEF PageTypes, Senders

(* The cases of a page drawn at the end of a request.                      *)
LEMMA FinishCases ==
  ASSUME PageTypes, ShapeInv, RecordCreateInv, NEW t \in Tabs, FinishStep(t)
  PROVE  \E o \in ops[t], p \in Pages, err \in BOOLEAN :
    /\ Finish(t, o, p, err) /\ Redraws(p, page[t]) /\ o \in Asks /\ AskShape(o)
    /\ Open(t) /\ page[t] \in Pages /\ CreateInv(t)
    /\ \/ /\ page[t].num = Nil /\ o.stage = "failed" /\ Edits(o) /\ err
          /\ p.num = Nil /\ p.copy = Blank /\ muddled' = muddled
       \/ /\ o.stage = "reading" /\ p.num = o.rd.num /\ muddled' = muddled
          /\ \E i \in o.rd.from .. Len(server[o.rd.num]) : p.copy = server[o.rd.num][i]
       \/ /\ o.stage = "reading" /\ p.num = page[t].num /\ p.copy = page[t].copy
          /\ muddled' = muddled \cup {o.rd.num}
    /\ o.stage = "reading" \/ err
    /\ o.stage = "reading" => /\ page[t].num # Nil /\ p.num # Nil /\ p.path # Nil
                              /\ p.num \in Known /\ p.path \in Known /\ o.rd.num \in Known /\ o.rd # Nil
    /\ used' \in [ops : {used.ops}, opens : Nat, faults : Nat]
    /\ UNCHANGED <<plan, server, journal, home, asked>>
<1>1. PICK o \in ops[t], p \in Pages, err \in BOOLEAN :
    /\ Finish(t, o, p, err) /\ Redraws(p, page[t])
    /\ \/ /\ page[t].num = Nil /\ o.stage = "failed" /\ Edits(o) /\ err
          /\ p.num = Nil /\ p.copy = Blank /\ muddled' = muddled
       \/ /\ o.stage = "reading" /\ p.num = o.rd.num /\ muddled' = muddled
          /\ \E i \in o.rd.from .. Len(server[o.rd.num]) : p.copy = server[o.rd.num][i]
       \/ /\ o.stage = "reading" /\ p.num = page[t].num /\ p.copy = page[t].copy
          /\ muddled' = muddled \cup {o.rd.num}
    /\ used' \in [ops : {used.ops}, opens : Nat, faults : Nat]
    /\ UNCHANGED <<plan, server, journal, home, asked>>
  BY DEF FinishStep
<1>2. /\ Open(t) /\ page[t] \in Pages /\ o \in Asks /\ AskShape(o) /\ CreateInv(t)
      /\ o.stage = "reading" => page[t].num # Nil
      /\ page[t].num # Nil => page[t].num \in Known
      /\ page[t].path # Nil => page[t].path \in Known
  BY AskerOpen
<1>3. o.stage = "reading" => o.rd # Nil /\ o.rd.num \in Known /\ o.rd.num # Nil
  <2>1. Nil \notin Known
    BY MadeSmaller, <1>2, NilApart
  <2> QED BY <1>2, <2>1 DEF AskShape
<1>4. p.path = page[t].path /\ (page[t].num # Nil => page[t].path # Nil)
  BY <1>1, <1>2 DEF Redraws, CreateInv, CreateOf
<1>5. o.stage = "reading" => /\ page[t].num # Nil /\ p.num # Nil /\ p.path # Nil
                             /\ p.num \in Known /\ p.path \in Known
  BY <1>1, <1>2, <1>3, <1>4
<1> QED BY <1>1, <1>2, <1>3, <1>5

LEMMA FinishTypes ==
  ASSUME PageTypes, ShapeInv, RecordCreateInv, NEW t \in Tabs, FinishStep(t)
  PROVE  PageTypes' /\ ShapeInv'
<1>1. PICK o \in ops[t], p \in Pages, err \in BOOLEAN :
    /\ Finish(t, o, p, err) /\ Redraws(p, page[t]) /\ o \in Asks /\ AskShape(o)
    /\ Open(t) /\ page[t] \in Pages
    /\ o.stage = "reading" => /\ p.num # Nil /\ p.path # Nil /\ p.num \in Known /\ p.path \in Known
                              /\ o.rd.num \in Known
    /\ o.stage = "reading" \/ (err /\ p.num = Nil)
    /\ muddled' = muddled \/ (o.stage = "reading" /\ muddled' = muddled \cup {o.rd.num})
    /\ used' \in [ops : {used.ops}, opens : Nat, faults : Nat]
    /\ UNCHANGED <<plan, server, journal, home, asked>>
  BY FinishCases
<1>2. PICK r \in Pages : r = Returned(o, p, err)
  BY <1>1, ReturnChanges
<1>3. /\ page' = [page EXCEPT ![t] = r]
      /\ ops' \in [Senders -> SUBSET Asks]
      /\ \A u \in Senders \ {t} : ops'[u] = ops[u]
      /\ ops'[t] = (ops[t] \ {o}) \cup Follow(o, p, err)
      /\ \A q \in Follow(o, p, err) : q \in Asks /\ Followed(q, o, p) /\ o.first /\ ~err
  BY <1>1, <1>2, Finishing
<1>4. r.path = p.path /\ r.num = p.num /\ r.made = p.made
  BY <1>1, <1>2, ReturnChanges DEF SameRecord
<1>5. p.path = page[t].path /\ p.made = page[t].made
  BY <1>1 DEF Redraws, SameText
<1>6. /\ {r.path, r.num} \subseteq Known \cup {Nil} /\ r.made < Len(server) /\ r # Nil
      /\ Known \subseteq Nums
  BY <1>1, <1>4, <1>5, MadeSmaller, NilApart
<1>7. draft' \in [Nums \cup {New} -> Box] /\ wanted' \in SUBSET Texts
  <2>1. draft' \in {draft, ClearJournalDraft(p)} /\ wanted' \subseteq wanted
    BY <1>1 DEF Finish
  <2> QED BY <2>1, DraftsTyped DEF PageTypes
<1>8. muddled' \in SUBSET Nums
  BY <1>1, <1>6 DEF PageTypes
<1>9. page' \in [Tabs -> Pages \cup {Nil}] /\ used' \in [ops : Nat, opens : Nat, faults : Nat]
      /\ used.ops \in Nat /\ used'.ops = used.ops
  BY <1>1, <1>3 DEF PageTypes
<1>10. PageTypes'
  BY <1>1, <1>3, <1>7, <1>8, <1>9 DEF PageTypes, Hists, Senders
<1>11. \A q \in Follow(o, p, err) : AskShape(q)'
  <2> SUFFICES ASSUME NEW q \in Follow(o, p, err) PROVE AskShape(q)'
    OBVIOUS
  <2>1. q \in Asks /\ Followed(q, o, p) /\ o.first /\ ~err
    BY <1>3
  <2>2. p.num \in Known /\ p.path \in Known /\ o.id < used.ops /\ p.copy.types \in SUBSET Types
    BY <1>1, <2>1, PageFields DEF AskShape
  <2>3. used'.ops = used.ops /\ server' = server
    BY <1>1, <1>9
  <2> QED BY <2>1, <2>2, <2>3 DEF AskShape, Followed, Known, Edits, Lists
<1>12. \A x \in ops'[t] : x \in ops[t] \/ AskShape(x)'
  BY <1>3, <1>11
<1>13. used.ops <= used'.ops /\ server' = server
  BY <1>1, <1>9
<1> QED BY <1>3, <1>6, <1>10, <1>12, <1>13, ShapeOfPage

(***************************************************************************)
(* A legacy record page: what the server does with a request.              *)
(***************************************************************************)
Target(o) == IF o.num = Nil THEN Len(server) + 1 ELSE o.num
Outcome(o) == Effect(o, Record(o.num))

(* The record after the request, all others as they were.                  *)
Writes(o) ==
  /\ Target(o) \in Nums /\ Target(o) # Nil /\ Outcome(o) \in Versions
  /\ server' \in Seq(Hists) /\ Target(o) \in Known'
  /\ Len(server') = IF o.num = Nil THEN Len(server) + 1 ELSE Len(server)
  /\ \A m \in Known \ {Target(o)} : server'[m] = server[m]
  /\ \A m \in Known : Len(server[m]) <= Len(server'[m])
  /\ server'[Target(o)][Len(server'[Target(o)])] = Outcome(o)

LEMMA EffectTyped ==
  ASSUME PageTypes, NEW o \in Asks, AskShape(o), o.stage = "sent", NEW v \in Versions
  PROVE  Effect(o, v) \in Versions
<1>1. CASE o.first
  BY <1>1 DEF Effect
<1>2. CASE ~o.first /\ o.what \in Lists
  BY <1>2 DEF Effect, AskShape, Versions
<1>3. CASE ~o.first /\ o.what \in {"grant", "involve"}
  BY <1>3 DEF Effect, AskShape, Versions, Lists
<1>4. CASE ~o.first /\ o.what \notin Lists \cup {"grant", "involve"}
  BY <1>4 DEF Effect, Versions
<1> QED BY <1>1, <1>2, <1>3, <1>4

LEMMA ApplyWrites ==
  ASSUME PageTypes, ShapeInv, NEW u \in Senders, NEW o \in ops[u], NEW lost \in BOOLEAN, Apply(u, o, lost)
  PROVE  Writes(o) /\ o \in Asks /\ AskShape(o) /\ o.stage = "sent" /\ o.rd = Nil /\ Len(server) \in Nums
<1> DEFINE n == Target(o)
           v == Outcome(o)
<1>1. o \in Asks /\ AskShape(o) /\ o.stage = "sent" /\ n \in Nums /\ o.rd = Nil
  BY DEF PageTypes, ShapeInv, Apply, Target, AskShape
<1>2. o.num \in Known \cup {Nil} /\ server \in Seq(Hists) /\ Len(server) \in Nat \ {0} /\ Len(server) \in Nums
  BY <1>1, NilApart DEF AskShape, PageTypes, Nums
<1>3. Record(o.num) \in Versions
  BY <1>2, RecordTyped
<1>4. v \in Versions
  BY <1>1, <1>3, EffectTyped DEF Outcome
<1>5. server' = IF o.num = Nil THEN Append(server, <<v>>)
                ELSE IF v = Record(o.num) THEN server ELSE [server EXCEPT ![n] = Append(@, v)]
  BY DEF Apply, Target, Outcome
<1>6. n # Nil
  BY <1>1, NilApart
<1> HIDE DEF v
<1>7. CASE o.num = Nil
  <2>1. server' = Append(server, <<v>>) /\ n = Len(server) + 1
    BY <1>5, <1>7 DEF Target
  <2>2. <<v>> \in Hists
    BY <1>4 DEF Hists
  <2>3. /\ server' \in Seq(Hists) /\ Len(server') = n /\ server'[n] = <<v>>
        /\ \A m \in 1 .. Len(server) : server'[m] = server[m]
    BY <1>2, <2>1, <2>2
  <2>4. \A m \in Known : Len(server[m]) \in Nat
    BY RecordTyped, <1>2, NilApart DEF Known, Nums
  <2> QED BY <1>1, <1>2, <1>4, <1>6, <1>7, <2>1, <2>3, <2>4 DEF Writes, Known, v, Target
<1>8. CASE o.num # Nil
  <2>1. n = o.num /\ n \in Known /\ n \in DOMAIN server
    BY <1>2, <1>8 DEF Target, Known
  <2>2. /\ server[n] \in Seq(Versions) /\ Len(server[n]) \in Nat \ {0}
        /\ Record(n) = server[n][Len(server[n])]
    BY <1>8, <2>1, RecordTyped
  <2>3. \A m \in Known : Len(server[m]) \in Nat
    BY RecordTyped, <1>2, NilApart DEF Known, Nums
  <2>4. CASE v = Record(o.num)
    <3>1. server' = server
      BY <1>5, <1>8, <2>4
    <3> QED BY <1>1, <1>2, <1>4, <1>6, <1>8, <2>1, <2>2, <2>3, <2>4, <3>1 DEF Writes, Known, v
  <2>5. CASE v # Record(o.num)
    <3>1. server' = [server EXCEPT ![n] = Append(server[n], v)]
      BY <1>5, <1>8, <2>5
    <3>2. /\ Append(server[n], v) \in Seq(Versions) /\ Len(Append(server[n], v)) = Len(server[n]) + 1
          /\ Append(server[n], v)[Len(server[n]) + 1] = v /\ Append(server[n], v) # <<>>
      BY <1>4, <2>2
    <3>3. Append(server[n], v) \in Hists
      BY <3>2 DEF Hists
    <3>4. server' \in Seq(Hists) /\ Len(server') = Len(server) /\ server'[n] = Append(server[n], v)
          /\ \A m \in Known \ {n} : server'[m] = server[m]
      BY <1>2, <2>1, <3>1, <3>3 DEF Known
    <3>5. \A m \in Known : Len(server[m]) <= Len(server'[m])
      BY <2>1, <2>2, <2>3, <3>2, <3>4
    <3>6. server'[n][Len(server'[n])] = v /\ n \in Known'
      BY <2>1, <2>2, <3>2, <3>4 DEF Known
    <3> QED BY <1>1, <1>2, <1>4, <1>6, <1>8, <3>4, <3>5, <3>6 DEF Writes, v
  <2> QED BY <2>4, <2>5
<1> QED BY <1>1, <1>2, <1>7, <1>8

(* The last version of each record after it.                               *)
LEMMA WritesRecord ==
  ASSUME PageTypes, PageTypes', NEW o \in Asks, Writes(o), NEW m \in Known'
  PROVE  Record(m)' = IF m = Target(o) THEN Outcome(o) ELSE Record(m)
<1>1. m # Nil /\ Nil \notin Known'
  BY NilApart DEF PageTypes, Known, Nums
<1>2. m # Target(o) => m \in Known
  <2>1. Len(server) \in Nat /\ Len(server') \in Nat
    BY NilApart DEF PageTypes, Nums
  <2> QED BY <1>1, <2>1 DEF Known, Writes, Target
<1>3. m = Target(o) => Record(m)' = Outcome(o)
  BY <1>1 DEF Writes, Record, Last
<1>4. m # Target(o) => Record(m)' = Record(m)
  BY <1>1, <1>2 DEF Writes, Record, Last
<1> QED BY <1>3, <1>4

(* What becomes of the request and of the page.                            *)
Answered(u, o, lost) ==
  CASE u = Nil -> {}
    [] lost -> {[o EXCEPT !.stage = "failed"]}
    [] OTHER -> {[o EXCEPT !.stage = "done", !.rd = [num |-> Target(o), from |-> 0]]}

Counted(u, o, lost) ==
  IF u # Nil /\ o.num = Nil
  THEN [page EXCEPT ![u].made = @ + 1, ![u].crossed = @ \/ lost] ELSE page

LEMMA ApplyTypes ==
  ASSUME PageTypes, ShapeInv, NEW u \in Senders, NEW o \in ops[u], NEW lost \in BOOLEAN, Apply(u, o, lost)
  PROVE  PageTypes' /\ ShapeInv'
<1>1. /\ Writes(o) /\ o \in Asks /\ AskShape(o) /\ o.stage = "sent" /\ o.rd = Nil
      /\ Len(server) \in Nums /\ Nums \subseteq Nat /\ Target(o) \in Nums
  BY ApplyWrites, NilApart DEF Writes
<1>2. /\ used' = [used EXCEPT !.faults = @ + IF lost THEN 1 ELSE 0]
      /\ journal' = IF o.what = "entry" THEN [journal EXCEPT ![Target(o)] = @ \cup {o.arg}] ELSE journal
      /\ ops' = [ops EXCEPT ![u] = (@ \ {o}) \cup Answered(u, o, lost)]
      /\ page' = Counted(u, o, lost)
      /\ asked' = [asked EXCEPT ![Target(o)] = Wish(o, @)]
      /\ muddled' \subseteq muddled \cup {Target(o)}
      /\ UNCHANGED <<plan, draft, wanted, home>>
      /\ lost => u # Nil
  BY DEF Apply, Target, Answered, Counted
<1>3. \A q \in Answered(u, o, lost) :
        /\ q \in Asks /\ u # Nil /\ q.id = o.id /\ q.what = o.what /\ q.num = o.num /\ q.first = o.first
        /\ q.item = o.item /\ q.arg = o.arg
        /\ IF lost THEN q.stage = "failed" /\ q.rd = Nil
           ELSE q.stage = "done" /\ q.rd = [num |-> Target(o), from |-> 0] /\ q.rd # Nil /\ q.rd.num = Target(o)
  <2>1. PICK r \in [num : Nums, from : Nat] : r = [num |-> Target(o), from |-> 0]
    BY <1>1
  <2>2. r \in [num : Nat, from : Nat]
    BY <1>1
  <2>3. r # Nil /\ r.num = Target(o)
    BY <2>1, <2>2, NilApart
  <2> SUFFICES ASSUME NEW q \in Answered(u, o, lost)
               PROVE  /\ q \in Asks /\ u # Nil /\ q.id = o.id /\ q.what = o.what /\ q.num = o.num
                      /\ q.first = o.first /\ q.item = o.item /\ q.arg = o.arg
                      /\ IF lost THEN q.stage = "failed" /\ q.rd = Nil
                         ELSE q.stage = "done" /\ q.rd = r /\ q.rd # Nil /\ q.rd.num = Target(o)
    BY <2>1
  <2>4. u # Nil
    BY <1>2 DEF Answered
  <2>5. CASE lost
    <3>1. q = [o EXCEPT !.stage = "failed"]
      BY <2>4, <2>5 DEF Answered
    <3> QED BY <1>1, <2>4, <2>5, <3>1 DEF Asks
  <2>6. CASE ~lost
    <3>1. q = [o EXCEPT !.stage = "done", !.rd = r]
      BY <2>1, <2>4, <2>6 DEF Answered
    <3> QED BY <1>1, <2>3, <2>4, <2>6, <3>1 DEF Asks
  <2> QED BY <2>5, <2>6
<1>4. ops' \in [Senders -> SUBSET Asks] /\ ops'[u] = (ops[u] \ {o}) \cup Answered(u, o, lost)
      /\ \A x \in Senders \ {u} : ops'[x] = ops[x]
  BY <1>2, <1>3 DEF PageTypes
<1>5. u # Nil => /\ u \in Tabs /\ Open(u) /\ page[u] \in Pages /\ page[u].made < Len(server)
  <2>1. u # Nil => u \in Tabs /\ Open(u)
    BY DEF Senders, ShapeInv
  <2> QED BY <2>1, MadeSmaller
<1>6. \A t \in Tabs : /\ Open(t) = Open(t)'
                      /\ Open(t) => /\ page'[t] \in Pages /\ page'[t].path = page[t].path
                                    /\ page'[t].num = page[t].num /\ page'[t].made < Len(server')
  <2> SUFFICES ASSUME NEW t \in Tabs
               PROVE /\ Open(t) = Open(t)'
                     /\ Open(t) => /\ page'[t] \in Pages /\ page'[t].path = page[t].path
                                   /\ page'[t].num = page[t].num /\ page'[t].made < Len(server')
    OBVIOUS
  <2>1. Len(server) \in Nat /\ Len(server') \in Nat /\ Len(server) <= Len(server') /\ Len(server') <= MaxRecords
    BY <1>1, NilApart DEF Writes, Target, Nums
  <2>2. CASE t = u /\ o.num = Nil
    <3> DEFINE p == [page[t] EXCEPT !.made = @ + 1, !.crossed = @ \/ lost]
    <3>1. page'[t] = p
      BY <1>2, <2>2, NilApart DEF Counted, PageTypes
    <3>2. Len(server') = Len(server) + 1 /\ page[t].made \in Nat /\ page[t].made < Len(server)
          /\ page[t] \in Pages
      BY <1>1, <1>5, <2>2, NilApart, PageFields DEF Writes
    <3>4. page[t].made + 1 \in 0 .. MaxRecords
      BY <2>1, <3>2, NilApart
    <3>3. p \in Pages /\ p.path = page[t].path /\ p.num = page[t].num /\ p.made = page[t].made + 1
      BY <3>2, <3>4 DEF Pages
    <3> QED BY <1>5, <2>1, <2>2, <3>1, <3>2, <3>3, NilApart DEF Open
  <2>3. CASE ~(t = u /\ o.num = Nil)
    <3>1. page'[t] = page[t]
      BY <1>2, <2>3 DEF Counted, PageTypes
    <3>2. Open(t) => page[t] \in Pages /\ page[t].made < Len(server) /\ page[t].made \in Nat
      BY MadeSmaller, PageFields
    <3> QED BY <2>1, <3>1, <3>2 DEF Open
  <2> QED BY <2>2, <2>3
<1>7. page' \in [Tabs -> Pages \cup {Nil}]
  BY <1>2, <1>6 DEF Counted, PageTypes, Open
<1>8. journal' \in [Nums -> SUBSET Texts]
  BY <1>1, <1>2 DEF PageTypes, AskShape
<1>9. asked' \in [Nums -> Versions]
  <2>1. \A w \in Versions : Wish(o, w) \in Versions
    BY <1>1 DEF Wish, Versions, AskShape, Lists
  <2> QED BY <1>1, <1>2, <2>1 DEF PageTypes
<1>10. used' \in [ops : Nat, opens : Nat, faults : Nat] /\ used'.ops = used.ops /\ used.ops \in Nat
  BY <1>2 DEF PageTypes
<1>11. PageTypes'
  <2>1. server' \in Seq(Hists) /\ Len(server') \in Nums
    <3>1. Len(server') \in {Len(server), Target(o)}
      BY <1>1 DEF Writes, Target
    <3> QED BY <1>1, <3>1 DEF Writes
  <2>2. /\ plan' \in Plans /\ draft' \in [Nums \cup {New} -> Box]
        /\ wanted' \in SUBSET Texts /\ home' \in [Texts -> 0 .. Astray \cup {Nil}]
    BY <1>2 DEF PageTypes
  <2>3. muddled' \in SUBSET Nums
    BY <1>1, <1>2 DEF PageTypes
  <2> QED BY <1>4, <1>7, <1>8, <1>9, <1>10, <2>1, <2>2, <2>3, Zenon DEF PageTypes
<1>12. Grows
  BY <1>1, <1>10 DEF Grows, Writes
<1>13. \A q \in Answered(u, o, lost) : AskShape(q)'
  <2>1. Target(o) \in Known' /\ Known \subseteq Known'
    BY <1>1 DEF Writes, Known
  <2> QED BY <1>1, <1>3, <1>10, <2>1 DEF AskShape, Edits, Lists, Target
<1>14. \A x \in Senders : \A q \in ops'[x] : AskShape(q)'
  <2>1. \A x \in Senders : \A q \in ops'[x] : (\E y \in Senders : q \in ops[y]) \/ AskShape(q)'
    BY <1>4, <1>13
  <2> QED BY <1>11, <1>12, <2>1, ShapesKept
<1>15. \A q \in ops'[Nil] : q.stage = "sent"
  BY <1>3, <1>4 DEF ShapeInv, Senders
<1>16. \A t \in Tabs : IF Open(t)' THEN {page'[t].path, page'[t].num} \subseteq Known' \cup {Nil}
                                        /\ page'[t].made < Len(server')
                       ELSE ops'[t] = {}
  <2>1. Known \subseteq Known'
    BY <1>1 DEF Writes, Known
  <2> QED BY <1>4, <1>5, <1>6, <2>1 DEF ShapeInv, Senders
<1> QED BY <1>11, <1>14, <1>15, <1>16 DEF ShapeInv

LEMMA RefuseTypes ==
  ASSUME PageTypes, ShapeInv, NEW u \in Senders, NEW o \in ops[u], RefuseRequest(u, o)
  PROVE  PageTypes' /\ ShapeInv'
<1>1. /\ u # Nil /\ u \in Tabs /\ o.stage = "sent" /\ o \in Asks /\ AskShape(o)
      /\ used' = [used EXCEPT !.faults = @ + 1]
      /\ UNCHANGED <<plan, server, journal, draft, page, recordHistory>>
  BY DEF RefuseRequest, Senders, PageTypes, ShapeInv
<1>2. PICK q \in Asks : q = [o EXCEPT !.stage = "failed"]
  BY <1>1 DEF Asks
<1>3. ops' \in [Senders -> SUBSET Asks] /\ ops'[u] = (ops[u] \ {o}) \cup {q}
      /\ \A x \in Senders \ {u} : ops'[x] = ops[x]
  BY <1>2 DEF RefuseRequest, PageTypes
<1>4. used' \in [ops : Nat, opens : Nat, faults : Nat] /\ used'.ops = used.ops /\ used.ops \in Nat
  BY <1>1 DEF PageTypes
<1>5. PageTypes'
  BY <1>1, <1>3, <1>4 DEF PageTypes, Hists, Senders, recordHistory
<1>6. AskShape(q)'
  BY <1>1, <1>2, <1>4 DEF AskShape, Asks, Known, Edits, Lists
<1>7. \A x \in ops'[u] : x \in ops[u] \/ AskShape(x)'
  BY <1>3, <1>6
<1>8. Open(u) /\ page[u] \in Pages /\ page[u] # Nil
  BY <1>1, OpenTyped, NilApart DEF ShapeInv
<1>9. page' = [page EXCEPT ![u] = page[u]] /\ {page[u].path, page[u].num} \subseteq Known \cup {Nil}
      /\ page[u].made < Len(server) /\ used.ops <= used'.ops
  BY <1>1, <1>4, <1>8, MadeSmaller DEF PageTypes
<1> QED BY <1>1, <1>3, <1>5, <1>7, <1>8, <1>9, ShapeOfPage

(* Every step keeps the types.                                             *)
LEMMA RecordStepTypes ==
  ASSUME PageTypes, ShapeInv, RecordCreateInv, Next
  PROVE  PageTypes' /\ ShapeInv'
<1>1. CASE NetworkStep
  BY <1>1, ApplyTypes, RefuseTypes DEF NetworkStep
<1>2. ASSUME NEW t \in Tabs, PageStep(t) PROVE PageTypes' /\ ShapeInv'
  <2>1. CASE \E n \in Known \cup {Nil} : OpenPage(t, n)
    BY <2>1, OpenPageTypes
  <2>2. CASE LeaveStep(t) \/ SaveJournalDraft(t) \/ \E w \in Box : TypeText(t, w)
    BY <2>2, LeavePageTypes, TextTypes
  <2>3. CASE SendStep(t) \/ ReadStep(t) \/ FinishStep(t) \/ DropStep(t)
    BY <2>3, RecordSendTypes, RecordReadTypes, FinishTypes, DropTypes
  <2>4. CASE \E o \in ops[t] : Created(t, o)
    BY <2>4, CreatedTypes
  <2> QED BY <1>2, <2>1, <2>2, <2>3, <2>4 DEF PageStep
<1> QED BY <1>1, <1>2, NextIsPages

(***************************************************************************)
(* A legacy record page: its record is created once.                       *)
(***************************************************************************)
LEMMA RecordInitCreate == Init => RecordCreateInv
BY DEF Init, RecordCreateInv, Open

LEMMA CreateOfPage ==
  ASSUME PageTypes, RecordCreateInv, NEW t \in Tabs, NEW p \in Pages \cup {Nil},
         page' = [page EXCEPT ![t] = p], \A u \in Tabs \ {t} : ops'[u] = ops[u],
         p # Nil => CreateOf(p, ops'[t])
  PROVE  RecordCreateInv'
<1> SUFFICES ASSUME NEW u \in Tabs, Open(u)' PROVE CreateOf(page'[u], ops'[u])
  BY DEF RecordCreateInv, CreateInv
<1>1. CASE u = t
  BY <1>1 DEF PageTypes, Open
<1>2. CASE u # t
  <2>1. page'[u] = page[u] /\ ops'[u] = ops[u]
    BY <1>2 DEF PageTypes
  <2> QED BY <2>1 DEF Open, RecordCreateInv, CreateInv
<1> QED BY <1>1, <1>2

LEMMA SendCreates ==
  ASSUME NEW p \in Pages, NEW r \in Pages, NEW asks \in SUBSET Asks, CreateOf(p, asks),
         NEW o \in Asks, MadeFrom(o, p), SameRecord(r, p), SameText(r, p), r.grant = p.grant,
         r.crossed = (p.crossed \/ (o.num = Nil /\ \E x \in asks : x.num = Nil)),
         p.num # Nil => p.num \in Nums, p.path # Nil => p.path \in Nums
  PROVE  CreateOf(r, asks \cup {o})
<1>1. /\ r.path = p.path /\ r.num = p.num /\ r.copy = p.copy /\ r.made = p.made
      /\ p.made \in Nat /\ p.crossed \in BOOLEAN
  BY PageFields, NilApart DEF SameRecord, SameText
<1>2. o.num \in {p.num, p.path} /\ (o.num = Nil <=> p.num = Nil)
  BY DEF MadeFrom
<1>3. CASE p.num = Nil
  <2>1. o.stage = "sent" /\ o.rd = Nil
    BY <1>2, <1>3 DEF MadeFrom, Edits, Lists
  <2>2. \A x \in asks : x.num = Nil /\ x.stage # "reading"
    BY <1>3 DEF CreateOf
  <2>3. CASE r.crossed
    BY <1>1, <1>2, <1>3, <2>1, <2>2, <2>3 DEF CreateOf
  <2>4. CASE ~r.crossed
    <3>1. asks = {} /\ ~p.crossed
      BY <1>2, <1>3, <2>2, <2>4
    <3>2. p.made = 0
      BY <1>1, <1>3, <3>1 DEF CreateOf
    <3> QED BY <1>1, <1>2, <1>3, <2>1, <2>4, <3>1, <3>2 DEF CreateOf
  <2> QED BY <2>3, <2>4
<1>4. CASE p.num # Nil
  <2>1. o.num # Nil /\ r.crossed = p.crossed /\ p.path # Nil
    BY <1>1, <1>2, <1>4 DEF CreateOf
  <2>2. o.rd # Nil => o.rd.num = o.num /\ o.num = p.num
    <3>1. CASE o.what = "poke"
      <4>1. o.rd.num = o.num /\ o.num = p.num
        BY <3>1 DEF MadeFrom
      <4> QED BY <4>1
    <3>2. CASE o.what # "poke"
      BY <3>2 DEF MadeFrom
    <3> QED BY <3>1, <3>2
  <2>3. o.stage = "reading" => o.rd.num = o.num /\ o.num = p.num
    <3>1. CASE o.what = "poke"
      BY <3>1 DEF MadeFrom
    <3>2. CASE o.what # "poke"
      BY <3>2 DEF MadeFrom
    <3> QED BY <3>1, <3>2
  <2>4. CASE p.crossed
    BY <1>1, <1>2, <1>4, <2>1, <2>3, <2>4 DEF CreateOf
  <2>5. CASE ~p.crossed
    BY <1>1, <1>2, <1>4, <2>1, <2>2, <2>5 DEF CreateOf
  <2> QED BY <2>4, <2>5
<1> QED BY <1>3, <1>4

(* The answer to a create.                                                 *)
LEMMA CreatedCreates ==
  ASSUME NEW p \in Pages, NEW r \in Pages, NEW asks \in SUBSET Asks, CreateOf(p, asks), NEW o \in asks,
         o.num = Nil, o.stage = "done", o.rd # Nil, o.rd.num \in Nums,
         r.path = o.rd.num, r.num = o.rd.num, r.made = p.made, r.crossed = p.crossed,
         NEW q \in Asks, q.num = o.rd.num, q.stage = "named", q.rd = o.rd
  PROVE  CreateOf(r, (asks \ {o}) \cup {q})
<1>1. o.rd.num > 1 /\ o.rd.num # Nil /\ p.made \in Nat /\ p.crossed \in BOOLEAN
  BY PageFields, NilApart DEF CreateOf
<1>2. CASE ~p.crossed
  <2>1. p.num = Nil
    BY <1>2 DEF CreateOf
  <2>2. \A x \in asks : x = o
    BY <1>2, <2>1 DEF CreateOf
  <2>3. (asks \ {o}) \cup {q} = {q} /\ p.made <= 1
    BY <1>2, <2>2 DEF CreateOf
  <2> QED BY <1>1, <1>2, <2>3 DEF CreateOf
<1>3. CASE p.crossed
  BY <1>1, <1>3 DEF CreateOf
<1> QED BY <1>2, <1>3

(* A read starts.                                                          *)
LEMMA ReadCreates ==
  ASSUME NEW p \in Pages, NEW asks \in SUBSET Asks, CreateOf(p, asks), NEW o \in asks,
         p.num # Nil, NEW q \in Asks, q.num = o.num, q.stage = "reading", q.rd # Nil, q.rd.num = p.num
  PROVE  CreateOf(p, (asks \ {o}) \cup {q})
<1>1. CASE ~p.crossed
  BY <1>1 DEF CreateOf
<1>2. CASE p.crossed
  BY <1>2 DEF CreateOf
<1> QED BY <1>1, <1>2

(* A request is over; another may follow.                                  *)
LEMMA FinishCreates ==
  ASSUME NEW p \in Pages, NEW r \in Pages, NEW asks \in SUBSET Asks, CreateOf(p, asks), NEW o \in asks,
         NEW more \in SUBSET Asks, r.path = p.path, r.made = p.made, r.crossed = p.crossed,
         \/ p.num = Nil /\ r.num = Nil /\ r.copy = Blank /\ ~r.grant /\ more = {} /\ o.stage # "done"
         \/ /\ p.num # Nil /\ r.num # Nil /\ (r.num = p.num \/ (r.num = o.rd.num /\ o.rd # Nil /\ o.stage = "reading"))
            /\ \A q \in more : q.num \in {r.num, r.path} /\ q.stage = "sent" /\ q.rd = Nil
  PROVE  CreateOf(r, (asks \ {o}) \cup more)
<1>1. p.crossed \in BOOLEAN /\ p.made \in Nat
  BY PageFields, NilApart
<1>2. CASE p.num = Nil
  <2>1. CASE ~p.crossed
    BY <1>1, <1>2, <2>1 DEF CreateOf, Blank
  <2>2. CASE p.crossed
    BY <1>1, <1>2, <2>2 DEF CreateOf, Blank
  <2> QED BY <1>1, <2>1, <2>2
<1>3. CASE p.num # Nil
  <2>1. CASE ~p.crossed
    <3>1. r.num = p.num /\ r.path = r.num
      BY <1>3, <2>1 DEF CreateOf
    <3>2. \A q \in more : q.num = p.num /\ q.rd = Nil
      BY <1>3, <3>1
    <3> QED BY <1>1, <1>3, <2>1, <3>1, <3>2 DEF CreateOf
  <2>2. CASE p.crossed
    <3>1. r.num > 1 /\ r.path > 1
      BY <1>3, <2>2 DEF CreateOf
    <3>2. \A q \in more : q.num > 1 /\ q.stage = "sent" /\ q.num # Nil
      BY <1>3, <2>2, <3>1 DEF CreateOf
    <3> QED BY <1>1, <1>3, <2>2, <3>1, <3>2 DEF CreateOf
  <2> QED BY <1>1, <2>1, <2>2
<1> QED BY <1>2, <1>3

(* The server acts on a request.                                           *)
LEMMA ApplyCreates ==
  ASSUME NEW p \in Pages, NEW r \in Pages, NEW asks \in SUBSET Asks, CreateOf(p, asks), NEW o \in asks,
         o.stage = "sent", NEW lost \in BOOLEAN, NEW q \in Asks, q.num = o.num,
         NEW n \in Nat, o.num = Nil => n > 1, o.num # Nil => n = o.num,
         IF lost THEN q.stage = "failed" /\ q.rd = Nil ELSE q.stage = "done" /\ q.rd # Nil /\ q.rd.num = n,
         r.path = p.path, r.num = p.num, r.copy = p.copy, r.grant = p.grant,
         IF o.num = Nil THEN r.made = p.made + 1 /\ r.crossed = (p.crossed \/ lost)
                        ELSE r.made = p.made /\ r.crossed = p.crossed
  PROVE  CreateOf(r, (asks \ {o}) \cup {q})
<1>1. p.crossed \in BOOLEAN /\ p.made \in Nat
  BY PageFields, NilApart
<1>2. CASE p.crossed
  <2>1. r.crossed
    BY <1>1, <1>2
  <2>2. /\ q.num # Nil => q.num > 1
        /\ q.stage # "reading" /\ (q.num = Nil /\ q.stage = "done" => q.rd.num > 1)
    BY <1>2 DEF CreateOf
  <2>3. p.num = Nil => \A x \in (asks \ {o}) \cup {q} : x.num = Nil /\ x.stage # "reading"
    BY <2>2 DEF CreateOf
  <2>4. /\ \A x \in (asks \ {o}) \cup {q} : x.num = Nil /\ x.stage = "done" => x.rd.num > 1
        /\ \A x \in (asks \ {o}) \cup {q} :
              (x.num # Nil => x.num > 1) /\ (x.stage = "reading" => x.rd.num > 1)
    BY <1>2, <2>2 DEF CreateOf
  <2> QED BY <1>2, <2>1, <2>3, <2>4 DEF CreateOf
<1>3. CASE ~p.crossed /\ o.num = Nil
  <2>1. p.num = Nil /\ p.made = 0
    BY <1>3 DEF CreateOf
  <2>2. (asks \ {o}) \cup {q} = {q}
    BY <1>3, <2>1 DEF CreateOf
  <2>3. CASE lost
    BY <1>1, <1>3, <2>1, <2>2, <2>3 DEF CreateOf
  <2>4. CASE ~lost
    BY <1>1, <1>3, <2>1, <2>2, <2>4 DEF CreateOf
  <2> QED BY <2>3, <2>4
<1>4. CASE ~p.crossed /\ o.num # Nil
  <2>1. p.num # Nil /\ o.num = p.num
    BY <1>4 DEF CreateOf
  <2> QED BY <1>1, <1>4, <2>1 DEF CreateOf
<1> QED BY <1>1, <1>2, <1>3, <1>4

(* Each kind of step keeps this.                                           *)
LEMMA OpenKeepsCreate ==
  ASSUME PageTypes, ShapeInv, RecordCreateInv, NEW t \in Tabs, NEW n \in Known \cup {Nil}, OpenPage(t, n)
  PROVE  RecordCreateInv'
<1>1. PICK p \in Pages :
        /\ page' = [page EXCEPT ![t] = p]
        /\ p.path = n /\ p.num = n /\ p.copy = Record(n) /\ p.grant = Record(n).grant
        /\ p.made = 0 /\ ~p.crossed
  BY OpenedPage
<1>2. ops' = ops /\ ops[t] = {}
  BY DEF OpenPage, ShapeInv
<1>3. CreateOf(p, {})
  BY <1>1, NilApart DEF CreateOf, Record, Blank
<1> QED BY <1>1, <1>2, <1>3, CreateOfPage

LEMMA LeaveKeepsCreate ==
  ASSUME PageTypes, RecordCreateInv, NEW t \in Tabs, LeaveStep(t)
  PROVE  RecordCreateInv'
<1>1. page' = [page EXCEPT ![t] = Nil] /\ Abandon(t)
  BY DEF LeaveStep, ClosePage, KillTab
<1>2. \A u \in Tabs \ {t} : ops'[u] = ops[u]
  BY <1>1, Abandoned
<1> QED BY <1>1, <1>2, CreateOfPage

LEMMA TextKeepsCreate ==
  ASSUME PageTypes, RecordCreateInv, NEW t \in Tabs, (\E w \in Box : TypeText(t, w)) \/ SaveJournalDraft(t)
  PROVE  RecordCreateInv'
<1>1. PICK p \in Pages :
        /\ Open(t) /\ page' = [page EXCEPT ![t] = p] /\ SameRecord(p, page[t]) /\ p.made = page[t].made
        /\ p.crossed = page[t].crossed /\ p.grant = page[t].grant /\ ops' = ops
  BY TextPage
<1>2. CreateOf(page[t], ops[t])
  BY <1>1 DEF RecordCreateInv, CreateInv
<1>3. CreateOf(p, ops[t])
  BY <1>1, <1>2 DEF CreateOf, SameRecord
<1> QED BY <1>1, <1>3, CreateOfPage

LEMMA SendKeepsCreate ==
  ASSUME PageTypes, ShapeInv, RecordCreateInv, NEW t \in Tabs, SendStep(t)
  PROVE  RecordCreateInv'
<1>1. PICK o \in Asks, p \in Pages :
    /\ Open(t) /\ MadeFrom(o, page[t]) /\ ops' = [ops EXCEPT ![t] = @ \cup {o}]
    /\ page' = [page EXCEPT ![t] = p]
    /\ SameRecord(p, page[t]) /\ SameText(p, page[t]) /\ p.grant = page[t].grant
    /\ p.crossed = (page[t].crossed \/ (o.num = Nil /\ Creating(t)))
  BY DEF SendStep
<1>2. CreateOf(page[t], ops[t]) /\ page[t] \in Pages /\ ops[t] \in SUBSET Asks
      /\ (page[t].num # Nil => page[t].num \in Nums) /\ (page[t].path # Nil => page[t].path \in Nums)
  BY <1>1, MadeSmaller DEF RecordCreateInv, CreateInv, PageTypes, Senders
<1>3. CreateOf(p, ops[t] \cup {o})
  BY <1>1, <1>2, SendCreates DEF Creating
<1>4. ops'[t] = ops[t] \cup {o} /\ \A u \in Tabs \ {t} : ops'[u] = ops[u]
  BY <1>1 DEF PageTypes, Senders
<1> QED BY <1>1, <1>3, <1>4, CreateOfPage

(* The answer to a create, with the request it becomes.                    *)
LEMMA CreatedPage ==
  ASSUME PageTypes, ShapeInv, RecordCreateInv, NEW t \in Tabs, NEW o \in ops[t], Created(t, o)
  PROVE  \E p \in Pages, q \in Asks :
           /\ Open(t) /\ page[t] \in Pages /\ o \in Asks /\ AskShape(o) /\ CreateInv(t)
           /\ o.rd.num \in Known /\ o.rd.num \in Nums /\ o.rd.num # Nil /\ o.rd # Nil
           /\ o.num = Nil /\ o.stage = "done"
           /\ page' = [page EXCEPT ![t] = p] /\ p.path = o.rd.num /\ p.num = o.rd.num
           /\ SameText(p, page[t]) /\ p.copy = page[t].copy /\ p.crossed = page[t].crossed
           /\ p.grant = page[t].grant /\ p.rows = page[t].rows /\ p.removed = page[t].removed
           /\ q.num = o.rd.num /\ q.stage = "named" /\ q.rd = o.rd
           /\ q.id = o.id /\ q.what = o.what /\ q.first = o.first /\ q.item = o.item /\ q.arg = o.arg
           /\ ops'[t] = (ops[t] \ {o}) \cup {q} /\ \A u \in Senders \ {t} : ops'[u] = ops[u]
<1>1. Open(t) /\ page[t] \in Pages /\ o \in Asks /\ AskShape(o) /\ CreateInv(t)
  BY AskerOpen
<1>2. o.rd.num \in Known /\ o.rd.num \in Nums /\ o.rd.num # Nil /\ o.rd # Nil /\ o.num = Nil /\ o.stage = "done"
  BY <1>1, MadeSmaller, NilApart DEF Created, AskShape
<1>3. PICK p \in Pages : p = [page[t] EXCEPT !.path = o.rd.num, !.num = o.rd.num]
  BY <1>1, <1>2 DEF Pages, Numbers
<1>4. PICK q \in Asks : q = [o EXCEPT !.stage = "named", !.num = o.rd.num]
  BY <1>1, <1>2 DEF Asks, Numbers
<1>5. page' = [page EXCEPT ![t] = p]
  BY <1>1, <1>3 DEF Created, StoreNumber, PageTypes, Pages
<1>6. ops'[t] = (ops[t] \ {o}) \cup {q} /\ \A u \in Senders \ {t} : ops'[u] = ops[u]
  BY <1>4 DEF Created, PageTypes, Senders
<1>7. /\ p.path = o.rd.num /\ p.num = o.rd.num /\ SameText(p, page[t]) /\ p.copy = page[t].copy
      /\ p.crossed = page[t].crossed /\ p.grant = page[t].grant /\ p.rows = page[t].rows
      /\ p.removed = page[t].removed
  BY <1>1, <1>3 DEF Pages, SameText
<1>8. /\ q.num = o.rd.num /\ q.stage = "named" /\ q.rd = o.rd
      /\ q.id = o.id /\ q.what = o.what /\ q.first = o.first /\ q.item = o.item /\ q.arg = o.arg
  BY <1>1, <1>4 DEF Asks
<1> QED BY <1>1, <1>2, <1>5, <1>6, <1>7, <1>8

LEMMA CreatedKeepsCreate ==
  ASSUME PageTypes, ShapeInv, RecordCreateInv, NEW t \in Tabs, NEW o \in ops[t], Created(t, o)
  PROVE  RecordCreateInv'
<1>1. PICK p \in Pages, q \in Asks :
           /\ page[t] \in Pages /\ CreateInv(t)
           /\ o.rd.num \in Nums /\ o.rd # Nil /\ o.num = Nil /\ o.stage = "done"
           /\ page' = [page EXCEPT ![t] = p] /\ p.path = o.rd.num /\ p.num = o.rd.num
           /\ SameText(p, page[t]) /\ p.crossed = page[t].crossed
           /\ q.num = o.rd.num /\ q.stage = "named" /\ q.rd = o.rd
           /\ ops'[t] = (ops[t] \ {o}) \cup {q} /\ \A u \in Senders \ {t} : ops'[u] = ops[u]
  BY CreatedPage
<1>2. ops[t] \in SUBSET Asks
  BY DEF PageTypes, Senders
<1>3. CreateOf(p, (ops[t] \ {o}) \cup {q})
  BY <1>1, <1>2, CreatedCreates DEF CreateInv, SameText
<1> QED BY <1>1, <1>3, CreateOfPage DEF Senders

(* The read an answer starts.                                              *)
LEMMA ReadAsks ==
  ASSUME PageTypes, ShapeInv, RecordCreateInv, NEW t \in Tabs, ReadStep(t)
  PROVE  \E o \in ops[t], q \in Asks :
    /\ Open(t) /\ page[t] \in Pages /\ o \in Asks /\ AskShape(o) /\ CreateInv(t)
    /\ page[t].num \in Known /\ page[t].num # Nil /\ page[t].num \in Nums
    /\ o.stage \in {"done", "named", "failed"} /\ (o.stage = "done" => o.num # Nil)
    /\ Edits(o) \/ o.what \in {"file", "strike"}
    /\ q.id = o.id /\ q.what = o.what /\ q.num = o.num /\ q.first = o.first /\ q.item = o.item /\ q.arg = o.arg
    /\ q.stage = "reading" /\ q.rd # Nil /\ q.rd.num = page[t].num
    /\ q.rd.from = Len(server[page[t].num])
    /\ ops'[t] = (ops[t] \ {o}) \cup {q} /\ \A u \in Senders \ {t} : ops'[u] = ops[u]
    /\ UNCHANGED <<plan, server, journal, draft, page, used, recordHistory>>
<1>1. PICK o \in ops[t], err \in BOOLEAN :
    /\ Open(t) /\ page[t].num # Nil
    /\ o.stage \in {"done", "named", "failed"} /\ (o.stage = "done" => o.num # Nil)
    /\ Edits(o) \/ o.what \in {"file", "strike"}
    /\ ops' = [ops EXCEPT ![t] = (@ \ {o}) \cup
            {[o EXCEPT !.stage = "reading", !.err = err,
                       !.rd = [num |-> page[t].num, from |-> Len(server[page[t].num])]]}]
    /\ UNCHANGED <<plan, server, journal, draft, page, used, recordHistory>>
  BY DEF ReadStep
<1>2. /\ Open(t) /\ page[t] \in Pages /\ o \in Asks /\ AskShape(o) /\ CreateInv(t)
      /\ page[t].num \in Known /\ page[t].num \in Nums
  BY <1>1, AskerOpen
<1>3. Len(server[page[t].num]) \in Nat \ {0}
  BY <1>1, <1>2, RecordTyped
<1>4. PICK r \in [num : Nums, from : Nat] :
        r = [num |-> page[t].num, from |-> Len(server[page[t].num])]
  BY <1>2, <1>3
<1>5. r # Nil /\ r.num = page[t].num /\ r.from = Len(server[page[t].num])
  <2>1. [num : Nums, from : Nat] \subseteq [num : Nat, from : Nat]
    BY NilApart
  <2> QED BY <1>4, <2>1, NilApart
<1>6. PICK q \in Asks : q = [o EXCEPT !.stage = "reading", !.err = err, !.rd = r]
  BY <1>2 DEF Asks
<1>7. q.id = o.id /\ q.what = o.what /\ q.num = o.num /\ q.first = o.first /\ q.item = o.item
      /\ q.arg = o.arg /\ q.stage = "reading" /\ q.rd = r
  BY <1>2, <1>6 DEF Asks
<1>8. ops'[t] = (ops[t] \ {o}) \cup {q} /\ \A u \in Senders \ {t} : ops'[u] = ops[u]
  BY <1>1, <1>4, <1>6 DEF PageTypes, Senders
<1> QED BY <1>1, <1>2, <1>5, <1>7, <1>8

LEMMA ReadKeepsCreate ==
  ASSUME PageTypes, ShapeInv, RecordCreateInv, NEW t \in Tabs, ReadStep(t)
  PROVE  RecordCreateInv'
<1>1. PICK o \in ops[t], q \in Asks :
    /\ page[t] \in Pages /\ CreateInv(t) /\ page[t].num # Nil
    /\ q.num = o.num /\ q.stage = "reading" /\ q.rd # Nil /\ q.rd.num = page[t].num
    /\ ops'[t] = (ops[t] \ {o}) \cup {q} /\ \A u \in Senders \ {t} : ops'[u] = ops[u]
    /\ UNCHANGED page
  BY ReadAsks
<1>2. CreateOf(page[t], (ops[t] \ {o}) \cup {q})
  <2>1. ops[t] \in SUBSET Asks
    BY DEF PageTypes, Senders
  <2> QED BY <1>1, <2>1, ReadCreates DEF CreateInv
<1>3. page' = [page EXCEPT ![t] = page[t]]
  BY <1>1 DEF PageTypes
<1>4. CreateOf(page[t], ops'[t]) /\ \A u \in Tabs \ {t} : ops'[u] = ops[u]
  BY <1>1, <1>2, Zenon DEF Senders
<1> QED BY <1>1, <1>3, <1>4, CreateOfPage, Zenon

LEMMA FinishKeepsCreate ==
  ASSUME PageTypes, ShapeInv, RecordCreateInv, NEW t \in Tabs, FinishStep(t)
  PROVE  RecordCreateInv'
<1>1. PICK o \in ops[t], p \in Pages, err \in BOOLEAN :
    /\ Finish(t, o, p, err) /\ Redraws(p, page[t]) /\ o \in Asks /\ AskShape(o)
    /\ Open(t) /\ page[t] \in Pages /\ CreateInv(t)
    /\ \/ page[t].num = Nil /\ o.stage = "failed" /\ err /\ p.num = Nil /\ p.copy = Blank
       \/ o.stage = "reading" /\ p.num = o.rd.num
       \/ o.stage = "reading" /\ p.num = page[t].num
    /\ o.stage = "reading" \/ err
    /\ o.stage = "reading" => page[t].num # Nil /\ p.num # Nil /\ p.path # Nil /\ o.rd # Nil
  BY FinishCases
<1>2. PICK r \in Pages : r = Returned(o, p, err)
  BY <1>1, ReturnChanges
<1>3. /\ page' = [page EXCEPT ![t] = r]
      /\ \A u \in Senders \ {t} : ops'[u] = ops[u]
      /\ ops'[t] = (ops[t] \ {o}) \cup Follow(o, p, err)
      /\ \A q \in Follow(o, p, err) : q \in Asks /\ Followed(q, o, p) /\ o.first /\ ~err
  BY <1>1, <1>2, Finishing
<1>4. r.path = p.path /\ r.num = p.num /\ r.made = p.made /\ r.copy = p.copy /\ r.crossed = p.crossed
      /\ r.grant = p.grant
  BY <1>1, <1>2, ReturnChanges DEF SameRecord
<1>5. p.path = page[t].path /\ p.made = page[t].made /\ p.crossed = page[t].crossed
      /\ (p.grant = p.copy.grant \/ p.grant = page[t].grant)
  BY <1>1 DEF Redraws, SameText
<1>6. Follow(o, p, err) \in SUBSET Asks /\ ops[t] \in SUBSET Asks
  BY <1>3 DEF PageTypes, Senders
<1>7. CreateOf(r, (ops[t] \ {o}) \cup Follow(o, p, err))
  <2>1. CASE page[t].num = Nil /\ o.stage = "failed" /\ err /\ p.num = Nil /\ p.copy = Blank
    <3>1. Follow(o, p, err) = {}
      BY <2>1 DEF Follow
    <3>2. ~r.grant
      <4>1. ~page[t].grant /\ ~Blank.grant
        BY <1>1, <2>1 DEF CreateInv, CreateOf, Blank
      <4>2. r.grant = Blank.grant \/ r.grant = page[t].grant
        BY <1>4, <1>5, <2>1
      <4> QED BY <4>1, <4>2
    <3> QED BY <1>1, <1>4, <1>5, <1>6, <2>1, <3>1, <3>2, FinishCreates DEF CreateInv
  <2>2. CASE o.stage = "reading"
    <3>1. \A q \in Follow(o, p, err) : q.num \in {r.num, r.path} /\ q.stage = "sent" /\ q.rd = Nil
      BY <1>3, <1>4 DEF Followed
    <3>2. r.num = page[t].num \/ (r.num = o.rd.num /\ o.rd # Nil /\ o.stage = "reading")
      BY <1>1, <1>4, <2>2
    <3> QED BY <1>1, <1>4, <1>5, <1>6, <2>2, <3>1, <3>2, FinishCreates DEF CreateInv
  <2> QED BY <1>1, <2>1, <2>2
<1> QED BY <1>3, <1>7, CreateOfPage DEF Senders

LEMMA DropKeepsCreate ==
  ASSUME PageTypes, ShapeInv, RecordCreateInv, NEW t \in Tabs, DropStep(t)
  PROVE  RecordCreateInv'
<1>1. PICK o \in ops[t], p \in Pages :
    /\ ~Edits(o) /\ ops' = [ops EXCEPT ![t] = @ \ {o}] /\ page' = [page EXCEPT ![t] = p]
    /\ SameRecord(p, page[t]) /\ SameText(p, page[t]) /\ p.crossed = page[t].crossed
  BY DEF DropStep
<1>2. CreateOf(page[t], ops[t]) /\ page[t].num # Nil
  BY <1>1, AskerOpen DEF AskShape, CreateInv
<1>3. CreateOf(p, ops[t] \ {o})
  BY <1>1, <1>2 DEF CreateOf, SameRecord, SameText
<1>4. ops'[t] = ops[t] \ {o} /\ \A u \in Tabs \ {t} : ops'[u] = ops[u]
  BY <1>1 DEF PageTypes, Senders
<1> QED BY <1>1, <1>3, <1>4, CreateOfPage

(* The answer to a request the server has acted on.                        *)
LEMMA ApplyAnswers ==
  ASSUME PageTypes, ShapeInv, NEW u \in Tabs, NEW o \in ops[u], NEW lost \in BOOLEAN, Apply(u, o, lost)
  PROVE  /\ Open(u) /\ page[u] \in Pages
         /\ \A x \in Senders \ {u} : ops'[x] = ops[x]
         /\ \E q \in Asks :
              /\ ops'[u] = (ops[u] \ {o}) \cup {q}
              /\ q.id = o.id /\ q.what = o.what /\ q.num = o.num /\ q.first = o.first
              /\ q.item = o.item /\ q.arg = o.arg
              /\ IF lost THEN q.stage = "failed" /\ q.rd = Nil
                 ELSE q.stage = "done" /\ q.rd # Nil /\ q.rd.num = Target(o)
<1>1. Open(u) /\ page[u] \in Pages /\ u \in Senders /\ u # Nil
  BY OpenTyped, NilApart DEF ShapeInv, Senders
<1>2. o \in Asks /\ o.rd = Nil /\ Target(o) \in Nums /\ Nums \subseteq Nat
  BY <1>1, ApplyWrites, NilApart DEF Writes
<1>3. ops' = [ops EXCEPT ![u] = (@ \ {o}) \cup Answered(u, o, lost)]
  BY DEF Apply, Answered, Target
<1>4. CASE lost
  <2>1. Answered(u, o, lost) = {[o EXCEPT !.stage = "failed"]}
    BY <1>1, <1>4 DEF Answered
  <2>2. PICK q \in Asks : q = [o EXCEPT !.stage = "failed"]
    BY <1>2 DEF Asks
  <2>3. /\ q.id = o.id /\ q.what = o.what /\ q.num = o.num /\ q.first = o.first
        /\ q.item = o.item /\ q.arg = o.arg /\ q.stage = "failed" /\ q.rd = Nil
    BY <1>2, <2>2 DEF Asks
  <2>4. ops'[u] = (ops[u] \ {o}) \cup {q} /\ \A x \in Senders \ {u} : ops'[x] = ops[x]
    BY <1>1, <1>3, <2>1, <2>2 DEF PageTypes
  <2> QED BY <1>1, <1>4, <2>3, <2>4
<1>5. CASE ~lost
  <2>1. PICK r \in [num : Nums, from : Nat] : r = [num |-> Target(o), from |-> 0]
    BY <1>2
  <2>2. r \in [num : Nat, from : Nat]
    BY <1>2
  <2>3. r # Nil /\ r.num = Target(o)
    BY <2>1, <2>2, NilApart
  <2>4. Answered(u, o, lost) = {[o EXCEPT !.stage = "done", !.rd = r]}
    BY <1>1, <1>5, <2>1 DEF Answered
  <2>5. PICK q \in Asks : q = [o EXCEPT !.stage = "done", !.rd = r]
    BY <1>2 DEF Asks
  <2>6. /\ q.id = o.id /\ q.what = o.what /\ q.num = o.num /\ q.first = o.first
        /\ q.item = o.item /\ q.arg = o.arg /\ q.stage = "done" /\ q.rd = r
    BY <1>2, <2>5 DEF Asks
  <2>7. ops'[u] = (ops[u] \ {o}) \cup {q} /\ \A x \in Senders \ {u} : ops'[x] = ops[x]
    BY <1>1, <1>3, <2>4, <2>5 DEF PageTypes
  <2> QED BY <1>1, <1>5, <2>3, <2>6, <2>7
<1> QED BY <1>4, <1>5

(* And the page of a create counts it.                                     *)
LEMMA ApplyPage ==
  ASSUME PageTypes, ShapeInv, NEW u \in Tabs, NEW o \in ops[u], NEW lost \in BOOLEAN, Apply(u, o, lost)
  PROVE  \E r \in Pages :
           /\ page' = [page EXCEPT ![u] = r]
           /\ SameRecord(r, page[u]) /\ r.box = page[u].box /\ r.timer = page[u].timer
           /\ r.grant = page[u].grant /\ r.rows = page[u].rows /\ r.removed = page[u].removed
           /\ IF o.num = Nil THEN r.made = page[u].made + 1 /\ r.crossed = (page[u].crossed \/ lost)
                             ELSE r.made = page[u].made /\ r.crossed = page[u].crossed
<1>1. Open(u) /\ page[u] \in Pages /\ u # Nil
  BY OpenTyped, NilApart DEF ShapeInv
<1>2. page' = IF o.num = Nil THEN [page EXCEPT ![u].made = @ + 1, ![u].crossed = @ \/ lost] ELSE page
  BY <1>1 DEF Apply
<1>3. CASE o.num = Nil
  <2> DEFINE r == [page[u] EXCEPT !.made = @ + 1, !.crossed = @ \/ lost]
  <2>1. page' = [page EXCEPT ![u] = r]
    BY <1>1, <1>2, <1>3 DEF PageTypes, Pages
  <2>2. /\ SameRecord(r, page[u]) /\ r.box = page[u].box /\ r.timer = page[u].timer
        /\ r.grant = page[u].grant /\ r.rows = page[u].rows /\ r.removed = page[u].removed
        /\ r.made = page[u].made + 1 /\ r.crossed = (page[u].crossed \/ lost)
    BY <1>1 DEF SameRecord, Pages
  <2>3. page[u].made + 1 \in 0 .. MaxRecords /\ (page[u].crossed \/ lost) \in BOOLEAN
    BY <1>1, MadeSmaller, PageFields, NilApart
  <2>4. r \in Pages
    BY <1>1, <2>3 DEF Pages
  <2> HIDE DEF r
  <2> QED BY <1>3, <2>1, <2>2, <2>4
<1>4. CASE o.num # Nil
  BY <1>1, <1>2, <1>4 DEF PageTypes, SameRecord
<1> QED BY <1>3, <1>4

LEMMA ApplyKeepsCreate ==
  ASSUME PageTypes, ShapeInv, RecordCreateInv, NEW u \in Senders, NEW o \in ops[u], NEW lost \in BOOLEAN,
         Apply(u, o, lost)
  PROVE  RecordCreateInv'
<1>1. CASE u = Nil
  <2>1. page' = page /\ ops' = [ops EXCEPT ![u] = (@ \ {o}) \cup Answered(u, o, lost)]
    BY <1>1 DEF Apply, Answered, Target
  <2>2. \A t \in Tabs : ops'[t] = ops[t]
    BY <1>1, <2>1, NilApart DEF PageTypes
  <2> QED BY <2>1, <2>2 DEF RecordCreateInv, CreateInv, Open
<1>2. CASE u # Nil
  <2>1. u \in Tabs
    BY <1>2 DEF Senders
  <2>2. /\ Open(u) /\ page[u] \in Pages /\ \A x \in Senders \ {u} : ops'[x] = ops[x]
    BY <2>1, ApplyAnswers
  <2>3. PICK q \in Asks :
              /\ ops'[u] = (ops[u] \ {o}) \cup {q} /\ q.num = o.num
              /\ IF lost THEN q.stage = "failed" /\ q.rd = Nil
                 ELSE q.stage = "done" /\ q.rd # Nil /\ q.rd.num = Target(o)
    BY <2>1, ApplyAnswers
  <2>4. PICK r \in Pages :
           /\ page' = [page EXCEPT ![u] = r] /\ SameRecord(r, page[u]) /\ r.grant = page[u].grant
           /\ IF o.num = Nil THEN r.made = page[u].made + 1 /\ r.crossed = (page[u].crossed \/ lost)
                             ELSE r.made = page[u].made /\ r.crossed = page[u].crossed
    BY <2>1, ApplyPage
  <2>5. o.stage = "sent" /\ Target(o) \in Nat /\ (o.num = Nil => Target(o) > 1) /\ (o.num # Nil => Target(o) = o.num)
    BY ApplyWrites, NilApart DEF Writes, Target, Nums
  <2>6. ops[u] \in SUBSET Asks /\ CreateOf(page[u], ops[u])
    BY <2>1, <2>2 DEF PageTypes, RecordCreateInv, CreateInv
  <2>7. CreateOf(r, (ops[u] \ {o}) \cup {q})
    BY <2>2, <2>3, <2>4, <2>5, <2>6, ApplyCreates DEF SameRecord
  <2> QED BY <2>1, <2>2, <2>3, <2>4, <2>7, CreateOfPage DEF Senders
<1> QED BY <1>1, <1>2

LEMMA RefuseKeepsCreate ==
  ASSUME PageTypes, ShapeInv, RecordCreateInv, NEW u \in Senders, NEW o \in ops[u], RefuseRequest(u, o)
  PROVE  RecordCreateInv'
<1>1. /\ u # Nil /\ u \in Tabs /\ o.stage = "sent" /\ o \in Asks /\ AskShape(o) /\ page' = page /\ Open(u)
      /\ page[u] \in Pages /\ ops[u] \in SUBSET Asks
  BY OpenTyped DEF RefuseRequest, Senders, PageTypes, ShapeInv
<1>2. PICK q \in Asks : q = [o EXCEPT !.stage = "failed"]
  BY <1>1 DEF Asks
<1>3. ops'[u] = (ops[u] \ {o}) \cup {q} /\ \A x \in Senders \ {u} : ops'[x] = ops[x]
  BY <1>2 DEF RefuseRequest, PageTypes
<1>4. q.num = o.num /\ q.stage = "failed" /\ q.rd = Nil
  BY <1>1, <1>2 DEF Asks, AskShape
<1>5. CreateOf(page[u], (ops[u] \ {o}) \cup {q})
  <2>1. CreateOf(page[u], ops[u])
    BY <1>1 DEF RecordCreateInv, CreateInv
  <2>2. CASE page[u].crossed
    BY <1>1, <1>4, <2>1, <2>2 DEF CreateOf
  <2>3. CASE ~page[u].crossed /\ page[u].num = Nil
    <3>1. (ops[u] \ {o}) \cup {q} = {q} /\ page[u].made = 0 /\ q.num = Nil
      BY <1>1, <1>4, <2>1, <2>3 DEF CreateOf
    <3> QED BY <1>1, <1>4, <2>1, <2>3, <3>1 DEF CreateOf
  <2>4. CASE ~page[u].crossed /\ page[u].num # Nil
    BY <1>1, <1>4, <2>1, <2>4 DEF CreateOf
  <2> QED BY <2>2, <2>3, <2>4
<1>6. page' = [page EXCEPT ![u] = page[u]]
  BY <1>1 DEF PageTypes
<1> QED BY <1>1, <1>3, <1>5, <1>6, CreateOfPage DEF Senders

LEMMA RecordStepCreate ==
  ASSUME PageTypes, ShapeInv, RecordCreateInv, Next
  PROVE  RecordCreateInv'
<1>1. CASE NetworkStep
  BY <1>1, ApplyKeepsCreate, RefuseKeepsCreate DEF NetworkStep
<1>2. ASSUME NEW t \in Tabs, PageStep(t) PROVE RecordCreateInv'
  BY <1>2, OpenKeepsCreate, LeaveKeepsCreate, TextKeepsCreate, SendKeepsCreate, CreatedKeepsCreate,
     ReadKeepsCreate, FinishKeepsCreate, DropKeepsCreate DEF PageStep
<1> QED BY <1>1, <1>2, NextIsPages

RecordBase == PageTypes /\ ShapeInv /\ RecordCreateInv

LEMMA RecordBaseIdle ==
  ASSUME RecordBase, UNCHANGED vars
  PROVE  RecordBase'
BY DEF RecordBase, vars, recordHistory, PageTypes, Hists, Senders, ShapeInv, AskShape, RecordCreateInv, CreateInv,
       Open, Known, Edits, Lists

LEMMA RecordBaseHolds == Spec => []RecordBase
<1>1. Init => RecordBase
  BY RecordInitTypes, RecordInitCreate DEF RecordBase
<1>2. RecordBase /\ [Next]_vars => RecordBase'
  BY RecordStepTypes, RecordStepCreate, RecordBaseIdle DEF RecordBase
<1> QED BY <1>1, <1>2, PTL DEF Spec

(* A page creates one record, whatever of its edits, attachments and       *)
(* failures comes when, unless two creates crossed or an answer was lost.  *)
THEOREM RecordCreatesOnce == Spec => []CreatedOnce
<1>1. RecordBase => CreatedOnce
  BY RecordTypesSuffice, OpenTyped DEF RecordBase, CreatedOnce, RecordCreateInv, CreateInv, CreateOf
<1> QED BY <1>1, RecordBaseHolds, PTL

(***************************************************************************)
(* A legacy record page: a text stays with the record it was typed for.    *)
(***************************************************************************)
BoxHome(p) ==
  p.box # Nil => MayGo(home[p.box], p.path) /\ (p.crossed => home[p.box] \in {New, Astray})

EntryHome(o) == o.what = "entry" => MayGo(home[o.arg], o.num)

KeptHome(d) ==
  \A w \in Texts : /\ \A n \in Nums : d[n] = w => MayGo(home[w], n)
                   /\ d[New] = w => MayGo(home[w], Nil)

JournalHome == \A n \in Nums : \A w \in journal[n] : MayGo(home[w], n)

RecordHomeInv ==
  /\ \A t \in Tabs : Open(t) => BoxHome(page[t])
  /\ \A u \in Senders : \A o \in ops[u] : EntryHome(o)
  /\ KeptHome(draft) /\ JournalHome

LEMMA HomesSuffice == PageTypes /\ RecordHomeInv => TextStaysWithRecord
<1> SUFFICES ASSUME PageTypes, RecordHomeInv, NEW w \in Texts
             PROVE  /\ \A n \in Nums : w \in journal[n] \/ draft[n] = w =>
                          home[w] \in {n, Astray} \/ (home[w] = New /\ n > 1)
                    /\ draft[New] = w => home[w] \in {New, Astray}
  BY DEF TextStaysWithRecord
<1>1. \A n \in Nums : n # Nil
  BY NilApart
<1>2. \A n \in Nums : w \in journal[n] \/ draft[n] = w => MayGo(home[w], n)
  BY DEF RecordHomeInv, KeptHome, JournalHome
<1>3. draft[New] = w => MayGo(home[w], Nil)
  BY DEF RecordHomeInv, KeptHome
<1> QED BY <1>1, <1>2, <1>3 DEF MayGo

LEMMA HomesInit == Init => RecordHomeInv
BY NilApart DEF Init, RecordHomeInv, Open, Senders, KeptHome, JournalHome, Nums, New

(* Drafts kept, stored, cleared or moved hold texts where they may be.     *)
LEMMA DraftsHome ==
  ASSUME PageTypes, KeptHome(draft), NEW p \in Pages
  PROVE  /\ BoxHome(p) => KeptHome(FlushJournalDraft(p))
         /\ KeptHome(ClearJournalDraft(p))
         /\ \A n \in Nums : n > 1 => KeptHome(MigrateJournalDraftToNumber(n))
<1> DEFINE k == JournalDraftKey(p)
<1>1. draft \in [Nums \cup {New} -> Box] /\ Nil \notin Texts /\ Nil \notin Nums /\ New \notin Nums /\ Nil # New
  BY NilApart DEF PageTypes, Nums, New
<1>2. k \in Nums \cup {New} /\ (p.path = Nil => k = New) /\ (p.path # Nil => k = p.path)
  BY DraftKeyTyped
<1> HIDE DEF k
<1>3. ASSUME BoxHome(p) PROVE KeptHome([draft EXCEPT ![k] = p.box])
  <2>1. \A w \in Texts : p.box = w => MayGo(home[w], p.path)
    BY <1>1, <1>3 DEF BoxHome
  <2> SUFFICES ASSUME NEW w \in Texts
               PROVE  /\ \A n \in Nums : [draft EXCEPT ![k] = p.box][n] = w => MayGo(home[w], n)
                      /\ [draft EXCEPT ![k] = p.box][New] = w => MayGo(home[w], Nil)
    BY DEF KeptHome
  <2>2. \A n \in Nums : draft[n] = w => MayGo(home[w], n)
    BY DEF KeptHome
  <2>3. draft[New] = w => MayGo(home[w], Nil)
    BY DEF KeptHome
  <2>4. CASE k = New
    <3>1. p.path = Nil
      BY <1>1, <1>2, <2>4, PageFields DEF Numbers
    <3> QED BY <1>1, <2>1, <2>2, <2>4, <3>1
  <2>5. CASE k # New
    <3>1. p.path = k
      BY <1>2, <2>5
    <3> QED BY <1>1, <1>2, <2>1, <2>2, <2>3, <2>5, <3>1
  <2> QED BY <2>4, <2>5
<1>4. KeptHome([draft EXCEPT ![k] = Nil])
  BY <1>1, <1>2 DEF KeptHome
<1>5. ASSUME NEW n \in Nums, n > 1 PROVE KeptHome([draft EXCEPT ![n] = draft[New], ![New] = Nil])
  <2>1. \A w \in Texts : draft[New] = w => MayGo(home[w], n)
    BY <1>1, <1>5 DEF KeptHome, MayGo
  <2> SUFFICES ASSUME NEW w \in Texts, NEW d, d = [draft EXCEPT ![n] = draft[New], ![New] = Nil]
               PROVE  /\ \A m \in Nums : d[m] = w => MayGo(home[w], m)
                      /\ d[New] = w => MayGo(home[w], Nil)
    BY DEF KeptHome
  <2>2. d[New] = Nil /\ \A m \in Nums : d[m] = IF m = n THEN draft[New] ELSE draft[m]
    BY <1>1
  <2>3. \A m \in Nums : draft[m] = w => MayGo(home[w], m)
    BY DEF KeptHome
  <2> QED BY <1>1, <2>1, <2>2, <2>3
<1> QED BY <1>3, <1>4, <1>5 DEF FlushJournalDraft, ClearJournalDraft, MigrateJournalDraftToNumber, k

(* A step of the page t.                                                   *)
LEMMA HomesOfPage ==
  ASSUME PageTypes, RecordHomeInv, NEW t \in Tabs, NEW p \in Pages \cup {Nil},
         page' = [page EXCEPT ![t] = p], home' = home, journal' = journal,
         p # Nil => BoxHome(p),
         \A u \in Senders : \A o \in ops'[u] : (\E v \in Senders : o \in ops[v]) \/ EntryHome(o),
         KeptHome(draft')
  PROVE  RecordHomeInv'
<1>1. \A u \in Tabs : Open(u)' => BoxHome(page[u])'
  <2> SUFFICES ASSUME NEW u \in Tabs, page'[u] # Nil PROVE BoxHome(page'[u])
    BY DEF Open, BoxHome, MayGo
  <2> QED BY DEF PageTypes, RecordHomeInv, Open
<1>2. \A u \in Senders : \A o \in ops'[u] : EntryHome(o)
  BY DEF RecordHomeInv
<1> QED BY <1>1, <1>2 DEF RecordHomeInv, EntryHome, KeptHome, JournalHome, MayGo

(* The text is typed anew: it is nowhere else.                             *)
LEMMA FreshText ==
  ASSUME PageTypes, RecordHomeInv, NEW w \in Texts, home[w] = Nil
  PROVE  /\ \A t \in Tabs : Open(t) => page[t].box # w
         /\ \A u \in Senders : \A o \in ops[u] : o.what = "entry" => o.arg # w
         /\ \A k \in Nums \cup {New} : draft[k] # w
         /\ \A n \in Nums : w \notin journal[n]
<1>1. \A n \in Nums \cup {Nil} : ~MayGo(Nil, n)
  BY NilApart DEF MayGo
<1>2. ASSUME NEW t \in Tabs, Open(t) PROVE page[t].box # w
  <2>1. page[t].path \in Nums \cup {Nil} /\ w # Nil
    BY <1>2, OpenTyped, PageFields, NilApart DEF Numbers
  <2> QED BY <1>1, <1>2, <2>1 DEF RecordHomeInv, BoxHome
<1>3. ASSUME NEW u \in Senders, NEW o \in ops[u], o.what = "entry" PROVE o.arg # w
  <2>1. o.num \in Nums \cup {Nil}
    BY DEF PageTypes, Asks, Numbers
  <2> QED BY <1>1, <1>3, <2>1 DEF RecordHomeInv, EntryHome
<1> QED BY <1>1, <1>2, <1>3 DEF RecordHomeInv, KeptHome, JournalHome

LEMMA TypeKeepsHomes ==
  ASSUME PageTypes, ShapeInv, RecordCreateInv, RecordHomeInv, NEW t \in Tabs, NEW w \in Box, TypeText(t, w)
  PROVE  RecordHomeInv'
<1>1. /\ Open(t) /\ page[t] \in Pages /\ w \in {Nil} \cup {x \in Texts : home[x] = Nil}
      /\ UNCHANGED <<journal, draft, ops>>
      /\ page' = [page EXCEPT ![t].box = w, ![t].armed = w # Nil, ![t].timer = HasDrafts]
      /\ home' = IF w = Nil THEN home
               ELSE [home EXCEPT ![w] = IF page[t].crossed THEN Astray ELSE JournalDraftKey(page[t])]
  BY OpenTyped DEF TypeText, Acts
<1>2. /\ \A u \in Tabs \ {t} : page'[u] = page[u]
      /\ page'[t].box = w /\ page'[t].path = page[t].path /\ page'[t].crossed = page[t].crossed
      /\ page[t].path \in Numbers /\ page[t].crossed \in BOOLEAN
  BY <1>1, PageFields DEF PageTypes, Pages
<1>3. CASE w = Nil
  <2>1. \A u \in Tabs : Open(u)' => BoxHome(page'[u])
    BY <1>1, <1>2, <1>3 DEF Open, BoxHome, RecordHomeInv
  <2> QED BY <1>1, <1>3, <2>1 DEF RecordHomeInv, BoxHome, EntryHome, KeptHome, JournalHome, MayGo
<1>4. CASE w # Nil
  <2>1. w \in Texts /\ home[w] = Nil /\ home \in [Texts -> 0 .. Astray \cup {Nil}]
    BY <1>1, <1>4 DEF PageTypes
  <2>2. /\ home'[w] = (IF page[t].crossed THEN Astray ELSE JournalDraftKey(page[t]))
        /\ \A x \in Texts \ {w} : home'[x] = home[x]
    BY <1>1, <1>4, <2>1
  <2>3. /\ \A u \in Tabs : Open(u) => page[u].box # w
        /\ \A u \in Senders : \A o \in ops[u] : o.what = "entry" => o.arg # w
        /\ \A k \in Nums \cup {New} : draft[k] # w
        /\ \A n \in Nums : w \notin journal[n]
    BY <2>1, FreshText
  <2>4. MayGo(home'[w], page[t].path) /\ (page[t].crossed => home'[w] \in {New, Astray})
    BY <1>2, <2>2 DEF MayGo, JournalDraftKey
  <2>5. ASSUME NEW u \in Tabs, page'[u] # Nil
        PROVE  page'[u].box # Nil => /\ MayGo(home'[page'[u].box], page'[u].path)
                                     /\ (page'[u].crossed => home'[page'[u].box] \in {New, Astray})
    <3>1. CASE u = t
      BY <1>2, <2>4, <3>1
    <3>2. CASE u # t
      <4>1. page'[u] = page[u] /\ Open(u)
        BY <1>2, <2>5, <3>2 DEF Open
      <4>2. page[u].box # w /\ page[u].box \in Texts \cup {Nil}
        BY <2>3, <4>1, OpenTyped, PageFields DEF Box
      <4>3. BoxHome(page[u])
        BY <4>1 DEF RecordHomeInv
      <4>4. page[u].box # Nil => home'[page[u].box] = home[page[u].box]
        BY <2>2, <4>2
      <4> QED BY <4>1, <4>3, <4>4 DEF BoxHome
    <3> QED BY <3>1, <3>2
  <2>6. ASSUME NEW u \in Senders, NEW o \in ops[u], o.what = "entry" PROVE MayGo(home'[o.arg], o.num)
    <3>1. o.arg \in Texts \ {w}
      BY <2>3, <2>6 DEF ShapeInv, AskShape
    <3> QED BY <2>2, <2>6, <3>1 DEF RecordHomeInv, EntryHome
  <2>7. /\ \A x \in Texts : /\ \A n \in Nums : draft[n] = x => MayGo(home'[x], n)
                            /\ draft[New] = x => MayGo(home'[x], Nil)
    BY <2>2, <2>3 DEF RecordHomeInv, KeptHome
  <2>8. \A n \in Nums : \A x \in journal[n] : MayGo(home'[x], n)
    <3>1. \A n \in Nums : \A x \in journal[n] : x \in Texts \ {w}
      BY <2>3 DEF PageTypes
    <3> QED BY <2>2, <3>1 DEF RecordHomeInv, JournalHome
  <2> QED BY <1>1, <2>5, <2>6, <2>7, <2>8 DEF RecordHomeInv, Open, BoxHome, EntryHome, KeptHome, JournalHome, MayGo
<1> QED BY <1>3, <1>4

(* Each kind of step keeps this.                                           *)
LEMMA OpenKeepsHomes ==
  ASSUME PageTypes, RecordHomeInv, NEW t \in Tabs, NEW n \in Known \cup {Nil}, OpenPage(t, n)
  PROVE  RecordHomeInv'
<1>1. PICK p \in Pages :
        /\ page' = [page EXCEPT ![t] = p] /\ p.path = n /\ ~p.crossed
        /\ p.box = IF HasDrafts THEN draft[JournalDraftKey(p)] ELSE Nil
  BY OpenedPage
<1>2. UNCHANGED <<draft, journal, home, ops>>
  BY DEF OpenPage, recordHistory
<1>3. BoxHome(p)
  <2>1. JournalDraftKey(p) \in Nums \cup {New} /\ draft \in [Nums \cup {New} -> Box]
    BY DraftKeyTyped DEF PageTypes
  <2>2. p.box # Nil => p.box \in Texts /\ draft[JournalDraftKey(p)] = p.box
    BY <1>1, <2>1 DEF Box
  <2>3. p.box # Nil => MayGo(home[p.box], p.path)
    <3>1. CASE p.path = Nil
      BY <2>2, <3>1 DEF RecordHomeInv, KeptHome, JournalDraftKey
    <3>2. CASE p.path # Nil
      BY <2>2, <3>2, PageFields DEF RecordHomeInv, KeptHome, JournalDraftKey, Numbers
    <3> QED BY <3>1, <3>2
  <2> QED BY <1>1, <2>3 DEF BoxHome
<1> QED BY <1>1, <1>2, <1>3, HomesOfPage DEF RecordHomeInv

LEMMA LeaveKeepsHomes ==
  ASSUME PageTypes, RecordHomeInv, NEW t \in Tabs, LeaveStep(t)
  PROVE  RecordHomeInv'
<1>1. /\ Open(t) /\ page[t] \in Pages /\ page' = [page EXCEPT ![t] = Nil] /\ Abandon(t)
      /\ draft' \in {draft, FlushJournalDraft(page[t])} /\ UNCHANGED <<journal, home>>
  BY OpenTyped DEF LeaveStep, ClosePage, KillTab
<1>2. \A u \in Senders : \A o \in ops'[u] : \E v \in Senders : o \in ops[v]
  BY <1>1, Abandoned, NilApart DEF Senders
<1>3. KeptHome(draft')
  BY <1>1, DraftsHome DEF RecordHomeInv
<1> QED BY <1>1, <1>2, <1>3, HomesOfPage

LEMMA StoreKeepsHomes ==
  ASSUME PageTypes, RecordHomeInv, NEW t \in Tabs, SaveJournalDraft(t)
  PROVE  RecordHomeInv'
<1>1. PICK p \in Pages :
        /\ Open(t) /\ page' = [page EXCEPT ![t] = p] /\ SameRecord(p, page[t]) /\ p.crossed = page[t].crossed
        /\ p.box = page[t].box
  <2> DEFINE p == [page[t] EXCEPT !.timer = FALSE]
  <2>1. Open(t) /\ page[t] \in Pages
    BY OpenTyped DEF SaveJournalDraft
  <2>2. p \in Pages /\ page' = [page EXCEPT ![t] = p] /\ SameRecord(p, page[t]) /\ p.crossed = page[t].crossed
        /\ p.box = page[t].box
    BY <2>1 DEF SaveJournalDraft, Pages, PageTypes, SameRecord
  <2> HIDE DEF p
  <2> QED BY <2>1, <2>2
<1>2. page[t] \in Pages /\ draft' = FlushJournalDraft(page[t]) /\ UNCHANGED <<journal, home, ops>>
  BY <1>1, OpenTyped DEF SaveJournalDraft
<1>3. BoxHome(page[t])
  BY <1>1 DEF RecordHomeInv
<1>4. BoxHome(p) /\ KeptHome(draft')
  BY <1>1, <1>2, <1>3, DraftsHome DEF BoxHome, SameRecord, RecordHomeInv
<1> QED BY <1>1, <1>2, <1>4, HomesOfPage

LEMMA SendKeepsHomes ==
  ASSUME PageTypes, ShapeInv, RecordCreateInv, RecordHomeInv, NEW t \in Tabs, SendStep(t)
  PROVE  RecordHomeInv'
<1>1. PICK o \in Asks, p \in Pages :
    /\ Open(t) /\ MadeFrom(o, page[t]) /\ ops' = [ops EXCEPT ![t] = @ \cup {o}]
    /\ page' = [page EXCEPT ![t] = p] /\ SameRecord(p, page[t]) /\ SameText(p, page[t])
    /\ p.crossed = (page[t].crossed \/ (o.num = Nil /\ Creating(t)))
    /\ UNCHANGED <<draft, journal, home>>
  BY DEF SendStep
<1>2. BoxHome(page[t]) /\ CreateOf(page[t], ops[t]) /\ page[t] \in Pages
  BY <1>1, OpenTyped DEF RecordHomeInv, RecordCreateInv, CreateInv
<1>3. EntryHome(o)
  <2> SUFFICES ASSUME o.what = "entry" PROVE MayGo(home[page[t].box], page[t].num)
    BY <1>1 DEF EntryHome, MadeFrom
  <2>1. page[t].box # Nil
    BY <1>1, NilApart DEF MadeFrom
  <2>2. MayGo(home[page[t].box], page[t].path) /\ (page[t].crossed => home[page[t].box] \in {New, Astray})
    BY <1>2, <2>1 DEF BoxHome
  <2>3. CASE ~page[t].crossed
    BY <1>2, <2>2, <2>3 DEF CreateOf
  <2>4. CASE page[t].crossed
    BY <1>2, <2>2, <2>4 DEF CreateOf, MayGo
  <2> QED BY <2>3, <2>4
<1>4. BoxHome(p)
  <2>1. CASE p.crossed = page[t].crossed
    BY <1>1, <1>2, <2>1 DEF BoxHome, SameRecord, SameText
  <2>2. CASE p.crossed # page[t].crossed
    <3>1. o.num = Nil /\ page[t].path = Nil
      BY <1>1, <1>2, <2>2, PageFields DEF MadeFrom, CreateOf
    <3> QED BY <1>1, <1>2, <3>1 DEF BoxHome, SameRecord, SameText, MayGo
  <2> QED BY <2>1, <2>2
<1>5. \A u \in Senders : \A x \in ops'[u] : (\E v \in Senders : x \in ops[v]) \/ EntryHome(x)
  BY <1>1, <1>3 DEF PageTypes, Senders
<1> QED BY <1>1, <1>4, <1>5, HomesOfPage DEF RecordHomeInv

LEMMA CreatedKeepsHomes ==
  ASSUME PageTypes, ShapeInv, RecordCreateInv, RecordHomeInv, NEW t \in Tabs, NEW o \in ops[t], Created(t, o)
  PROVE  RecordHomeInv'
<1>1. PICK p \in Pages, q \in Asks :
           /\ Open(t) /\ page[t] \in Pages /\ CreateInv(t)
           /\ o.rd.num \in Nums /\ o.rd.num # Nil /\ o.num = Nil /\ o.stage = "done"
           /\ page' = [page EXCEPT ![t] = p] /\ p.path = o.rd.num
           /\ SameText(p, page[t]) /\ p.crossed = page[t].crossed
           /\ q.num = o.rd.num /\ q.what = o.what /\ q.arg = o.arg
           /\ ops'[t] = (ops[t] \ {o}) \cup {q} /\ \A u \in Senders \ {t} : ops'[u] = ops[u]
  BY CreatedPage
<1>2. o.rd.num > 1
  BY <1>1 DEF CreateInv, CreateOf
<1>3. draft' = MigrateJournalDraftToNumber(o.rd.num) /\ UNCHANGED <<journal, home>>
  BY DEF Created
<1>4. KeptHome(draft')
  BY <1>1, <1>2, <1>3, DraftsHome DEF RecordHomeInv
<1>5. EntryHome(q)
  <2>1. EntryHome(o)
    BY DEF RecordHomeInv, Senders
  <2> QED BY <1>1, <1>2, <2>1 DEF EntryHome, MayGo
<1>6. BoxHome(p)
  <2>1. BoxHome(page[t])
    BY <1>1 DEF RecordHomeInv
  <2>2. page[t].path = Nil \/ page[t].crossed
    BY <1>1, PageFields DEF CreateInv, CreateOf
  <2>3. page[t].box # Nil => home[page[t].box] \in {New, Astray}
    BY <2>1, <2>2 DEF BoxHome, MayGo
  <2> QED BY <1>1, <1>2, <2>3 DEF BoxHome, MayGo, SameText
<1>7. \A u \in Senders : \A x \in ops'[u] : (\E v \in Senders : x \in ops[v]) \/ EntryHome(x)
  BY <1>1, <1>5
<1> QED BY <1>1, <1>3, <1>4, <1>6, <1>7, HomesOfPage

LEMMA ReadKeepsHomes ==
  ASSUME PageTypes, ShapeInv, RecordCreateInv, RecordHomeInv, NEW t \in Tabs, ReadStep(t)
  PROVE  RecordHomeInv'
<1>1. PICK o \in ops[t], q \in Asks :
    /\ Open(t) /\ page[t] \in Pages
    /\ q.what = o.what /\ q.num = o.num /\ q.arg = o.arg
    /\ ops'[t] = (ops[t] \ {o}) \cup {q} /\ \A u \in Senders \ {t} : ops'[u] = ops[u]
    /\ UNCHANGED <<journal, draft, page, recordHistory>>
  BY ReadAsks
<1>2. EntryHome(q) /\ BoxHome(page[t])
  BY <1>1 DEF RecordHomeInv, Senders, EntryHome
<1>3. \A u \in Senders : \A x \in ops'[u] : (\E v \in Senders : x \in ops[v]) \/ EntryHome(x)
  BY <1>1, <1>2
<1>4. page' = [page EXCEPT ![t] = page[t]] /\ home' = home
  BY <1>1 DEF PageTypes, recordHistory
<1> QED BY <1>1, <1>2, <1>3, <1>4, HomesOfPage DEF RecordHomeInv

LEMMA FinishKeepsHomes ==
  ASSUME PageTypes, ShapeInv, RecordCreateInv, RecordHomeInv, NEW t \in Tabs, FinishStep(t)
  PROVE  RecordHomeInv'
<1>1. PICK o \in ops[t], p \in Pages, err \in BOOLEAN :
    /\ Finish(t, o, p, err) /\ Redraws(p, page[t]) /\ o \in Asks
    /\ Open(t) /\ page[t] \in Pages
    /\ o.stage = "reading" \/ err
    /\ o.stage = "reading" => p.num # Nil /\ p.path # Nil
    /\ UNCHANGED <<journal, home>>
  BY FinishCases
<1>2. PICK r \in Pages : r = Returned(o, p, err)
  BY <1>1, ReturnChanges
<1>3. /\ page' = [page EXCEPT ![t] = r]
      /\ \A u \in Senders \ {t} : ops'[u] = ops[u]
      /\ ops'[t] = (ops[t] \ {o}) \cup Follow(o, p, err)
      /\ \A q \in Follow(o, p, err) : Followed(q, o, p)
  BY <1>1, <1>2, Finishing
<1>4. r.path = page[t].path /\ r.crossed = page[t].crossed /\ r.box \in {Nil, page[t].box}
  BY <1>1, <1>2, ReturnChanges DEF SameRecord, Redraws, SameText
<1>5. BoxHome(r)
  BY <1>1, <1>4 DEF BoxHome, RecordHomeInv
<1>6. \A u \in Senders : \A x \in ops'[u] : (\E v \in Senders : x \in ops[v]) \/ EntryHome(x)
  BY <1>3 DEF Followed, EntryHome
<1>7. KeptHome(draft')
  <2>1. draft' \in {draft, ClearJournalDraft(p)}
    BY <1>1 DEF Finish
  <2> QED BY <2>1, DraftsHome DEF RecordHomeInv
<1> QED BY <1>1, <1>3, <1>5, <1>6, <1>7, HomesOfPage

LEMMA DropKeepsHomes ==
  ASSUME PageTypes, RecordHomeInv, NEW t \in Tabs, DropStep(t)
  PROVE  RecordHomeInv'
<1>1. PICK o \in ops[t], p \in Pages :
    /\ Open(t) /\ ops' = [ops EXCEPT ![t] = @ \ {o}] /\ page' = [page EXCEPT ![t] = p]
    /\ SameRecord(p, page[t]) /\ SameText(p, page[t]) /\ p.crossed = page[t].crossed
    /\ UNCHANGED <<journal, draft, recordHistory>>
  BY DEF DropStep
<1>2. BoxHome(p) /\ home' = home
  BY <1>1 DEF BoxHome, RecordHomeInv, SameRecord, SameText, recordHistory
<1>3. \A u \in Senders : \A x \in ops'[u] : (\E v \in Senders : x \in ops[v]) \/ EntryHome(x)
  BY <1>1 DEF PageTypes
<1> QED BY <1>1, <1>2, <1>3, HomesOfPage DEF RecordHomeInv

(* What the server does with an entry.                                     *)
LEMMA ApplyKeepsHomes ==
  ASSUME PageTypes, ShapeInv, RecordCreateInv, RecordHomeInv, NEW u \in Senders, NEW o \in ops[u],
         NEW lost \in BOOLEAN, Apply(u, o, lost)
  PROVE  RecordHomeInv'
<1>1. /\ Target(o) \in Nums /\ (o.num = Nil => Target(o) > 1) /\ (o.num # Nil => Target(o) = o.num)
      /\ Target(o) # Nil
  BY ApplyWrites, NilApart DEF Writes, Target, Nums
<1>2. /\ journal' = IF o.what = "entry" THEN [journal EXCEPT ![Target(o)] = @ \cup {o.arg}] ELSE journal
      /\ UNCHANGED <<draft, home>>
  BY DEF Apply, Target
<1>3. \A n \in Nums : \A w \in journal'[n] : MayGo(home[w], n)
  <2>1. o.what = "entry" => MayGo(home[o.arg], Target(o))
    BY <1>1 DEF RecordHomeInv, EntryHome, MayGo
  <2> QED BY <1>1, <1>2, <2>1 DEF PageTypes, RecordHomeInv, JournalHome
<1>4. \A x \in Senders : \A q \in ops'[x] : EntryHome(q)
  <2>1. CASE u = Nil
    <3>1. ops'[Nil] = ops[Nil] \ {o} /\ \A x \in Senders \ {Nil} : ops'[x] = ops[x]
      BY <2>1 DEF Apply, PageTypes, Senders
    <3> QED BY <3>1 DEF RecordHomeInv, Senders
  <2>2. CASE u # Nil
    <3>1. u \in Tabs
      BY <2>2 DEF Senders
    <3>2. PICK q \in Asks : ops'[u] = (ops[u] \ {o}) \cup {q} /\ q.what = o.what /\ q.num = o.num /\ q.arg = o.arg
      BY <3>1, ApplyAnswers
    <3>3. \A x \in Senders \ {u} : ops'[x] = ops[x]
      BY <3>1, ApplyAnswers
    <3>4. EntryHome(q)
      BY <3>2 DEF RecordHomeInv, EntryHome
    <3> QED BY <3>2, <3>3, <3>4 DEF RecordHomeInv
  <2> QED BY <2>1, <2>2
<1>5. \A t \in Tabs : page'[t] # Nil => BoxHome(page'[t])
  <2>1. CASE u = Nil \/ o.num # Nil
    <3>1. page' = page
      BY <2>1 DEF Apply
    <3> QED BY <3>1 DEF RecordHomeInv, Open
  <2>2. CASE u # Nil /\ o.num = Nil
    <3>1. u \in Tabs
      BY <2>2 DEF Senders
    <3>2. PICK r \in Pages :
           /\ page' = [page EXCEPT ![u] = r] /\ SameRecord(r, page[u]) /\ r.box = page[u].box
           /\ r.crossed = (page[u].crossed \/ lost)
      BY <2>2, <3>1, ApplyPage
    <3>3. BoxHome(page[u]) /\ CreateOf(page[u], ops[u]) /\ page[u] \in Pages
      BY <3>1, AskerOpen DEF RecordHomeInv, CreateInv
    <3>4. page[u].crossed \/ page[u].path = Nil
      BY <2>2, <3>3, PageFields DEF CreateOf
    <3>5. BoxHome(r)
      BY <3>2, <3>3, <3>4 DEF BoxHome, SameRecord, MayGo
    <3> QED BY <3>1, <3>2, <3>5 DEF PageTypes, RecordHomeInv, Open
  <2> QED BY <2>1, <2>2
<1> QED BY <1>2, <1>3, <1>4, <1>5 DEF RecordHomeInv, Open, BoxHome, EntryHome, KeptHome, JournalHome, MayGo

LEMMA RefuseKeepsHomes ==
  ASSUME PageTypes, RecordHomeInv, NEW u \in Senders, NEW o \in ops[u], RefuseRequest(u, o)
  PROVE  RecordHomeInv'
<1>1. /\ o \in Asks /\ UNCHANGED <<journal, draft, page, recordHistory>>
  BY DEF RefuseRequest, PageTypes
<1>2. PICK q \in Asks : q = [o EXCEPT !.stage = "failed"]
  BY <1>1 DEF Asks
<1>3. ops'[u] = (ops[u] \ {o}) \cup {q} /\ \A x \in Senders \ {u} : ops'[x] = ops[x]
  BY <1>2 DEF RefuseRequest, PageTypes
<1>4. EntryHome(q)
  <2>1. q.what = o.what /\ q.arg = o.arg /\ q.num = o.num
    BY <1>1, <1>2 DEF Asks
  <2> QED BY <2>1 DEF RecordHomeInv, EntryHome
<1>5. \A x \in Senders : \A a \in ops'[x] : EntryHome(a)
  BY <1>3, <1>4 DEF RecordHomeInv
<1> QED BY <1>1, <1>5 DEF RecordHomeInv, Open, BoxHome, EntryHome, KeptHome, JournalHome, MayGo, recordHistory

LEMMA RecordStepHomes ==
  ASSUME RecordBase, RecordHomeInv, [Next]_vars
  PROVE  RecordHomeInv'
<1> USE DEF RecordBase
<1>1. CASE UNCHANGED vars
  BY <1>1 DEF vars, recordHistory, RecordHomeInv, Open, BoxHome, EntryHome, KeptHome, JournalHome, MayGo
<1>2. CASE NetworkStep
  BY <1>2, ApplyKeepsHomes, RefuseKeepsHomes DEF NetworkStep
<1>3. ASSUME NEW t \in Tabs, PageStep(t) PROVE RecordHomeInv'
  BY <1>3, OpenKeepsHomes, LeaveKeepsHomes, TypeKeepsHomes, StoreKeepsHomes, SendKeepsHomes,
     CreatedKeepsHomes, ReadKeepsHomes, FinishKeepsHomes, DropKeepsHomes DEF PageStep
<1> QED BY <1>1, <1>2, <1>3, NextIsPages

LEMMA RecordHomesHold == Spec => []RecordHomeInv
<1>1. RecordHomeInv /\ RecordBase /\ [Next]_vars => RecordHomeInv'
  BY RecordStepHomes
<1> QED BY <1>1, HomesInit, RecordBaseHolds, PTL DEF Spec

(* A text typed on the page of a record is posted to that record and kept  *)
(* under it only, and one typed on a new page never reaches a record that  *)
(* was there before.                                                       *)
THEOREM RecordTextStays == Spec => []TextStaysWithRecord
<1>1. RecordBase /\ RecordHomeInv => TextStaysWithRecord
  BY HomesSuffice DEF RecordBase
<1> QED BY <1>1, RecordBaseHolds, RecordHomesHold, PTL

(***************************************************************************)
(* A legacy record page: a typed text is kept.                             *)
(***************************************************************************)
RecordKeepInv == TextKept /\ SavedInv

LEMMA KeepInit == Init => RecordKeepInv
BY DEF Init, RecordKeepInv, TextKept, SavedInv, Open

(* What no draft was written over is in the drafts still.                  *)
LEMMA StillDrafted ==
  ASSUME PageTypes, draft' \in [Nums \cup {New} -> Box], NEW w \in Texts, w \notin WrittenOver(draft'),
         NEW k \in DOMAIN draft, draft[k] = w
  PROVE  \E j \in DOMAIN draft' : draft'[j] = w
<1>1. DOMAIN draft' = DOMAIN draft
  BY DEF PageTypes
<1>2. CASE draft'[k] = draft[k]
  BY <1>1, <1>2
<1>3. CASE draft'[k] # draft[k]
  BY <1>1, <1>3 DEF WrittenOver
<1> QED BY <1>2, <1>3

(* A step of the page t.                                                   *)
LEMMA KeepOfPage ==
  ASSUME PageTypes, RecordKeepInv, NEW t \in Tabs, NEW p \in Pages \cup {Nil},
         page' = [page EXCEPT ![t] = p], plan' = plan, journal' = journal,
         draft' \in [Nums \cup {New} -> Box], wanted' \subseteq wanted,
         \A w \in wanted' : w \notin WrittenOver(draft'),
         Open(t) /\ page[t].box \in wanted' =>
            \/ p # Nil /\ p.box = page[t].box
            \/ \E k \in DOMAIN draft' : draft'[k] = page[t].box,
         p # Nil /\ HasDrafts /\ ~p.timer /\ p.box \in wanted' => \E k \in DOMAIN draft' : draft'[k] = p.box
  PROVE  RecordKeepInv'
<1>1. page'[t] = p /\ \A u \in Tabs \ {t} : page'[u] = page[u]
  BY DEF PageTypes
<1>2. ASSUME NEW w \in wanted', NEW k \in DOMAIN draft, draft[k] = w
      PROVE  \E j \in DOMAIN draft' : draft'[j] = w
  <2>1. w \in Texts
    BY <1>2 DEF PageTypes
  <2> QED BY <1>2, <2>1, StillDrafted
<1>3. ASSUME NEW w \in wanted'
      PROVE  \/ \E u \in Tabs : page'[u] # Nil /\ page'[u].box = w
             \/ \E k \in DOMAIN draft' : draft'[k] = w
             \/ \E n \in Nums : w \in journal'[n]
  <2>1. \/ \E u \in Tabs : Open(u) /\ page[u].box = w
        \/ \E k \in DOMAIN draft : draft[k] = w
        \/ \E n \in Nums : w \in journal[n]
    BY <1>3 DEF RecordKeepInv, TextKept
  <2>2. CASE \E u \in Tabs : Open(u) /\ page[u].box = w
    BY <1>1, <2>2 DEF Open
  <2> QED BY <1>2, <2>1, <2>2
<1>4. ASSUME NEW u \in Tabs, page'[u] # Nil, HasDrafts, ~page'[u].timer, page'[u].box \in wanted'
      PROVE  \E k \in DOMAIN draft' : draft'[k] = page'[u].box
  <2>1. CASE u = t
    BY <1>1, <1>4, <2>1
  <2>2. CASE u # t
    <3>1. page'[u] = page[u] /\ Open(u) /\ page[u].box \in wanted
      BY <1>1, <1>4, <2>2 DEF Open
    <3>2. \E k \in DOMAIN draft : draft[k] = page[u].box
      BY <1>4, <3>1 DEF RecordKeepInv, SavedInv
    <3> QED BY <1>2, <1>4, <3>1, <3>2
  <2> QED BY <2>1, <2>2
<1>5. HasDrafts' <=> HasDrafts
  BY DEF HasDrafts, kind
<1> QED BY <1>3, <1>4, <1>5 DEF RecordKeepInv, TextKept, SavedInv, Open

LEMMA OverNothing == \A w : w \notin WrittenOver(draft)
BY DEF WrittenOver

LEMMA OpenKeepsTexts ==
  ASSUME PageTypes, RecordKeepInv, NEW t \in Tabs, NEW n \in Known \cup {Nil}, OpenPage(t, n)
  PROVE  RecordKeepInv'
<1>1. PICK p \in Pages :
        page' = [page EXCEPT ![t] = p] /\ p.box = IF HasDrafts THEN draft[JournalDraftKey(p)] ELSE Nil
  BY OpenedPage
<1>2. UNCHANGED <<plan, draft, journal, wanted>> /\ ~Open(t)
  BY DEF OpenPage, recordHistory
<1>3. HasDrafts => \E k \in DOMAIN draft : draft[k] = p.box
  BY <1>1, DraftKeyTyped DEF PageTypes
<1> QED BY <1>1, <1>2, <1>3, OverNothing, KeepOfPage DEF PageTypes

(* A text stored is in the drafts.                                         *)
LEMMA Flushed ==
  ASSUME PageTypes, NEW p \in Pages, HasDrafts
  PROVE  \E k \in DOMAIN FlushJournalDraft(p) : FlushJournalDraft(p)[k] = p.box
<1>1. JournalDraftKey(p) \in DOMAIN draft
  BY DraftKeyTyped DEF PageTypes
<1> QED BY <1>1 DEF FlushJournalDraft

LEMMA LeaveKeepsTexts ==
  ASSUME PageTypes, RecordKeepInv, NEW t \in Tabs, LeaveStep(t)
  PROVE  RecordKeepInv'
<1>1. /\ Open(t) /\ page[t] \in Pages /\ page' = [page EXCEPT ![t] = Nil] /\ UNCHANGED <<plan, journal>>
  BY OpenTyped DEF LeaveStep, ClosePage, KillTab
<1>2. CASE ClosePage(t)
  <2>1. /\ draft' = FlushJournalDraft(page[t])
        /\ wanted' = wanted \ (WrittenOver(draft') \cup (IF HasDrafts THEN {} ELSE {page[t].box}))
    BY <1>2 DEF ClosePage
  <2>2. draft' \in [Nums \cup {New} -> Box]
    BY <1>1, <2>1, DraftsTyped
  <2>3. page[t].box \in wanted' => \E k \in DOMAIN draft' : draft'[k] = page[t].box
    BY <1>1, <2>1, Flushed
  <2> QED BY <1>1, <2>1, <2>2, <2>3, KeepOfPage
<1>3. CASE KillTab(t)
  <2>1. draft' = draft /\ wanted' = wanted \ (IF page[t].timer \/ ~HasDrafts THEN {page[t].box} ELSE {})
    BY <1>3 DEF KillTab
  <2>2. page[t].box \in wanted' => \E k \in DOMAIN draft' : draft'[k] = page[t].box
    BY <1>1, <2>1 DEF RecordKeepInv, SavedInv
  <2>3. draft' \in [Nums \cup {New} -> Box]
    BY <2>1 DEF PageTypes
  <2>4. \A w \in wanted' : w \notin WrittenOver(draft')
    BY <2>1, OverNothing
  <2> QED BY <1>1, <2>1, <2>2, <2>3, <2>4, KeepOfPage
<1> QED BY <1>2, <1>3 DEF LeaveStep

LEMMA StoreKeepsTexts ==
  ASSUME PageTypes, RecordKeepInv, NEW t \in Tabs, SaveJournalDraft(t)
  PROVE  RecordKeepInv'
<1>1. Open(t) /\ page[t] \in Pages
  BY OpenTyped DEF SaveJournalDraft
<1>2. PICK p \in Pages : page' = [page EXCEPT ![t] = p] /\ p.box = page[t].box
  <2> DEFINE p == [page[t] EXCEPT !.timer = FALSE]
  <2>1. p \in Pages /\ page' = [page EXCEPT ![t] = p] /\ p.box = page[t].box
    BY <1>1 DEF SaveJournalDraft, Pages, PageTypes
  <2> HIDE DEF p
  <2> QED BY <2>1
<1>3. /\ draft' = FlushJournalDraft(page[t]) /\ wanted' = wanted \ WrittenOver(draft')
      /\ UNCHANGED <<plan, journal>>
  BY DEF SaveJournalDraft
<1>4. draft' \in [Nums \cup {New} -> Box] /\ (HasDrafts => \E k \in DOMAIN draft' : draft'[k] = p.box)
      /\ p # Nil
  BY <1>1, <1>2, <1>3, DraftsTyped, Flushed, NilApart
<1> QED BY <1>2, <1>3, <1>4, KeepOfPage

LEMMA TypeKeepsTexts ==
  ASSUME PageTypes, RecordHomeInv, RecordKeepInv, NEW t \in Tabs, NEW w \in Box, TypeText(t, w)
  PROVE  RecordKeepInv'
<1>1. /\ Open(t) /\ page[t] \in Pages /\ w \in {Nil} \cup {x \in Texts : home[x] = Nil}
      /\ UNCHANGED <<plan, journal, draft>> /\ wanted' = (wanted \ {page[t].box}) \cup ({w} \ {Nil})
      /\ page' = [page EXCEPT ![t].box = w, ![t].armed = w # Nil, ![t].timer = HasDrafts]
  BY OpenTyped DEF TypeText, Acts
<1>2. /\ \A u \in Tabs \ {t} : page'[u] = page[u]
      /\ page'[t].box = w /\ page'[t].timer = HasDrafts /\ page'[t] # Nil
  <2> DEFINE p == [page[t] EXCEPT !.box = w, !.armed = w # Nil, !.timer = HasDrafts]
  <2>1. p \in Pages /\ page' = [page EXCEPT ![t] = p] /\ p.box = w /\ p.timer = HasDrafts
    BY <1>1 DEF Pages, PageTypes, HasDrafts
  <2> HIDE DEF p
  <2> QED BY <2>1, NilApart DEF PageTypes
<1>3. ASSUME NEW x \in wanted'
      PROVE  \/ \E u \in Tabs : page'[u] # Nil /\ page'[u].box = x
             \/ \E k \in DOMAIN draft : draft[k] = x
             \/ \E n \in Nums : x \in journal[n]
  <2>1. CASE x = w
    BY <1>2, <2>1
  <2>2. CASE x # w
    <3>1. x \in wanted /\ x # page[t].box
      BY <1>1, <1>3, <2>2
    <3>2. \/ \E u \in Tabs : Open(u) /\ page[u].box = x
          \/ \E k \in DOMAIN draft : draft[k] = x
          \/ \E n \in Nums : x \in journal[n]
      BY <3>1 DEF RecordKeepInv, TextKept
    <3>3. CASE \E u \in Tabs : Open(u) /\ page[u].box = x
      BY <1>2, <3>1, <3>3 DEF Open
    <3> QED BY <3>2, <3>3
  <2> QED BY <2>1, <2>2
<1>4. ASSUME NEW u \in Tabs, page'[u] # Nil, HasDrafts, ~page'[u].timer, page'[u].box \in wanted'
      PROVE  \E k \in DOMAIN draft : draft[k] = page'[u].box
  <2>1. u # t /\ page'[u] = page[u] /\ Open(u)
    BY <1>2, <1>4 DEF Open
  <2>2. page[u].box \in wanted
    <3>1. w \in Texts /\ home[w] = Nil => page[u].box # w
      BY <2>1, FreshText
    <3> QED BY <1>1, <1>4, <2>1, <3>1, NilApart
  <2> QED BY <1>4, <2>1, <2>2 DEF RecordKeepInv, SavedInv
<1>5. HasDrafts' <=> HasDrafts
  BY <1>1 DEF HasDrafts, kind
<1> QED BY <1>1, <1>3, <1>4, <1>5 DEF RecordKeepInv, TextKept, SavedInv, Open

(* A step that keeps box and timer of the page, and the drafts.            *)
LEMMA SameTextKept ==
  ASSUME PageTypes, RecordKeepInv, NEW t \in Tabs, NEW p \in Pages, Open(t), page' = [page EXCEPT ![t] = p],
         p.box = page[t].box, p.timer = page[t].timer, UNCHANGED <<plan, journal, draft, wanted>>
  PROVE  RecordKeepInv'
<1>1. p # Nil /\ HasDrafts /\ ~p.timer /\ p.box \in wanted => \E k \in DOMAIN draft : draft[k] = p.box
  BY DEF RecordKeepInv, SavedInv
<1> QED BY <1>1, OverNothing, KeepOfPage, NilApart DEF PageTypes

LEMMA QuietKeepsTexts ==
  ASSUME PageTypes, ShapeInv, RecordCreateInv, RecordKeepInv, NEW t \in Tabs,
         SendStep(t) \/ ReadStep(t) \/ DropStep(t)
  PROVE  RecordKeepInv'
<1>1. CASE SendStep(t)
  <2>1. PICK o \in Asks, p \in Pages :
    /\ Open(t) /\ page' = [page EXCEPT ![t] = p] /\ SameText(p, page[t])
    /\ UNCHANGED <<plan, journal, draft, wanted>>
    BY <1>1 DEF SendStep
  <2> QED BY <2>1, SameTextKept DEF SameText
<1>2. CASE ReadStep(t)
  <2>1. Open(t) /\ page[t] \in Pages /\ UNCHANGED <<plan, journal, draft, wanted, page>>
    BY <1>2, OpenTyped DEF ReadStep, recordHistory
  <2>2. page' = [page EXCEPT ![t] = page[t]]
    BY <2>1 DEF PageTypes
  <2> QED BY <2>1, <2>2, SameTextKept
<1>3. CASE DropStep(t)
  <2>1. PICK o \in ops[t], p \in Pages :
    /\ Open(t) /\ page' = [page EXCEPT ![t] = p] /\ SameText(p, page[t])
    /\ UNCHANGED <<plan, journal, draft, recordHistory>>
    BY <1>3 DEF DropStep
  <2> QED BY <2>1, SameTextKept DEF SameText, recordHistory
<1> QED BY <1>1, <1>2, <1>3

LEMMA CreatedKeepsTexts ==
  ASSUME PageTypes, ShapeInv, RecordCreateInv, RecordKeepInv, NEW t \in Tabs, NEW o \in ops[t], Created(t, o)
  PROVE  RecordKeepInv'
<1>1. PICK p \in Pages :
           /\ Open(t) /\ page[t] \in Pages /\ o.rd.num \in Nums
           /\ page' = [page EXCEPT ![t] = p] /\ SameText(p, page[t])
  BY CreatedPage
<1>2. /\ draft' = MigrateJournalDraftToNumber(o.rd.num) /\ wanted' = wanted \ WrittenOver(draft')
      /\ UNCHANGED <<plan, journal>>
  BY DEF Created
<1>3. draft' \in [Nums \cup {New} -> Box]
  BY <1>1, <1>2, DraftsTyped
<1>4. ASSUME HasDrafts, ~p.timer, p.box \in wanted' PROVE \E k \in DOMAIN draft' : draft'[k] = p.box
  <2>1. PICK k \in DOMAIN draft : draft[k] = p.box
    BY <1>1, <1>2, <1>4 DEF RecordKeepInv, SavedInv, SameText
  <2>2. p.box \in Texts /\ p.box \notin WrittenOver(draft')
    BY <1>2, <1>4 DEF PageTypes
  <2> QED BY <1>3, <2>1, <2>2, StillDrafted
<1> QED BY <1>1, <1>2, <1>3, <1>4, KeepOfPage, NilApart DEF SameText

LEMMA FinishKeepsTexts ==
  ASSUME PageTypes, ShapeInv, RecordCreateInv, RecordKeepInv, NEW t \in Tabs, FinishStep(t)
  PROVE  RecordKeepInv'
<1>1. PICK o \in ops[t], p \in Pages, err \in BOOLEAN :
    /\ Finish(t, o, p, err) /\ Redraws(p, page[t]) /\ o \in Asks
    /\ Open(t) /\ page[t] \in Pages
    /\ o.stage = "reading" \/ err
    /\ o.stage = "reading" => p.num # Nil /\ p.path # Nil
    /\ UNCHANGED <<plan, journal>>
  BY FinishCases
<1>2. PICK r \in Pages : r = Returned(o, p, err)
  BY <1>1, ReturnChanges
<1>3. page' = [page EXCEPT ![t] = r]
  BY <1>1, <1>2, Finishing
<1>4. p.box = page[t].box /\ p.timer = page[t].timer
  BY <1>1 DEF Redraws, SameText
<1>5. CASE o.what = "entry" /\ ~err
  <2>1. r.box = Nil
    BY <1>1, <1>2, <1>5, ReturnChanges
  <2>2. draft' = ClearJournalDraft(p) /\ wanted' = wanted \ (WrittenOver(draft') \cup {p.box})
    BY <1>1, <1>5 DEF Finish
  <2>3. draft' \in [Nums \cup {New} -> Box] /\ Nil \notin wanted
    BY <2>2, DraftsTyped, NilApart DEF PageTypes
  <2> QED BY <1>1, <1>3, <1>4, <2>1, <2>2, <2>3, KeepOfPage
<1>6. CASE ~(o.what = "entry" /\ ~err)
  <2>1. r.box = page[t].box /\ r.timer = page[t].timer
    BY <1>1, <1>2, <1>4, <1>6, ReturnChanges
  <2>2. draft' = draft /\ wanted' = wanted
    BY <1>1, <1>6 DEF Finish
  <2> QED BY <1>1, <1>3, <2>1, <2>2, SameTextKept
<1> QED BY <1>5, <1>6

LEMMA NetworkKeepsTexts ==
  ASSUME PageTypes, ShapeInv, RecordKeepInv, NetworkStep
  PROVE  RecordKeepInv'
<1>0. PICK u \in Senders : \E o \in ops[u] : (\E lost \in BOOLEAN : Apply(u, o, lost)) \/ RefuseRequest(u, o)
  BY DEF NetworkStep
<1>1. PICK o \in ops[u] : (\E lost \in BOOLEAN : Apply(u, o, lost)) \/ RefuseRequest(u, o)
  BY <1>0
<1>2. UNCHANGED <<plan, draft, wanted>>
  BY <1>1 DEF Apply, RefuseRequest, recordHistory
<1>3. \A n \in Nums : journal[n] \subseteq journal'[n]
  <2>1. CASE RefuseRequest(u, o)
    BY <2>1 DEF RefuseRequest
  <2>2. ASSUME NEW lost \in BOOLEAN, Apply(u, o, lost) PROVE \A n \in Nums : journal[n] \subseteq journal'[n]
    <3>1. /\ journal' = IF o.what = "entry" THEN [journal EXCEPT ![Target(o)] = @ \cup {o.arg}] ELSE journal
      BY <2>2 DEF Apply, Target
    <3> QED BY <3>1 DEF PageTypes
  <2> QED BY <1>1, <2>1, <2>2
<1> DEFINE Same(t) == /\ page'[t] # Nil <=> page[t] # Nil
                      /\ page[t] # Nil => page'[t].box = page[t].box /\ page'[t].timer = page[t].timer
<1>4. ASSUME NEW t \in Tabs PROVE Same(t)
  <2>1. CASE page' = page
    BY <2>1
  <2>2. ASSUME NEW lost \in BOOLEAN, Apply(u, o, lost), u # Nil PROVE Same(t)
    <3>1. u \in Tabs
      BY <2>2 DEF Senders
    <3>2. PICK r \in Pages : page' = [page EXCEPT ![u] = r] /\ r.box = page[u].box /\ r.timer = page[u].timer
      BY <2>2, <3>1, ApplyPage
    <3>3. Open(u)
      BY <2>2, <3>1, ApplyAnswers
    <3> QED BY <3>1, <3>2, <3>3, NilApart DEF PageTypes, Open
  <2>3. ASSUME NEW lost \in BOOLEAN, Apply(u, o, lost), u = Nil PROVE page' = page
    BY <2>3 DEF Apply
  <2>4. RefuseRequest(u, o) => page' = page
    BY DEF RefuseRequest
  <2> HIDE DEF Same
  <2> QED BY <1>1, <2>1, <2>2, <2>3, <2>4
<1>5. HasDrafts' <=> HasDrafts
  BY <1>2 DEF HasDrafts, kind
<1> QED BY <1>2, <1>3, <1>4, <1>5 DEF RecordKeepInv, TextKept, SavedInv, Open

LEMMA RecordStepTexts ==
  ASSUME RecordBase, RecordHomeInv, RecordKeepInv, [Next]_vars
  PROVE  RecordKeepInv'
<1> USE DEF RecordBase
<1>1. CASE UNCHANGED vars
  BY <1>1 DEF vars, recordHistory, RecordKeepInv, TextKept, SavedInv, Open, HasDrafts, kind
<1>2. ASSUME NEW t \in Tabs, PageStep(t) PROVE RecordKeepInv'
  BY <1>2, OpenKeepsTexts, LeaveKeepsTexts, StoreKeepsTexts, TypeKeepsTexts, QuietKeepsTexts,
     CreatedKeepsTexts, FinishKeepsTexts DEF PageStep
<1> QED BY <1>1, <1>2, NetworkKeepsTexts, NextIsPages

(* A text its user typed and neither erased nor let another replace is in  *)
(* a box, in a draft or at the server.                                     *)
THEOREM RecordKeepsText == Spec => []TextKept
<1>1. RecordKeepInv /\ RecordBase /\ RecordHomeInv /\ [Next]_vars => RecordKeepInv'
  BY RecordStepTexts
<1>2. RecordKeepInv => TextKept
  BY DEF RecordKeepInv
<1> QED BY <1>1, <1>2, KeepInit, RecordBaseHolds, RecordHomesHold, PTL DEF Spec

(***************************************************************************)
(* A legacy record page: the user's choices stand.                         *)
(***************************************************************************)
LEMMA StandsSuffice == RecordStandsInv => ChoicesStand
BY DEF RecordStandsInv, StandsInv, ChoicesStand, Known

LEMMA StandsInit == Init => RecordStandsInv
<1> SUFFICES ASSUME Init PROVE RecordStandsInv
  OBVIOUS
<1>1. server = <<<<Blank>>>> /\ Len(server) = 1 /\ Len(server[1]) = 1 /\ server[1][1] = Blank
  BY DEF Init
<1>2. Known = {1} /\ 1 # Nil /\ 1 \in Nums
  <2>1. 1 \in Nums
    BY NilApart DEF Nums
  <2> QED BY <1>1, <2>1, NilApart DEF Known
<1>3. Record(1) = Blank
  BY <1>1, <1>2 DEF Record, Last
<1> QED BY <1>2, <1>3 DEF Init, RecordStandsInv, StandsInv, Lone, SaysInv, ReadsInv, ShowsInv, Open, Senders

(* Nothing on the other tabs is about the record of a request here.        *)
LoneAt(t, asks, n) ==
  \A o \in asks : About(o, n) =>
    /\ \A q \in asks : About(q, n) => o = q
    /\ \A u \in Senders \ {t} : \A q \in ops[u] : ~About(q, n)

LEMMA LoneFewer ==
  ASSUME NEW t \in Senders, NEW n, Lone(n), NEW asks, \A o \in asks : About(o, n) => o \in ops[t]
  PROVE  LoneAt(t, asks, n)
BY DEF Lone, LoneAt

LEMMA LoneReplaced ==
  ASSUME NEW t \in Senders, NEW n, Lone(n), NEW o \in ops[t], NEW more,
         \A q \in more : About(q, n) => About(o, n),
         \A q, r \in more : q = r
  PROVE  LoneAt(t, (ops[t] \ {o}) \cup more, n)
BY DEF Lone, LoneAt

LEMMA LoneTurned ==
  ASSUME NEW t \in Senders, NEW n, Lone(n), NEW o \in ops[t], NEW q, About(q, n) => About(o, n)
  PROVE  LoneAt(t, (ops[t] \ {o}) \cup {q}, n)
<1>1. \A x, r \in {q} : x = r
  OBVIOUS
<1>2. \A x \in {q} : About(x, n) => About(o, n)
  OBVIOUS
<1> QED BY <1>1, <1>2, LoneReplaced

(* What a step of the page t must leave of it and its requests.            *)
StandsAfter(t, p, asks, m) ==
  /\ \A n \in Known \ m :
       /\ LoneAt(t, asks, n)
       /\ \A o \in asks : /\ o.num = n /\ o.stage = "sent" /\ ~o.first => Fits(o, Record(n))
                          /\ o.stage = "reading" /\ o.rd.num = n => o.rd.from = Len(server[n])
       /\ p # Nil /\ p.num = n => PageShows(p, asks, n)
  /\ p # Nil => PageCrossed(p, asks, m)
  /\ \A o \in asks : CreateStands(o, m)

LEMMA CrossedStays ==
  ASSUME NEW p, NEW asks, NEW m, NEW k, m \subseteq k, PageCrossed(p, asks, m)
  PROVE  PageCrossed(p, asks, k)
BY DEF PageCrossed

LEMMA CreateStays ==
  ASSUME NEW o, NEW m, NEW k, m \subseteq k, CreateStands(o, m)
  PROVE  CreateStands(o, k)
BY DEF CreateStands

LEMMA StandsOfPage ==
  ASSUME PageTypes, RecordStandsInv, NEW t \in Tabs, NEW p \in Pages \cup {Nil}, server' = server, asked' = asked,
         muddled \subseteq muddled', page' = [page EXCEPT ![t] = p],
         \A u \in Senders \ {t} : ops'[u] = ops[u], StandsAfter(t, p, ops'[t], muddled')
  PROVE  RecordStandsInv'
<1>1. /\ page'[t] = p /\ \A u \in Tabs \ {t} : page'[u] = page[u]
      /\ Known' = Known /\ \A n : Record(n)' = Record(n)
  BY DEF PageTypes, Known, Record
<1>2. ASSUME NEW n \in Known \ muddled'
      PROVE  StandsInv(n)'
  <2>1. n \in Known \ muddled /\ StandsInv(n)
    BY <1>2 DEF RecordStandsInv
  <2>2. Record(n)' = asked'[n]
    BY <1>1, <2>1 DEF StandsInv
  <2>3. Lone(n)'
    <3> SUFFICES ASSUME NEW u \in Senders, NEW v \in Senders, NEW o \in ops'[u], NEW q \in ops'[v],
                        About(o, n), About(q, n)
                 PROVE  u = v /\ o = q
      BY DEF Lone, About
    <3>1. LoneAt(t, ops'[t], n) /\ Lone(n)
      BY <1>2, <2>1 DEF StandsAfter, StandsInv
    <3>2. CASE u = t
      BY <3>1, <3>2 DEF LoneAt
    <3>3. CASE v = t
      BY <3>1, <3>3 DEF LoneAt
    <3>4. CASE u # t /\ v # t
      BY <3>1, <3>4 DEF Lone
    <3> QED BY <3>2, <3>3, <3>4
  <2>4. SaysInv(n)'
    <3> SUFFICES ASSUME NEW u \in Senders, NEW o \in ops'[u], o.num = n, o.stage = "sent", ~o.first
                 PROVE  Fits(o, Record(n))
      BY <1>1 DEF SaysInv, Fits
    <3>1. CASE u = t
      BY <1>2, <3>1 DEF StandsAfter
    <3>2. CASE u # t
      BY <2>1, <3>2 DEF StandsInv, SaysInv
    <3> QED BY <3>1, <3>2
  <2>5. ReadsInv(n)'
    BY <1>2, <2>1 DEF StandsAfter, StandsInv, ReadsInv
  <2>6. ShowsInv(n)'
    <3> SUFFICES ASSUME NEW u \in Tabs, page'[u] # Nil, page'[u].num = n
                 PROVE  PageShows(page'[u], ops'[u], n)
      BY <1>1 DEF ShowsInv, PageShows, About, Edits, Lists, Open
    <3>1. CASE u = t
      BY <1>1, <1>2, <3>1 DEF StandsAfter
    <3>2. CASE u # t
      BY <1>1, <2>1, <3>2 DEF StandsInv, ShowsInv, Open, Senders
    <3> QED BY <3>1, <3>2
  <2> QED BY <2>2, <2>3, <2>4, <2>5, <2>6 DEF StandsInv
<1>3. \A n \in Nums \ Known' : asked'[n] = Blank
  BY <1>1 DEF RecordStandsInv
<1>4. ASSUME NEW u \in Tabs, page'[u] # Nil PROVE PageCrossed(page'[u], ops'[u], muddled')
  <2>1. CASE u = t
    BY <1>1, <1>4, <2>1 DEF StandsAfter
  <2>2. CASE u # t
    BY <1>1, <1>4, <2>2, CrossedStays DEF RecordStandsInv, Open, Senders
  <2> QED BY <2>1, <2>2
<1>5. ASSUME NEW u \in Senders, NEW o \in ops'[u] 
      PROVE  o.num = Nil => /\ o.stage = "sent" /\ ~o.first => Fits(o, Blank)
                            /\ o.stage = "done" /\ o.rd.num \notin muddled' => ~Record(o.rd.num)'.grant
  <2>1. CreateStands(o, muddled')
    <3>1. CASE u = t
      BY <3>1 DEF StandsAfter
    <3>2. CASE u # t
      BY <3>2, CreateStays DEF RecordStandsInv
    <3> QED BY <3>1, <3>2
  <2> QED BY <1>1, <2>1 DEF CreateStands
<1>6. \A u \in Senders : \A o \in ops'[u] : CreateStands(o, muddled)'
  BY <1>5 DEF CreateStands, Fits, Blank
<1>7. \A u \in Tabs : Open(u)' => PageCrossed(page[u], ops[u], muddled)'
  BY <1>4 DEF Open, PageCrossed
<1>8. \A n \in Known' \ muddled' : StandsInv(n)'
  BY <1>1, <1>2
<1> QED BY <1>3, <1>6, <1>7, <1>8 DEF RecordStandsInv

(* What stands before a step of the page.                                  *)
LEMMA StandsBefore ==
  ASSUME PageTypes, ShapeInv, RecordStandsInv, NEW t \in Tabs, Open(t)
  PROVE  /\ \A n \in Known \ muddled :
              /\ n # Nil /\ Lone(n) /\ SaysInv(n) /\ ReadsInv(n)
              /\ page[t].num = n => PageShows(page[t], ops[t], n)
         /\ PageCrossed(page[t], ops[t], muddled)
         /\ \A o \in ops[t] : CreateStands(o, muddled)
         /\ t \in Senders
<1>1. \A n \in Known : n # Nil
  BY MadeSmaller, NilApart
<1> QED BY <1>1 DEF RecordStandsInv, StandsInv, ShowsInv, Senders

LEMMA OpenStands ==
  ASSUME PageTypes, ShapeInv, RecordStandsInv, NEW t \in Tabs, NEW k \in Known \cup {Nil}, OpenPage(t, k)
  PROVE  RecordStandsInv'
<1>1. PICK p \in Pages :
        /\ page' = [page EXCEPT ![t] = p]
        /\ p.num = k /\ p.copy = Record(k) /\ p.grant = Record(k).grant /\ ~p.crossed
  BY OpenedPage
<1>2. ops' = ops /\ ops[t] = {} /\ UNCHANGED <<server, asked, muddled>>
  BY DEF OpenPage, ShapeInv, recordHistory
<1>3. StandsAfter(t, p, {}, muddled)
  BY <1>1 DEF StandsAfter, LoneAt, PageShows, PageCrossed
<1> QED BY <1>1, <1>2, <1>3, StandsOfPage

LEMMA TextStands ==
  ASSUME PageTypes, ShapeInv, RecordStandsInv, NEW t \in Tabs,
         (\E w \in Box : TypeText(t, w)) \/ SaveJournalDraft(t)
  PROVE  RecordStandsInv'
<1>1. PICK p \in Pages :
           /\ Open(t) /\ page' = [page EXCEPT ![t] = p] /\ SameRecord(p, page[t])
           /\ p.crossed = page[t].crossed
           /\ p.grant = page[t].grant /\ p.rows = page[t].rows /\ p.removed = page[t].removed
           /\ UNCHANGED <<server, ops, asked, muddled>>
  BY TextPage
<1>2. /\ \A n \in Known \ muddled :
           /\ Lone(n) /\ SaysInv(n) /\ ReadsInv(n)
           /\ page[t].num = n => PageShows(page[t], ops[t], n)
      /\ PageCrossed(page[t], ops[t], muddled)
      /\ \A o \in ops[t] : CreateStands(o, muddled)
      /\ t \in Senders
  BY <1>1, StandsBefore
<1>3. ASSUME NEW n \in Known \ muddled
      PROVE  /\ LoneAt(t, ops[t], n)
             /\ \A o \in ops[t] : /\ o.num = n /\ o.stage = "sent" /\ ~o.first => Fits(o, Record(n))
                                  /\ o.stage = "reading" /\ o.rd.num = n => o.rd.from = Len(server[n])
             /\ p.num = n => PageShows(p, ops[t], n)
  <2>1. LoneAt(t, ops[t], n)
    BY <1>2, <1>3, LoneFewer
  <2>2. page[t].num = n => PageShows(page[t], ops[t], n)
    BY <1>2
  <2>3. p.num = n => PageShows(p, ops[t], n)
    BY <1>1, <2>2 DEF PageShows, SameRecord
  <2> QED BY <1>2, <2>1, <2>3 DEF SaysInv, ReadsInv
<1>4. PageCrossed(p, ops[t], muddled)
  BY <1>1, <1>2 DEF PageCrossed, SameRecord
<1>5. StandsAfter(t, p, ops[t], muddled)
  BY <1>2, <1>3, <1>4 DEF StandsAfter
<1> QED BY <1>1, <1>5, StandsOfPage

(* Requests sent by a page that is left are still alone.                   *)
LEMMA LeaveStands ==
  ASSUME PageTypes, ShapeInv, RecordStandsInv, NEW t \in Tabs, LeaveStep(t)
  PROVE  RecordStandsInv'
<1>1. /\ Open(t) /\ page' = [page EXCEPT ![t] = Nil] /\ Abandon(t)
      /\ UNCHANGED <<server, asked, muddled>>
  BY DEF LeaveStep, ClosePage, KillTab
<1>2. /\ ops'[t] = {} /\ \A u \in Tabs \ {t} : ops'[u] = ops[u]
      /\ ops'[Nil] = ops[Nil] \cup {o \in ops[t] : o.stage = "sent"}
      /\ t \in Senders /\ Nil \in Senders
  BY <1>1, Abandoned DEF Senders
<1>3. \A u \in Senders : \A o \in ops'[u] : \E v \in Senders : o \in ops[v] /\ (v = u \/ (v = t /\ u = Nil))
  BY <1>2 DEF Senders
<1>4. Known' = Known /\ \A n : Record(n)' = Record(n)
  BY <1>1 DEF Known, Record
<1>5. \A u \in Tabs \ {t} : page'[u] = page[u]
  BY <1>1 DEF PageTypes
<1>6. page'[t] = Nil
  BY <1>1 DEF PageTypes
<1>7. ASSUME NEW n \in Known \ muddled PROVE StandsInv(n)'
  <2>1. StandsInv(n)
    BY DEF RecordStandsInv
  <2>2. Lone(n)'
    <3> SUFFICES ASSUME NEW u \in Senders, NEW v \in Senders, NEW o \in ops'[u], NEW q \in ops'[v],
                        About(o, n), About(q, n)
                 PROVE  u = v /\ o = q
      BY DEF Lone, About
    <3>1. PICK x \in Senders : o \in ops[x] /\ (x = u \/ (x = t /\ u = Nil))
      BY <1>3
    <3>2. PICK y \in Senders : q \in ops[y] /\ (y = v \/ (y = t /\ v = Nil))
      BY <1>3
    <3>3. x = y /\ o = q
      BY <2>1, <3>1, <3>2 DEF StandsInv, Lone
    <3>4. u # t /\ v # t
      BY <1>2
    <3> QED BY <3>1, <3>2, <3>3, <3>4
  <2>3. SaysInv(n)'
    <3> SUFFICES ASSUME NEW u \in Senders, NEW o \in ops'[u], o.num = n, o.stage = "sent", ~o.first
                 PROVE  Fits(o, Record(n))
      BY <1>4 DEF SaysInv, Fits
    <3> QED BY <1>3, <2>1 DEF StandsInv, SaysInv
  <2>4. ReadsInv(n)'
    BY <1>1, <1>3, <2>1 DEF StandsInv, ReadsInv
  <2>5. ShowsInv(n)'
    <3> SUFFICES ASSUME NEW u \in Tabs, page'[u] # Nil, page'[u].num = n
                 PROVE  PageShows(page'[u], ops'[u], n)
      BY <1>4 DEF ShowsInv, PageShows, About, Edits, Lists, Open
    <3> QED BY <1>2, <1>5, <1>6, <2>1 DEF StandsInv, ShowsInv, Open
  <2>6. Record(n)' = asked'[n]
    BY <1>1, <1>4, <2>1 DEF StandsInv
  <2> QED BY <2>2, <2>3, <2>4, <2>5, <2>6 DEF StandsInv
<1>8. \A n \in Nums \ Known' : asked'[n] = Blank
  BY <1>1, <1>4 DEF RecordStandsInv
<1>9. \A u \in Tabs : Open(u)' => PageCrossed(page[u], ops[u], muddled)'
  <2> SUFFICES ASSUME NEW u \in Tabs, page'[u] # Nil PROVE PageCrossed(page'[u], ops'[u], muddled)
    BY <1>1 DEF Open, PageCrossed
  <2> QED BY <1>2, <1>5, <1>6 DEF RecordStandsInv, Open
<1>10. \A u \in Senders : \A o \in ops'[u] : CreateStands(o, muddled)'
  <2> SUFFICES ASSUME NEW u \in Senders, NEW o \in ops'[u] PROVE CreateStands(o, muddled)
    BY <1>1, <1>4 DEF CreateStands, Fits, Blank
  <2> QED BY <1>3 DEF RecordStandsInv
<1>11. \A n \in Known' \ muddled' : StandsInv(n)'
  BY <1>1, <1>4, <1>7
<1> QED BY <1>8, <1>9, <1>10, <1>11 DEF RecordStandsInv

(* What a page asks for says what the record is, or muddles it.            *)
LEMMA SendFits ==
  ASSUME NEW o \in Asks, NEW p \in Pages, NEW n, n # Nil, MadeFrom(o, p), o.num = n, ~p.crossed, p.path = p.num,
         NEW asks, PageShows(p, asks, n), \A q \in asks : ~About(q, n),
         o.what = "involve" => ~p.removed,
         o.stage = "sent", ~o.first
  PROVE  Fits(o, Record(n))
<1>1. p.copy.types = Record(n).types /\ (p.removed \/ p.grant = Record(n).grant)
  BY DEF PageShows
<1> QED BY <1>1 DEF MadeFrom, Fits

LEMMA SendStands ==
  ASSUME PageTypes, ShapeInv, RecordCreateInv, RecordStandsInv, NEW t \in Tabs, SendStep(t)
  PROVE  RecordStandsInv'
<1>1. PICK o \in Asks, p \in Pages :
    /\ Open(t) /\ MadeFrom(o, page[t])
    /\ ops' = [ops EXCEPT ![t] = @ \cup {o}]
    /\ muddled' = muddled \cup {n \in {o.num} \ {Nil} :
                       Busy(n) \/ Shared(t, n) \/ (o.what = "involve" /\ page[t].removed)}
    /\ page' = [page EXCEPT ![t] = p]
    /\ SameRecord(p, page[t])
    /\ p.grant = page[t].grant /\ p.removed = page[t].removed
    /\ p.crossed = (page[t].crossed \/ (o.num = Nil /\ Creating(t)))
    /\ page[t].rows \subseteq p.rows /\ (o.what = "grant" => o.id \in p.rows)
    /\ UNCHANGED <<server, asked>>
  BY DEF SendStep
<1>2. /\ \A n \in Known \ muddled :
           /\ n # Nil /\ Lone(n) /\ SaysInv(n) /\ ReadsInv(n)
           /\ page[t].num = n => PageShows(page[t], ops[t], n)
      /\ PageCrossed(page[t], ops[t], muddled)
      /\ \A x \in ops[t] : CreateStands(x, muddled)
      /\ t \in Senders
  BY <1>1, StandsBefore
<1>3. page[t] \in Pages /\ CreateOf(page[t], ops[t]) /\ page[t].crossed \in BOOLEAN
  BY <1>1, OpenTyped, PageFields DEF RecordCreateInv, CreateInv
<1>4. o.num \in {page[t].num, page[t].path} /\ (o.num = Nil <=> page[t].num = Nil)
  BY <1>1 DEF MadeFrom
<1>5. muddled \subseteq muddled' /\ ops'[t] = ops[t] \cup {o} /\ \A u \in Senders \ {t} : ops'[u] = ops[u]
  BY <1>1, <1>2 DEF PageTypes
<1>6. o.rd # Nil \/ o.stage = "reading" => o.rd.num = o.num /\ o.num # Nil /\ o.rd.from = Len(server[o.num])
  <2>1. CASE o.what = "poke"
    <3>1. o.num # Nil
      BY <1>1, <2>1 DEF MadeFrom, Edits, Lists
    <3> QED BY <1>1, <2>1, <3>1 DEF MadeFrom
  <2>2. CASE o.what # "poke"
    BY <1>1, <2>2 DEF MadeFrom
  <2> QED BY <2>1, <2>2
<1>7. ASSUME NEW n \in Known \ muddled'
      PROVE  /\ LoneAt(t, ops'[t], n)
             /\ \A x \in ops'[t] : /\ x.num = n /\ x.stage = "sent" /\ ~x.first => Fits(x, Record(n))
                                   /\ x.stage = "reading" /\ x.rd.num = n => x.rd.from = Len(server[n])
             /\ p.num = n => PageShows(p, ops'[t], n)
  <2>1. n \in Known \ muddled /\ n # Nil
    BY <1>2, <1>5, <1>7
  <2>2. Lone(n) /\ SaysInv(n) /\ ReadsInv(n) /\ (page[t].num = n => PageShows(page[t], ops[t], n))
    BY <1>2, <2>1
  <2>3. About(o, n) => o.num = n
    BY <1>6 DEF About
  <2>4. o.num = n => /\ \A u \in Senders : \A x \in ops[u] : ~About(x, n)
                     /\ (o.what = "involve" => ~page[t].removed)
    BY <1>1, <1>7, <2>1 DEF Busy, About, PageTypes
  <2>5. LoneAt(t, ops'[t], n)
    BY <1>2, <1>5, <2>2, <2>3, <2>4 DEF Lone, LoneAt
  <2>6. o.num = n => ~page[t].crossed /\ page[t].num = n /\ page[t].path = page[t].num
    <3>1. page[t].crossed => o.num \in muddled \cup {Nil}
      BY <1>2, <1>4 DEF PageCrossed
    <3> QED BY <1>3, <1>4, <2>1, <3>1 DEF CreateOf
  <2>7. o.num = n /\ o.stage = "sent" /\ ~o.first => Fits(o, Record(n))
    <3> SUFFICES ASSUME o.num = n, o.stage = "sent", ~o.first PROVE Fits(o, Record(n))
      OBVIOUS
    <3>1. PageShows(page[t], ops[t], n) /\ \A x \in ops[t] : ~About(x, n)
      BY <1>2, <2>2, <2>4, <2>6
    <3> QED BY <1>1, <1>3, <2>1, <2>4, <2>6, <3>1, SendFits
  <2>8. ASSUME p.num = n PROVE PageShows(p, ops'[t], n)
    <3>1. page[t].num = n /\ o.num # Nil
      BY <1>1, <1>4, <2>1, <2>8 DEF SameRecord
    <3>2. PageShows(page[t], ops[t], n)
      BY <2>2, <3>1
    <3>3. ~p.crossed /\ p.copy = page[t].copy
      BY <1>1, <3>1, <3>2 DEF PageShows, SameRecord
    <3>4. o.what = "grant" => o.stage # "done"
      BY <1>1 DEF MadeFrom
    <3> QED BY <1>1, <1>5, <3>2, <3>3, <3>4 DEF PageShows
  <2> QED BY <1>2, <1>5, <1>6, <2>2, <2>5, <2>7, <2>8 DEF SaysInv, ReadsInv
<1>8. PageCrossed(p, ops'[t], muddled')
  <2>1. CASE page[t].crossed
    <3>1. o.num # Nil => o.num \in muddled
      BY <1>2, <1>4, <2>1 DEF PageCrossed
    <3>2. o.stage = "reading" => o.rd.num \in muddled
      BY <1>6, <3>1
    <3> QED BY <1>1, <1>2, <1>5, <2>1, <3>1, <3>2 DEF PageCrossed, SameRecord
  <2>2. CASE ~page[t].crossed /\ o.num = Nil
    <3>1. page[t].num = Nil /\ page[t].path = Nil
      BY <1>3, <1>4, <2>2 DEF CreateOf
    <3>2. \A x \in ops[t] : x.num = Nil /\ x.stage # "reading"
      BY <1>3, <3>1 DEF CreateOf
    <3>3. o.stage # "reading"
      BY <1>6, <2>2
    <3> QED BY <1>1, <1>5, <2>2, <3>1, <3>2, <3>3 DEF PageCrossed, SameRecord
  <2>3. CASE ~page[t].crossed /\ o.num # Nil
    BY <1>1, <2>3 DEF PageCrossed
  <2> QED BY <2>1, <2>2, <2>3
<1>9. CreateStands(o, muddled')
  <2> SUFFICES ASSUME o.num = Nil PROVE o.stage = "sent" /\ (~o.first => Fits(o, Blank))
    BY DEF CreateStands
  <2>1. o.what # "poke" /\ o.what # "remove" /\ o.what # "involve"
    BY <1>1 DEF MadeFrom, Edits, Lists
  <2>2. page[t].copy.types = {}
    BY <1>3, <1>4 DEF CreateOf
  <2> QED BY <1>1, <2>1, <2>2 DEF MadeFrom, Fits, Blank
<1>10. StandsAfter(t, p, ops'[t], muddled')
  <2>1. \A x \in ops'[t] : CreateStands(x, muddled')
    BY <1>2, <1>5, <1>9, CreateStays
  <2> QED BY <1>7, <1>8, <2>1 DEF StandsAfter
<1> QED BY <1>1, <1>5, <1>10, StandsOfPage

LEMMA CreatedStands ==
  ASSUME PageTypes, ShapeInv, RecordCreateInv, RecordStandsInv, NEW t \in Tabs, NEW o \in ops[t], Created(t, o)
  PROVE  RecordStandsInv'
<1> DEFINE k == o.rd.num
<1>1. PICK p \in Pages, q \in Asks :
           /\ Open(t) /\ page[t] \in Pages /\ AskShape(o) /\ CreateInv(t)
           /\ k \in Known /\ k # Nil /\ o.rd # Nil /\ o.num = Nil /\ o.stage = "done"
           /\ page' = [page EXCEPT ![t] = p] /\ p.path = k /\ p.num = k
           /\ p.copy = page[t].copy /\ p.crossed = page[t].crossed /\ p.grant = page[t].grant
           /\ q.num = k /\ q.stage = "named" /\ q.rd = o.rd
           /\ q.what = o.what /\ q.first = o.first
           /\ ops'[t] = (ops[t] \ {o}) \cup {q} /\ \A u \in Senders \ {t} : ops'[u] = ops[u]
  BY CreatedPage
<1>2. /\ \A n \in Known \ muddled :
           /\ n # Nil /\ Lone(n) /\ SaysInv(n) /\ ReadsInv(n)
      /\ PageCrossed(page[t], ops[t], muddled)
      /\ \A x \in ops[t] : CreateStands(x, muddled)
      /\ t \in Senders
  BY <1>1, StandsBefore
<1>3. muddled' = muddled \cup {n \in {k} : page[t].crossed} /\ UNCHANGED <<server, asked>>
  BY DEF Created
<1>4. page[t].crossed \in BOOLEAN /\ CreateOf(page[t], ops[t]) /\ Edits(o)
  BY <1>1, PageFields DEF CreateInv, AskShape
<1> HIDE DEF k
<1>5. ASSUME NEW n \in Known \ muddled'
      PROVE  /\ LoneAt(t, ops'[t], n)
             /\ \A x \in ops'[t] : /\ x.num = n /\ x.stage = "sent" /\ ~x.first => Fits(x, Record(n))
                                   /\ x.stage = "reading" /\ x.rd.num = n => x.rd.from = Len(server[n])
             /\ p.num = n => PageShows(p, ops'[t], n)
  <2>1. n \in Known \ muddled /\ n # Nil /\ Lone(n) /\ SaysInv(n) /\ ReadsInv(n)
    BY <1>2, <1>3, <1>5
  <2>2. LoneAt(t, ops'[t], n)
    <3>1. About(q, n) => About(o, n)
      BY <1>1 DEF About, k
    <3>2. LoneAt(t, (ops[t] \ {o}) \cup {q}, n)
      BY <1>2, <2>1, <3>1, LoneTurned
    <3>3. ops'[t] = (ops[t] \ {o}) \cup {q}
      BY <1>1
    <3> QED BY <3>2, <3>3, Zenon
  <2>3. ASSUME p.num = n PROVE PageShows(p, ops'[t], n)
    <3>1. n = k /\ ~page[t].crossed
      BY <1>1, <1>3, <1>5, <2>3
    <3>2. page[t].num = Nil
      BY <1>1, <1>4, <3>1 DEF CreateOf
    <3>3. \A x \in ops[t] : x = o
      BY <1>1, <1>4, <3>1, <3>2 DEF CreateOf
    <3>4. ops'[t] = {q}
      BY <1>1, <3>3
    <3>5. ~page[t].grant
      BY <1>4, <3>2 DEF CreateOf
    <3>6. About(q, n) /\ Edits(q) /\ q.what # "grant"
      <4>1. q.what # "grant"
        BY <1>1, <1>4 DEF AskShape, Edits, Lists
      <4> QED BY <1>1, <1>4, <3>1, <4>1 DEF About, Edits
    <3>7. ~Record(n).grant /\ Record(n).grant \in BOOLEAN /\ page[t].grant \in BOOLEAN
      <4>1. CreateStands(o, muddled)
        BY <1>2
      <4>2. Record(n).grant \in BOOLEAN
        BY <2>1, RecordTyped DEF Versions
      <4> QED BY <1>1, <2>1, <3>1, <4>1, <4>2, PageFields DEF CreateStands, k
    <3> QED BY <1>1, <3>1, <3>4, <3>5, <3>6, <3>7 DEF PageShows
  <2> QED BY <1>1, <1>2, <2>1, <2>2, <2>3 DEF SaysInv, ReadsInv
<1>6. PageCrossed(p, ops'[t], muddled')
  <2>1. page[t].crossed => k \in muddled'
    BY <1>3
  <2> QED BY <1>1, <1>2, <1>3, <2>1 DEF PageCrossed
<1>7. CreateStands(q, muddled')
  BY <1>1 DEF CreateStands
<1>8. StandsAfter(t, p, ops'[t], muddled')
  <2>1. \A x \in ops'[t] : CreateStands(x, muddled')
    BY <1>1, <1>2, <1>3, <1>7, CreateStays
  <2> QED BY <1>5, <1>6, <2>1 DEF StandsAfter
<1> QED BY <1>1, <1>3, <1>8, StandsOfPage

LEMMA ReadStands ==
  ASSUME PageTypes, ShapeInv, RecordCreateInv, RecordStandsInv, NEW t \in Tabs, ReadStep(t)
  PROVE  RecordStandsInv'
<1>1. PICK o \in ops[t], q \in Asks :
    /\ Open(t) /\ page[t] \in Pages /\ AskShape(o) /\ CreateInv(t)
    /\ page[t].num \in Known /\ page[t].num # Nil
    /\ Edits(o) \/ o.what \in {"file", "strike"}
    /\ q.id = o.id /\ q.what = o.what /\ q.num = o.num /\ q.first = o.first
    /\ q.stage = "reading" /\ q.rd # Nil /\ q.rd.num = page[t].num
    /\ q.rd.from = Len(server[page[t].num])
    /\ ops'[t] = (ops[t] \ {o}) \cup {q} /\ \A u \in Senders \ {t} : ops'[u] = ops[u]
    /\ UNCHANGED <<server, page, recordHistory>>
  BY ReadAsks
<1>2. /\ \A n \in Known \ muddled :
           /\ n # Nil /\ Lone(n) /\ SaysInv(n) /\ ReadsInv(n)
           /\ page[t].num = n => PageShows(page[t], ops[t], n)
      /\ PageCrossed(page[t], ops[t], muddled)
      /\ \A x \in ops[t] : CreateStands(x, muddled)
      /\ t \in Senders
  BY <1>1, StandsBefore
<1>3. page[t].crossed \in BOOLEAN /\ CreateOf(page[t], ops[t])
  BY <1>1, PageFields DEF CreateInv
<1>4. o.what # "grant" /\ o.what # "unperson"
  BY <1>1 DEF AskShape, Edits, Lists
<1>5. ASSUME NEW n \in Known \ muddled
      PROVE  /\ LoneAt(t, ops'[t], n)
             /\ \A x \in ops'[t] : /\ x.num = n /\ x.stage = "sent" /\ ~x.first => Fits(x, Record(n))
                                   /\ x.stage = "reading" /\ x.rd.num = n => x.rd.from = Len(server[n])
             /\ page[t].num = n => PageShows(page[t], ops'[t], n)
  <2>1. n # Nil /\ Lone(n) /\ SaysInv(n) /\ ReadsInv(n)
    BY <1>2, <1>5
  <2>2. page[t].num = n => o.num = n
    <3>1. page[t].crossed => page[t].num \in muddled
      BY <1>1, <1>2 DEF PageCrossed
    <3> QED BY <1>1, <1>3, <1>5, <3>1 DEF CreateOf
  <2>3. About(q, n) => About(o, n)
    BY <1>1, <2>2 DEF About
  <2>4. LoneAt(t, ops'[t], n)
    <3>1. LoneAt(t, (ops[t] \ {o}) \cup {q}, n)
      BY <1>2, <2>1, <2>3, LoneTurned
    <3>2. ops'[t] = (ops[t] \ {o}) \cup {q}
      BY <1>1
    <3> QED BY <3>1, <3>2, Zenon
  <2>5. ASSUME page[t].num = n PROVE PageShows(page[t], ops'[t], n)
    <3>1. PageShows(page[t], ops[t], n) /\ About(q, n) /\ q.what # "grant" /\ (Edits(q) <=> Edits(o))
      BY <1>1, <1>2, <1>4, <1>5, <2>2, <2>5 DEF About, Edits
    <3> QED BY <1>1, <1>4, <3>1 DEF PageShows
  <2> QED BY <1>1, <1>2, <2>1, <2>4, <2>5 DEF SaysInv, ReadsInv
<1>6. PageCrossed(page[t], ops'[t], muddled)
  BY <1>1, <1>2 DEF PageCrossed
<1>7. \A x \in ops'[t] : CreateStands(x, muddled)
  BY <1>1, <1>2 DEF CreateStands
<1>8. StandsAfter(t, page[t], ops'[t], muddled)
  BY <1>5, <1>6, <1>7 DEF StandsAfter
<1>9. page' = [page EXCEPT ![t] = page[t]] /\ asked' = asked /\ muddled' = muddled
  BY <1>1 DEF PageTypes, recordHistory
<1> QED BY <1>1, <1>8, <1>9, StandsOfPage

LEMMA DropStands ==
  ASSUME PageTypes, ShapeInv, RecordCreateInv, RecordStandsInv, NEW t \in Tabs, DropStep(t)
  PROVE  RecordStandsInv'
<1>1. PICK o \in ops[t], p \in Pages :
    /\ Open(t) /\ ~Edits(o)
    /\ ops' = [ops EXCEPT ![t] = @ \ {o}] /\ page' = [page EXCEPT ![t] = p]
    /\ SameRecord(p, page[t]) /\ p.rows = page[t].rows /\ p.crossed = page[t].crossed
    /\ p.removed = (page[t].removed \/ (o.what = "unperson" /\ o.stage = "done"))
    /\ p.grant = IF o.what = "grant" /\ o.stage = "done" /\ o.id \in page[t].rows
                 THEN o.arg ELSE page[t].grant
    /\ UNCHANGED <<server, recordHistory>>
  BY DEF DropStep
<1>2. /\ \A n \in Known \ muddled :
           /\ n # Nil /\ Lone(n) /\ SaysInv(n) /\ ReadsInv(n)
           /\ page[t].num = n => PageShows(page[t], ops[t], n)
      /\ PageCrossed(page[t], ops[t], muddled)
      /\ \A x \in ops[t] : CreateStands(x, muddled)
      /\ t \in Senders
  BY <1>1, StandsBefore
<1>3. page[t] \in Pages /\ CreateOf(page[t], ops[t]) /\ o.num # Nil
  BY <1>1, AskerOpen DEF CreateInv, AskShape
<1>4. ops'[t] = ops[t] \ {o} /\ \A u \in Senders \ {t} : ops'[u] = ops[u]
  BY <1>1, <1>2 DEF PageTypes
<1>5. ASSUME NEW n \in Known \ muddled
      PROVE  /\ LoneAt(t, ops'[t], n)
             /\ \A x \in ops'[t] : /\ x.num = n /\ x.stage = "sent" /\ ~x.first => Fits(x, Record(n))
                                   /\ x.stage = "reading" /\ x.rd.num = n => x.rd.from = Len(server[n])
             /\ p.num = n => PageShows(p, ops'[t], n)
  <2>1. n # Nil /\ Lone(n) /\ SaysInv(n) /\ ReadsInv(n)
    BY <1>2, <1>5
  <2>2. LoneAt(t, ops'[t], n)
    BY <1>2, <1>4, <2>1, LoneFewer
  <2>3. ASSUME p.num = n PROVE PageShows(p, ops'[t], n)
    <3>1. page[t].num = n /\ PageShows(page[t], ops[t], n)
      BY <1>1, <1>2, <1>5, <2>3 DEF SameRecord
    <3>2. About(o, n)
      BY <1>3, <2>1, <3>1 DEF PageShows, CreateOf, About
    <3>3. \A x \in ops[t] : About(x, n) => x = o
      BY <1>2, <2>1, <3>2 DEF Lone
    <3>4. \/ p.copy.types = Record(n).types
          \/ \E x \in ops'[t] : About(x, n) /\ Edits(x)
      BY <1>1, <1>4, <3>1 DEF PageShows, SameRecord
    <3>5. p.removed \/ p.grant = Record(n).grant
      <4>1. o.what = "grant" => o.id \in page[t].rows /\ (o.stage = "done" => o.arg = Record(n).grant)
        BY <3>1 DEF PageShows
      <4>2. CASE page[t].removed
        BY <1>1, <4>2
      <4>3. CASE page[t].grant = Record(n).grant
        BY <1>1, <4>1, <4>3
      <4>4. CASE o.stage = "done" /\ o.what \in {"grant", "unperson"}
        BY <1>1, <4>1, <4>4
      <4> QED BY <3>1, <3>3, <4>2, <4>3, <4>4 DEF PageShows
    <3> QED BY <1>1, <1>4, <3>1, <3>4, <3>5 DEF PageShows
  <2> QED BY <1>2, <1>4, <2>1, <2>2, <2>3 DEF SaysInv, ReadsInv
<1>6. PageCrossed(p, ops'[t], muddled)
  BY <1>1, <1>2, <1>4 DEF PageCrossed, SameRecord
<1>7. StandsAfter(t, p, ops'[t], muddled)
  BY <1>2, <1>4, <1>5, <1>6 DEF StandsAfter
<1>8. asked' = asked /\ muddled' = muddled
  BY <1>1 DEF recordHistory
<1> QED BY <1>1, <1>4, <1>7, <1>8, StandsOfPage

LEMMA FollowOne == \A o, p, err : \A q, r \in Follow(o, p, err) : q = r
BY DEF Follow

LEMMA FinishStands ==
  ASSUME PageTypes, ShapeInv, RecordCreateInv, RecordStandsInv, NEW t \in Tabs, FinishStep(t)
  PROVE  RecordStandsInv'
<1>1. PICK o \in ops[t], p \in Pages, err \in BOOLEAN :
    /\ Finish(t, o, p, err) /\ Redraws(p, page[t]) /\ o \in Asks /\ AskShape(o)
    /\ Open(t) /\ page[t] \in Pages /\ CreateInv(t)
    /\ \/ /\ page[t].num = Nil /\ o.stage = "failed" /\ err
          /\ p.num = Nil /\ muddled' = muddled
       \/ /\ o.stage = "reading" /\ p.num = o.rd.num /\ muddled' = muddled
          /\ \E i \in o.rd.from .. Len(server[o.rd.num]) : p.copy = server[o.rd.num][i]
       \/ /\ o.stage = "reading" /\ p.num = page[t].num /\ p.copy = page[t].copy
          /\ muddled' = muddled \cup {o.rd.num}
    /\ o.stage = "reading" \/ err
    /\ o.stage = "reading" => /\ page[t].num # Nil /\ p.num # Nil /\ p.path # Nil
                              /\ p.num \in Known /\ p.path \in Known /\ o.rd.num \in Known /\ o.rd # Nil
    /\ UNCHANGED <<server, asked>>
  BY FinishCases
<1>2. PICK r \in Pages : r = Returned(o, p, err)
  BY <1>1, ReturnChanges
<1>3. /\ page' = [page EXCEPT ![t] = r]
      /\ \A u \in Senders \ {t} : ops'[u] = ops[u]
      /\ ops'[t] = (ops[t] \ {o}) \cup Follow(o, p, err)
      /\ \A q \in Follow(o, p, err) : Followed(q, o, p) /\ o.first /\ ~err
  BY <1>1, <1>2, Finishing
<1>4. r.path = p.path /\ r.num = p.num /\ r.copy = p.copy /\ r.crossed = p.crossed
      /\ r.grant = p.grant /\ r.rows = p.rows /\ r.removed = p.removed
  BY <1>1, <1>2, ReturnChanges DEF SameRecord
<1>5. p.path = page[t].path /\ p.crossed = page[t].crossed
      /\ \/ p.grant = p.copy.grant
         \/ p.grant = page[t].grant /\ p.rows = page[t].rows /\ p.removed = page[t].removed
  BY <1>1 DEF Redraws, SameText
<1>6. /\ \A n \in Known \ muddled :
           /\ n # Nil /\ Lone(n) /\ SaysInv(n) /\ ReadsInv(n)
           /\ page[t].num = n => PageShows(page[t], ops[t], n)
      /\ PageCrossed(page[t], ops[t], muddled)
      /\ \A x \in ops[t] : CreateStands(x, muddled)
      /\ t \in Senders
  BY <1>1, StandsBefore
<1>7. page[t].crossed \in BOOLEAN /\ CreateOf(page[t], ops[t]) /\ muddled \subseteq muddled'
  BY <1>1, PageFields DEF CreateInv
<1> DEFINE more == Follow(o, p, err)
<1>8. \A q \in more : /\ q.num # Nil /\ q.num \in {p.num, p.path} /\ ~q.first /\ q.stage = "sent" /\ q.rd = Nil
                      /\ q.what \in {"link", "file", "relate", "person"}
                      /\ q.what = "link" => q.arg = p.copy.types \cup {q.item}
                      /\ o.stage = "reading"
  BY <1>1, <1>3 DEF Followed
<1>9. ops'[t] = (ops[t] \ {o}) \cup more
  BY <1>3
<1>10. \A q, x \in more : q = x
  BY FollowOne
<1> HIDE DEF more
<1>11. ASSUME NEW n \in Known \ muddled'
       PROVE  /\ LoneAt(t, ops'[t], n)
              /\ \A x \in ops'[t] : /\ x.num = n /\ x.stage = "sent" /\ ~x.first => Fits(x, Record(n))
                                    /\ x.stage = "reading" /\ x.rd.num = n => x.rd.from = Len(server[n])
              /\ r.num = n => PageShows(r, ops'[t], n)
  <2>1. n \in Known \ muddled /\ n # Nil /\ Lone(n) /\ SaysInv(n) /\ ReadsInv(n)
    BY <1>6, <1>7, <1>11
  <2>2. ASSUME (\E q \in more : q.num = n) \/ r.num = n
        PROVE  /\ o.stage = "reading" /\ o.num = n /\ o.rd.num = n /\ page[t].num = n /\ ~page[t].crossed
               /\ p.copy = Record(n)
    <3>1. o.stage = "reading"
      BY <1>1, <1>4, <1>8, <2>1, <2>2
    <3>2. n \in {p.num, p.path}
      BY <1>4, <1>8, <2>2
    <3>3. n \in {o.rd.num, page[t].num, page[t].path}
      BY <1>1, <1>5, <3>1, <3>2
    <3>4. ~page[t].crossed
      BY <1>6, <2>1, <3>1, <3>3 DEF PageCrossed
    <3>5. o.num = n /\ o.rd.num = n /\ page[t].num = n
      BY <1>1, <1>7, <3>1, <3>3, <3>4 DEF CreateOf
    <3>6. p.copy = Record(n)
      <4>1. PICK i \in o.rd.from .. Len(server[n]) : p.copy = server[n][i]
        BY <1>1, <1>11, <3>1, <3>5
      <4>2. o.rd.from = Len(server[n])
        BY <1>6, <2>1, <3>1, <3>5 DEF ReadsInv
      <4> QED BY <2>1, <4>1, <4>2, RecordTyped
    <3> QED BY <3>1, <3>4, <3>5, <3>6
  <2>3. LoneAt(t, ops'[t], n)
    <3>1. \A q \in more : About(q, n) => About(o, n)
      BY <1>8, <2>2 DEF About
    <3>2. LoneAt(t, (ops[t] \ {o}) \cup more, n)
      BY <1>6, <1>10, <2>1, <3>1, LoneReplaced
    <3> QED BY <1>9, <3>2, Zenon
  <2>4. ASSUME NEW x \in ops'[t]
        PROVE  /\ x.num = n /\ x.stage = "sent" /\ ~x.first => Fits(x, Record(n))
               /\ x.stage = "reading" /\ x.rd.num = n => x.rd.from = Len(server[n])
    <3>1. CASE x \in ops[t]
      BY <1>6, <2>1, <3>1 DEF SaysInv, ReadsInv
    <3>2. CASE x \in more
      <4>1. x.num = n => p.copy = Record(n)
        BY <2>2, <3>2
      <4> QED BY <1>8, <3>2, <4>1 DEF Fits
    <3> QED BY <1>9, <3>1, <3>2
  <2>5. ASSUME r.num = n PROVE PageShows(r, ops'[t], n)
    <3>1. /\ o.stage = "reading" /\ o.num = n /\ page[t].num = n /\ ~page[t].crossed
          /\ p.copy = Record(n) /\ About(o, n)
      BY <2>2, <2>5 DEF About
    <3>2. PageShows(page[t], ops[t], n)
      BY <1>6, <2>1, <3>1
    <3>3. \A x \in ops[t] : x = o
      <4>1. \A x \in ops[t] : x.num = n
        BY <1>7, <2>1, <3>1 DEF CreateOf
      <4> QED BY <1>6, <2>1, <3>1, <4>1 DEF Lone, About
    <3>4. \A x \in ops'[t] : x.what # "grant"
      BY <1>8, <1>9, <3>3
    <3>5. r.removed \/ r.grant = Record(n).grant
      BY <1>4, <1>5, <3>1, <3>2, <3>3 DEF PageShows
    <3> QED BY <1>4, <1>5, <3>1, <3>4, <3>5 DEF PageShows
  <2> QED BY <2>3, <2>4, <2>5
<1>12. PageCrossed(r, ops'[t], muddled')
  <2> SUFFICES ASSUME page[t].crossed PROVE PageCrossed(r, ops'[t], muddled')
    BY <1>4, <1>5 DEF PageCrossed
  <2>1. {page[t].path, page[t].num} \subseteq muddled' \cup {Nil} /\ (o.stage = "reading" => o.rd.num \in muddled')
    BY <1>6, <1>7 DEF PageCrossed
  <2>2. {p.path, p.num} \subseteq muddled' \cup {Nil}
    BY <1>1, <1>5, <2>1
  <2>3. \A q \in more : q.num \in muddled' /\ q.stage # "reading"
    BY <1>8, <2>2
  <2>4. \A x \in ops[t] : /\ x.num # Nil => x.num \in muddled'
                          /\ x.stage = "reading" => x.rd.num \in muddled'
    BY <1>6, <1>7 DEF PageCrossed
  <2> QED BY <1>4, <1>9, <2>2, <2>3, <2>4 DEF PageCrossed
<1>13. \A x \in ops'[t] : CreateStands(x, muddled')
  <2>1. \A x \in more : CreateStands(x, muddled')
    BY <1>8 DEF CreateStands
  <2> QED BY <1>6, <1>7, <1>9, <2>1, CreateStays
<1>14. StandsAfter(t, r, ops'[t], muddled')
  BY <1>11, <1>12, <1>13 DEF StandsAfter
<1> QED BY <1>1, <1>3, <1>7, <1>14, StandsOfPage

LEMMA RefuseStands ==
  ASSUME PageTypes, ShapeInv, RecordStandsInv, NEW u \in Senders, NEW o \in ops[u], RefuseRequest(u, o)
  PROVE  RecordStandsInv'
<1>1. /\ u # Nil /\ u \in Tabs /\ o.stage = "sent" /\ o \in Asks /\ AskShape(o) /\ Open(u)
      /\ UNCHANGED <<server, page, recordHistory>>
  BY DEF RefuseRequest, Senders, PageTypes, ShapeInv
<1>2. PICK q \in Asks : q = [o EXCEPT !.stage = "failed"]
  BY <1>1 DEF Asks
<1>3. ops'[u] = (ops[u] \ {o}) \cup {q} /\ \A x \in Senders \ {u} : ops'[x] = ops[x]
  BY <1>2 DEF RefuseRequest, PageTypes
<1>4. q.num = o.num /\ q.stage = "failed" /\ q.rd = Nil /\ q.what = o.what /\ q.first = o.first /\ q.id = o.id
  BY <1>1, <1>2 DEF Asks, AskShape
<1>5. /\ \A n \in Known \ muddled :
           /\ n # Nil /\ Lone(n) /\ SaysInv(n) /\ ReadsInv(n)
           /\ page[u].num = n => PageShows(page[u], ops[u], n)
      /\ PageCrossed(page[u], ops[u], muddled)
      /\ \A x \in ops[u] : CreateStands(x, muddled)
  BY <1>1, StandsBefore
<1>6. ASSUME NEW n \in Known \ muddled
      PROVE  /\ LoneAt(u, ops'[u], n)
             /\ \A x \in ops'[u] : /\ x.num = n /\ x.stage = "sent" /\ ~x.first => Fits(x, Record(n))
                                   /\ x.stage = "reading" /\ x.rd.num = n => x.rd.from = Len(server[n])
             /\ page[u].num = n => PageShows(page[u], ops'[u], n)
  <2>1. LoneAt(u, ops'[u], n)
    <3>1. About(q, n) => About(o, n)
      BY <1>4 DEF About
    <3>2. LoneAt(u, (ops[u] \ {o}) \cup {q}, n)
      BY <1>5, <3>1, LoneTurned
    <3> QED BY <1>3, <3>2, Zenon
  <2>2. ASSUME page[u].num = n PROVE PageShows(page[u], ops'[u], n)
    <3>1. PageShows(page[u], ops[u], n)
      BY <1>5, <2>2
    <3>2. (About(o, n) => About(q, n)) /\ (Edits(q) <=> Edits(o))
      BY <1>1, <1>4 DEF About, Edits, AskShape
    <3> QED BY <1>1, <1>3, <1>4, <3>1, <3>2 DEF PageShows
  <2> QED BY <1>3, <1>4, <1>5, <2>1, <2>2 DEF SaysInv, ReadsInv
<1>7. PageCrossed(page[u], ops'[u], muddled)
  BY <1>3, <1>4, <1>5 DEF PageCrossed
<1>8. \A x \in ops'[u] : CreateStands(x, muddled)
  BY <1>3, <1>4, <1>5 DEF CreateStands
<1>9. StandsAfter(u, page[u], ops'[u], muddled)
  BY <1>6, <1>7, <1>8 DEF StandsAfter
<1>10. page' = [page EXCEPT ![u] = page[u]] /\ asked' = asked /\ muddled' = muddled /\ page[u] \in Pages
  BY <1>1, OpenTyped DEF PageTypes, recordHistory
<1> QED BY <1>1, <1>3, <1>9, <1>10, StandsOfPage

(* What an edit that fits the record does is what its user asked for.      *)
LEMMA EffectIsWish ==
  ASSUME NEW o \in Asks, AskShape(o), o.stage = "sent", NEW v \in Versions,
         ~(o.what = "person" /\ ~o.first), ~o.first => Fits(o, v)
  PROVE  Effect(o, v) = Wish(o, v)
<1>1. CASE o.first
  BY <1>1 DEF Effect, Wish
<1>2. CASE ~o.first /\ o.what \in Lists
  BY <1>2 DEF Effect, Wish, Fits, Lists, Versions
<1>3. CASE ~o.first /\ o.what = "grant"
  BY <1>3 DEF Effect, Wish, AskShape, Lists, Versions
<1>4. CASE ~o.first /\ o.what = "involve"
  <2>1. [v EXCEPT !.grant = o.arg] = v
    BY <1>4 DEF Fits, Versions
  <2> QED BY <1>4, <2>1 DEF Effect, Wish, Lists
<1>5. CASE ~o.first /\ o.what = "unperson"
  BY <1>5 DEF Effect, Wish, Lists
<1>6. CASE ~o.first /\ o.what \notin Lists \cup {"grant", "involve", "unperson", "person"}
  BY <1>6 DEF Effect, Wish, Lists
<1> QED BY <1>1, <1>2, <1>3, <1>4, <1>5, <1>6

(* What it leaves alone.                                                   *)
LEMMA EffectKeeps ==
  ASSUME NEW o \in Asks, AskShape(o), o.stage = "sent", NEW v \in Versions
  PROVE  /\ ~Edits(o) => Effect(o, v).types = v.types
         /\ /\ o.what \notin {"grant", "unperson"}
            /\ ~(o.what = "person" /\ ~o.first)
            /\ ~o.first => Fits(o, v)
            => Effect(o, v).grant = v.grant
         /\ o.what = "grant" => Effect(o, v).grant = o.arg
         /\ Edits(o) => Effect(o, v).grant = v.grant
<1>1. CASE o.first
  BY <1>1 DEF Effect, AskShape, Edits
<1>2. CASE ~o.first /\ o.what \in Lists
  BY <1>2 DEF Effect, Lists, Versions, Edits
<1>3. CASE ~o.first /\ o.what \in {"grant", "involve", "unperson", "person"}
  BY <1>3 DEF Effect, Fits, Lists, Versions, Edits
<1>4. CASE ~o.first /\ o.what \notin Lists \cup {"grant", "involve", "unperson", "person"}
  BY <1>4 DEF Effect, Lists
<1> QED BY <1>1, <1>2, <1>3, <1>4

(* Its answer takes its place, if anyone waits for it.                     *)
Turned(u, o, lost, more) ==
  /\ ops'[u] = (ops[u] \ {o}) \cup more /\ \A x \in Senders \ {u} : ops'[x] = ops[x]
  /\ \A q \in more :
       /\ q.id = o.id /\ q.what = o.what /\ q.num = o.num /\ q.first = o.first /\ q.arg = o.arg
       /\ IF lost THEN q.stage = "failed" /\ q.rd = Nil
          ELSE q.stage = "done" /\ q.rd # Nil /\ q.rd.num = Target(o)
  /\ \A q, x \in more : q = x
  /\ u \in Tabs => more # {}

LEMMA ApplyTurns ==
  ASSUME PageTypes, ShapeInv, NEW u \in Senders, NEW o \in ops[u], NEW lost \in BOOLEAN, Apply(u, o, lost)
  PROVE  \E more \in SUBSET Asks : Turned(u, o, lost, more)
<1>1. CASE u \in Tabs
  <2>1. PICK q \in Asks :
           /\ ops'[u] = (ops[u] \ {o}) \cup {q} /\ \A x \in Senders \ {u} : ops'[x] = ops[x]
           /\ q.id = o.id /\ q.what = o.what /\ q.num = o.num /\ q.first = o.first /\ q.arg = o.arg
           /\ IF lost THEN q.stage = "failed" /\ q.rd = Nil
              ELSE q.stage = "done" /\ q.rd # Nil /\ q.rd.num = Target(o)
    BY <1>1, ApplyAnswers
  <2>2. Turned(u, o, lost, {q})
    BY <2>1 DEF Turned
  <2> QED BY <2>2
<1>2. CASE u \notin Tabs
  <2>1. u = Nil /\ ops'[u] = ops[u] \ {o} /\ \A x \in Senders \ {u} : ops'[x] = ops[x]
    BY <1>2 DEF Senders, Apply, PageTypes
  <2>2. Turned(u, o, lost, {})
    BY <1>2, <2>1 DEF Turned
  <2> QED BY <2>2
<1> QED BY <1>1, <1>2

(* What the pages show is left as it is.                                   *)
LEMMA ApplyPages ==
  ASSUME PageTypes, ShapeInv, NEW u \in Senders, NEW o \in ops[u], NEW lost \in BOOLEAN, Apply(u, o, lost)
  PROVE  \A t \in Tabs :
           /\ page'[t] # Nil <=> Open(t)
           /\ Open(t) => /\ SameRecord(page'[t], page[t]) /\ page'[t].grant = page[t].grant
                         /\ page'[t].rows = page[t].rows /\ page'[t].removed = page[t].removed
                         /\ page'[t].crossed = (page[t].crossed \/ (t = u /\ o.num = Nil /\ lost))
<1> SUFFICES ASSUME NEW t \in Tabs
             PROVE  /\ page'[t] # Nil <=> Open(t)
                    /\ Open(t) => /\ SameRecord(page'[t], page[t]) /\ page'[t].grant = page[t].grant
                                  /\ page'[t].rows = page[t].rows /\ page'[t].removed = page[t].removed
                                  /\ page'[t].crossed = (page[t].crossed \/ (t = u /\ o.num = Nil /\ lost))
  OBVIOUS
<1>0. Open(t) => page[t].crossed \in BOOLEAN
  BY OpenTyped, PageFields
<1>1. CASE u \in Tabs
  <2>1. PICK r \in Pages :
           /\ page' = [page EXCEPT ![u] = r]
           /\ SameRecord(r, page[u])
           /\ r.grant = page[u].grant /\ r.rows = page[u].rows /\ r.removed = page[u].removed
           /\ IF o.num = Nil THEN r.crossed = (page[u].crossed \/ lost) ELSE r.crossed = page[u].crossed
    BY <1>1, ApplyPage
  <2>2. Open(u) /\ r # Nil
    BY <1>1, ApplyAnswers, NilApart
  <2>3. CASE t = u
    <3>1. page'[t] = r
      BY <2>1, <2>3 DEF PageTypes
    <3> QED BY <1>0, <2>1, <2>2, <2>3, <3>1 DEF SameRecord
  <2>4. CASE t # u
    <3>1. page'[t] = page[t]
      BY <2>1, <2>4 DEF PageTypes
    <3> QED BY <1>0, <2>4, <3>1 DEF SameRecord, Open
  <2> QED BY <2>3, <2>4
<1>2. CASE u \notin Tabs
  <2>1. page' = page /\ t # u
    BY <1>2 DEF Senders, Apply
  <2> QED BY <1>0, <2>1 DEF SameRecord, Open
<1> QED BY <1>1, <1>2

(* The pages show what they showed, and who muddles the record.            *)
SamePages(u, o, lost) ==
  \A t \in Tabs :
    /\ page'[t] # Nil <=> Open(t)
    /\ Open(t) => /\ SameRecord(page'[t], page[t]) /\ page'[t].grant = page[t].grant
                  /\ page'[t].rows = page[t].rows /\ page'[t].removed = page[t].removed
                  /\ page'[t].crossed = (page[t].crossed \/ (t = u /\ o.num = Nil /\ lost))

Muddles(u, o, lost) ==
  muddled' = muddled \cup
     (IF lost \/ Shared(u, Target(o)) \/ (o.what = "person" /\ ~o.first) THEN {Target(o)} ELSE {})

LEMMA ApplyFacts ==
  ASSUME PageTypes, ShapeInv, NEW u \in Senders, NEW o \in ops[u], NEW lost \in BOOLEAN, Apply(u, o, lost)
  PROVE  /\ o \in Asks /\ AskShape(o) /\ o.stage = "sent" /\ o.rd = Nil
         /\ Target(o) \in Nums /\ Target(o) # Nil
         /\ o.num # Nil => Target(o) = o.num /\ Target(o) \in Known
         /\ o.num = Nil => Target(o) \notin Known /\ Edits(o)
         /\ Known' = Known \cup {Target(o)}
         /\ \A n \in Known' : Record(n)' = IF n = Target(o) THEN Outcome(o) ELSE Record(n)
         /\ \A n \in Known \ {Target(o)} : server'[n] = server[n]
         /\ asked' = [asked EXCEPT ![Target(o)] = Wish(o, @)]
         /\ Muddles(u, o, lost) /\ SamePages(u, o, lost)
<1>1. Writes(o) /\ o \in Asks /\ AskShape(o) /\ o.stage = "sent" /\ o.rd = Nil /\ Len(server) \in Nums
  BY ApplyWrites
<1>2. Len(server) \in Nat
  BY <1>1, NilApart
<1>3. /\ o.num # Nil => Target(o) = o.num /\ Target(o) \in Known
      /\ o.num = Nil => Target(o) \notin Known /\ Edits(o)
      /\ Known' = Known \cup {Target(o)}
  BY <1>1, <1>2 DEF AskShape, Target, Writes, Known
<1>4. \A n \in Known' : Record(n)' = IF n = Target(o) THEN Outcome(o) ELSE Record(n)
  BY <1>1, ApplyTypes, WritesRecord
<1>5. SamePages(u, o, lost)
  BY ApplyPages DEF SamePages
<1>6. Muddles(u, o, lost) /\ asked' = [asked EXCEPT ![Target(o)] = Wish(o, @)]
  BY DEF Apply, Target, Muddles
<1> QED BY <1>1, <1>3, <1>4, <1>5, <1>6 DEF Writes

(* The records the request does not write.                                 *)
LEMMA ApplyElsewhere ==
  ASSUME PageTypes, ShapeInv, RecordCreateInv, RecordStandsInv,
         NEW u \in Senders, NEW o \in ops[u], NEW lost \in BOOLEAN, Apply(u, o, lost),
         NEW more \in SUBSET Asks, Turned(u, o, lost, more),
         NEW n \in Known \ muddled, n # Target(o)
  PROVE  StandsInv(n)'
<1>1. /\ o.rd = Nil /\ (o.num # Nil => Target(o) = o.num) /\ n # Nil /\ n \in Nums
      /\ Record(n)' = Record(n) /\ server'[n] = server[n] /\ asked'[n] = asked[n]
      /\ SamePages(u, o, lost) /\ Nil # n
  <2>1. n \in Nums /\ n # Nil
    BY NilApart DEF Known, PageTypes, Nums
  <2> QED BY <2>1, ApplyFacts DEF PageTypes
<1>2. StandsInv(n)
  BY DEF RecordStandsInv
<1>3. ~About(o, n) /\ \A q \in more : ~About(q, n)
  BY <1>1 DEF About, Turned
<1>4. \A x \in Senders : \A q \in ops'[x] : About(q, n) => q \in ops[x]
  BY <1>3 DEF Turned
<1>5. Lone(n)'
  <2> SUFFICES ASSUME NEW x \in Senders, NEW y \in Senders, NEW q \in ops'[x], NEW r \in ops'[y],
                      About(q, n), About(r, n)
               PROVE  x = y /\ q = r
    BY DEF Lone, About
  <2> QED BY <1>2, <1>4 DEF StandsInv, Lone
<1>6. SaysInv(n)'
  <2> SUFFICES ASSUME NEW x \in Senders, NEW q \in ops'[x], q.num = n, q.stage = "sent", ~q.first
               PROVE  Fits(q, Record(n))
    BY <1>1 DEF SaysInv, Fits
  <2> QED BY <1>2, <1>4 DEF StandsInv, SaysInv, About
<1>7. ReadsInv(n)'
  <2> SUFFICES ASSUME NEW x \in Senders, NEW q \in ops'[x], q.stage = "reading", q.rd.num = n
               PROVE  q.rd.from = Len(server[n])
    BY <1>1 DEF ReadsInv
  <2>1. q \in ops[x]
    BY <1>1 DEF Turned
  <2> QED BY <1>2, <2>1 DEF StandsInv, ReadsInv
<1>8. ShowsInv(n)'
  <2> SUFFICES ASSUME NEW t \in Tabs, page'[t] # Nil, page'[t].num = n
               PROVE  PageShows(page'[t], ops'[t], n)
    BY <1>1 DEF ShowsInv, PageShows, About, Edits, Lists, Open
  <2>1. Open(t) /\ page[t].num = n /\ PageShows(page[t], ops[t], n)
    BY <1>1, <1>2 DEF SamePages, SameRecord, StandsInv, ShowsInv
  <2>2. t # u
    <3> SUFFICES ASSUME t = u PROVE FALSE
      OBVIOUS
    <3>1. o.num = n
      BY <1>1, <2>1 DEF RecordCreateInv, CreateInv, CreateOf, PageShows
    <3> QED BY <1>1, <3>1
  <2>3. ops'[t] = ops[t]
    BY <2>2 DEF Turned, Senders
  <2> QED BY <1>1, <2>1, <2>2, <2>3 DEF SamePages, SameRecord, PageShows
<1> QED BY <1>1, <1>2, <1>5, <1>6, <1>7, <1>8 DEF StandsInv

(* The record that is created.                                             *)
LEMMA ApplyCreated ==
  ASSUME PageTypes, ShapeInv, RecordStandsInv,
         NEW u \in Senders, NEW o \in ops[u], NEW lost \in BOOLEAN, Apply(u, o, lost),
         NEW more \in SUBSET Asks, Turned(u, o, lost, more),
         NEW m \in Nums, m = Target(o), o.num = Nil, m \notin muddled'
  PROVE  StandsInv(m)'
<1>1. /\ o \in Asks /\ AskShape(o) /\ o.stage = "sent" /\ o.rd = Nil
      /\ m # Nil /\ m \notin Known /\ m \in Known'
      /\ Record(m)' = Effect(o, Blank) /\ asked'[m] = Wish(o, asked[m])
      /\ SamePages(u, o, lost) /\ Muddles(u, o, lost)
  BY ApplyFacts DEF PageTypes, Outcome, Record
<1>2. asked[m] = Blank /\ Blank \in Versions
  BY <1>1 DEF RecordStandsInv, Blank, Versions
<1>3. ~(o.what = "person" /\ ~o.first) /\ ~lost
  BY <1>1 DEF Muddles
<1>4. ~o.first => Fits(o, Blank)
  BY <1>1 DEF RecordStandsInv, CreateStands
<1>5. Record(m)' = asked'[m]
  BY <1>1, <1>2, <1>3, <1>4, EffectIsWish
<1>6. \A x \in Senders : \A q \in ops[x] : ~About(q, m)
  BY <1>1 DEF ShapeInv, AskShape, About
<1>7. \A x \in Senders : \A q \in ops'[x] : About(q, m) => x = u /\ q \in more
  BY <1>6 DEF Turned
<1>8. Lone(m)'
  <2> SUFFICES ASSUME NEW x \in Senders, NEW y \in Senders, NEW q \in ops'[x], NEW r \in ops'[y],
                      About(q, m), About(r, m)
               PROVE  x = y /\ q = r
    BY DEF Lone, About
  <2> QED BY <1>7 DEF Turned
<1>9. \A q \in more : q.num = Nil /\ q.stage = "done"
  BY <1>3 DEF Turned
<1>10. SaysInv(m)'
  <2> SUFFICES ASSUME NEW x \in Senders, NEW q \in ops'[x], q.num = m PROVE FALSE
    BY DEF SaysInv
  <2> QED BY <1>1, <1>7, <1>9 DEF About
<1>11. ReadsInv(m)'
  <2> SUFFICES ASSUME NEW x \in Senders, NEW q \in ops'[x], q.stage = "reading", q.rd.num = m PROVE FALSE
    BY DEF ReadsInv
  <2>1. q \in ops[x]
    BY <1>9 DEF Turned
  <2>2. AskShape(q)
    BY <2>1 DEF ShapeInv
  <2> QED BY <1>1, <2>2 DEF AskShape
<1>12. ShowsInv(m)'
  <2> SUFFICES ASSUME NEW t \in Tabs, page'[t] # Nil, page'[t].num = m PROVE FALSE
    BY DEF ShowsInv, Open
  <2> QED BY <1>1 DEF SamePages, SameRecord, ShapeInv
<1> QED BY <1>5, <1>8, <1>10, <1>11, <1>12 DEF StandsInv

(* The record that is changed.                                             *)
LEMMA ApplyChanged ==
  ASSUME PageTypes, ShapeInv, RecordCreateInv, RecordStandsInv,
         NEW u \in Senders, NEW o \in ops[u], NEW lost \in BOOLEAN, Apply(u, o, lost),
         NEW more \in SUBSET Asks, Turned(u, o, lost, more),
         NEW m \in Nums, m = o.num, m \notin muddled'
  PROVE  StandsInv(m)'
<1>1. /\ o \in Asks /\ AskShape(o) /\ o.stage = "sent" /\ o.rd = Nil
      /\ m # Nil /\ m \in Known /\ m \in Known' /\ m = Target(o)
      /\ Record(m)' = Effect(o, Record(m)) /\ asked'[m] = Wish(o, asked[m])
      /\ SamePages(u, o, lost) /\ Muddles(u, o, lost)
  BY ApplyFacts, NilApart DEF PageTypes, Outcome
<1>2. /\ m \notin muddled /\ ~(o.what = "person" /\ ~o.first) /\ ~lost /\ ~Shared(u, m)
  BY <1>1 DEF Muddles
<1>3. StandsInv(m) /\ About(o, m)
  BY <1>1, <1>2 DEF RecordStandsInv, About
<1>4. (~o.first => Fits(o, Record(m))) /\ Record(m) \in Versions
  BY <1>1, <1>3, RecordTyped DEF StandsInv, SaysInv
<1>5. Record(m)' = asked'[m]
  BY <1>1, <1>2, <1>3, <1>4, EffectIsWish DEF StandsInv
<1>6. \A x \in Senders : \A q \in ops[x] : About(q, m) => x = u /\ q = o
  BY <1>3 DEF StandsInv, Lone
<1>7. \A x \in Senders : \A q \in ops'[x] : About(q, m) => x = u /\ q \in more
  BY <1>6 DEF Turned
<1>8. Lone(m)'
  <2> SUFFICES ASSUME NEW x \in Senders, NEW y \in Senders, NEW q \in ops'[x], NEW r \in ops'[y],
                      About(q, m), About(r, m)
               PROVE  x = y /\ q = r
    BY DEF Lone, About
  <2> QED BY <1>7 DEF Turned
<1>9. \A q \in more : q.num = m /\ q.stage = "done" /\ q.what = o.what /\ q.id = o.id /\ q.arg = o.arg
                       /\ About(q, m) /\ (Edits(q) <=> Edits(o))
  BY <1>2 DEF Turned, About, Edits
<1>10. SaysInv(m)'
  <2> SUFFICES ASSUME NEW x \in Senders, NEW q \in ops'[x], q.num = m, q.stage = "sent" PROVE FALSE
    BY DEF SaysInv
  <2> QED BY <1>7, <1>9 DEF About
<1>11. ReadsInv(m)'
  <2> SUFFICES ASSUME NEW x \in Senders, NEW q \in ops'[x], q.stage = "reading", q.rd.num = m PROVE FALSE
    BY DEF ReadsInv
  <2>1. q \in ops[x] /\ q # o
    BY <1>1, <1>9 DEF Turned
  <2>2. AskShape(q)
    BY <2>1 DEF ShapeInv
  <2> QED BY <1>6, <2>1, <2>2 DEF AskShape, About
<1>12. ShowsInv(m)'
  <2> SUFFICES ASSUME NEW t \in Tabs, page'[t] # Nil, page'[t].num = m
               PROVE  /\ ~page'[t].crossed
                      /\ \/ page'[t].copy.types = Record(m)'.types
                         \/ \E x \in ops'[t] : About(x, m) /\ Edits(x)
                      /\ \/ page'[t].removed
                         \/ page'[t].grant = Record(m)'.grant
                         \/ \E x \in ops'[t] : About(x, m) /\ x.stage = "done" /\ x.what \in {"grant", "unperson"}
                      /\ \A x \in ops'[t] : x.what = "grant" =>
                            x.id \in page'[t].rows /\ (x.stage = "done" => x.arg = Record(m)'.grant)
    BY DEF ShowsInv, Open, PageShows, About, Edits, Lists
  <2>1. Open(t) /\ page[t].num = m /\ PageShows(page[t], ops[t], m)
    BY <1>1, <1>3 DEF SamePages, SameRecord, StandsInv, ShowsInv
  <2>2. t = u
    BY <1>2, <2>1 DEF Shared
  <2> DEFINE p == page[t]
             p2 == page'[t]
  <2>3. /\ ~p2.crossed /\ p2.copy = p.copy /\ p2.grant = p.grant /\ p2.rows = p.rows /\ p2.removed = p.removed
    BY <1>1, <1>2, <2>1 DEF SamePages, SameRecord, PageShows
  <2>4. PICK q \in more : TRUE
    BY <2>2 DEF Turned
  <2>5. q \in ops'[t]
    BY <2>2, <2>4 DEF Turned
  <2>6. \/ p.copy.types = Effect(o, Record(m)).types
        \/ About(q, m) /\ Edits(q)
    <3>1. CASE Edits(o)
      BY <1>9, <2>4, <3>1
    <3>2. CASE ~Edits(o)
      <4>1. p.copy.types = Record(m).types
        BY <1>6, <2>1, <3>2 DEF PageShows, Senders
      <4> QED BY <1>1, <1>4, <3>2, <4>1, EffectKeeps
    <3> QED BY <3>1, <3>2
  <2>7. \/ p.removed
        \/ p.grant = Effect(o, Record(m)).grant
        \/ About(q, m) /\ q.stage = "done" /\ q.what \in {"grant", "unperson"}
    <3>1. CASE o.what \in {"grant", "unperson"}
      BY <1>9, <2>4, <3>1
    <3>2. CASE o.what \notin {"grant", "unperson"}
      <4>1. p.removed \/ p.grant = Record(m).grant
        BY <1>6, <2>1, <3>2 DEF PageShows, Senders
      <4> QED BY <1>1, <1>2, <1>4, <3>2, <4>1, EffectKeeps
    <3> QED BY <3>1, <3>2
  <2>8. ASSUME NEW x \in ops'[t], x.what = "grant"
        PROVE  x.id \in p.rows /\ x.arg = Effect(o, Record(m)).grant
    <3>1. x \in more
      <4>1. \A y \in ops[t] : y.num = m
        BY <1>1, <2>1 DEF RecordCreateInv, CreateInv, CreateOf, PageShows
      <4>2. x \in ops[t] => x = o
        BY <1>6, <2>2, <4>1 DEF About
      <4> QED BY <2>2, <2>8, <4>2 DEF Turned
    <3>2. o.what = "grant" /\ o.id = x.id /\ x.arg = o.arg
      BY <1>9, <2>8, <3>1
    <3>3. o.id \in p.rows
      BY <2>1, <2>2, <3>2 DEF PageShows
    <3> QED BY <1>1, <1>4, <3>2, <3>3, EffectKeeps
  <2>9. Record(m)' = Effect(o, Record(m))
    BY <1>1
  <2>10. p2.copy.types = Record(m)'.types \/ \E x \in ops'[t] : About(x, m) /\ Edits(x)
    BY <2>3, <2>5, <2>6, <2>9
  <2>11. \/ p2.removed
         \/ p2.grant = Record(m)'.grant
         \/ \E x \in ops'[t] : About(x, m) /\ x.stage = "done" /\ x.what \in {"grant", "unperson"}
    BY <2>3, <2>5, <2>7, <2>9
  <2>12. \A x \in ops'[t] : x.what = "grant" =>
             x.id \in p2.rows /\ (x.stage = "done" => x.arg = Record(m)'.grant)
    BY <2>3, <2>8, <2>9
  <2> QED BY <2>3, <2>10, <2>11, <2>12
<1> QED BY <1>5, <1>8, <1>10, <1>11, <1>12 DEF StandsInv

(* The pages whose creates crossed, and the creates.                       *)
LEMMA ApplyCrosses ==
  ASSUME PageTypes, ShapeInv, RecordCreateInv, RecordStandsInv,
         NEW u \in Senders, NEW o \in ops[u], NEW lost \in BOOLEAN, Apply(u, o, lost),
         NEW more \in SUBSET Asks, Turned(u, o, lost, more),
         NEW t \in Tabs, page'[t] # Nil
  PROVE  PageCrossed(page'[t], ops'[t], muddled')
<1>1. /\ SamePages(u, o, lost) /\ muddled \subseteq muddled'
  BY ApplyFacts DEF Muddles
<1>2. /\ Open(t) /\ page'[t].path = page[t].path /\ page'[t].num = page[t].num
      /\ page'[t].crossed = (page[t].crossed \/ (t = u /\ o.num = Nil /\ lost))
      /\ PageCrossed(page[t], ops[t], muddled) /\ CreateOf(page[t], ops[t]) /\ t \in Senders
  BY <1>1 DEF SamePages, SameRecord, RecordStandsInv, RecordCreateInv, CreateInv, Senders
<1>3. \A q \in more : q.num = o.num /\ q.stage \in {"done", "failed"}
  BY DEF Turned
<1>4. CASE page[t].crossed
  BY <1>1, <1>2, <1>3, <1>4 DEF PageCrossed, Turned
<1>5. CASE ~page[t].crossed /\ t = u /\ o.num = Nil
  <2>1. page[t].num = Nil /\ page[t].path = Nil
    BY <1>2, <1>5 DEF CreateOf
  <2>2. \A q \in ops'[t] : q.num = Nil /\ q.stage # "reading"
    BY <1>2, <1>3, <1>5, <2>1 DEF CreateOf, Turned
  <2> QED BY <1>2, <2>1, <2>2 DEF PageCrossed
<1>6. CASE ~page[t].crossed /\ ~(t = u /\ o.num = Nil)
  BY <1>2, <1>6, OpenTyped, PageFields DEF PageCrossed
<1> QED BY <1>4, <1>5, <1>6

LEMMA ApplyCreatesStand ==
  ASSUME PageTypes, ShapeInv, RecordStandsInv,
         NEW u \in Senders, NEW o \in ops[u], NEW lost \in BOOLEAN, Apply(u, o, lost),
         NEW more \in SUBSET Asks, Turned(u, o, lost, more),
         NEW y \in Senders, NEW x \in ops'[y], x.num = Nil
  PROVE  /\ x.stage = "sent" /\ ~x.first => Fits(x, Blank)
         /\ x.stage = "done" /\ x.rd.num \notin muddled' => ~Record(x.rd.num)'.grant
<1>1. /\ o \in Asks /\ AskShape(o) /\ o.stage = "sent" /\ o.rd = Nil
      /\ o.num # Nil => Target(o) = o.num
      /\ o.num = Nil => Target(o) \notin Known /\ Edits(o)
      /\ Known' = Known \cup {Target(o)} /\ muddled \subseteq muddled'
      /\ \A n \in Known' : Record(n)' = IF n = Target(o) THEN Outcome(o) ELSE Record(n)
  BY ApplyFacts DEF Muddles
<1>2. CASE x \in more /\ y = u
  <2>1. o.num = Nil /\ x.stage \in {"done", "failed"} /\ (x.stage = "done" => x.rd.num = Target(o))
    BY <1>2 DEF Turned
  <2>2. Outcome(o) = Effect(o, Blank) /\ Blank \in Versions /\ ~Blank.grant
    BY <2>1 DEF Outcome, Record, Blank, Versions
  <2>3. ~Outcome(o).grant
    BY <1>1, <2>1, <2>2, EffectKeeps
  <2> QED BY <1>1, <2>1, <2>3
<1>3. CASE x \in ops[y] /\ ~(y = u /\ x = o)
  <2>1. CreateStands(x, muddled) /\ AskShape(x)
    BY <1>3 DEF RecordStandsInv, ShapeInv
  <2>2. ASSUME x.stage = "done", x.rd.num \notin muddled' PROVE ~Record(x.rd.num)'.grant
    <3>1. x.rd # Nil /\ x.rd.num \in Known \ muddled /\ ~Record(x.rd.num).grant
      BY <1>1, <2>1, <2>2 DEF AskShape, CreateStands
    <3>2. x.rd.num # Target(o)
      <4> SUFFICES ASSUME x.rd.num = Target(o) PROVE FALSE
        OBVIOUS
      <4>1. About(x, Target(o)) /\ About(o, Target(o))
        BY <1>1, <3>1 DEF About
      <4>2. Lone(Target(o))
        BY <3>1 DEF RecordStandsInv, StandsInv
      <4> QED BY <1>3, <4>1, <4>2 DEF Lone
    <3> QED BY <1>1, <3>1, <3>2
  <2> QED BY <2>1, <2>2 DEF CreateStands
<1>4. \/ x \in more /\ y = u
      \/ x \in ops[y] /\ ~(y = u /\ x = o)
  BY DEF Turned
<1> QED BY <1>2, <1>3, <1>4

LEMMA ApplyStands ==
  ASSUME PageTypes, ShapeInv, RecordCreateInv, RecordStandsInv,
         NEW u \in Senders, NEW o \in ops[u], NEW lost \in BOOLEAN, Apply(u, o, lost)
  PROVE  RecordStandsInv'
<1>1. PICK more \in SUBSET Asks : Turned(u, o, lost, more)
  BY ApplyTurns
<1>2. /\ Target(o) \in Nums /\ (o.num # Nil => Target(o) = o.num)
      /\ Known' = Known \cup {Target(o)} /\ muddled \subseteq muddled'
      /\ asked' = [asked EXCEPT ![Target(o)] = Wish(o, @)] /\ SamePages(u, o, lost)
  BY ApplyFacts DEF Muddles
<1>3. ASSUME NEW n \in Known' \ muddled' PROVE StandsInv(n)'
  <2>1. CASE n # Target(o)
    BY <1>1, <1>2, <1>3, <2>1, ApplyElsewhere
  <2>2. CASE n = Target(o) /\ o.num = Nil
    BY <1>1, <1>2, <1>3, <2>2, ApplyCreated
  <2>3. CASE n = Target(o) /\ o.num # Nil
    BY <1>1, <1>2, <1>3, <2>3, ApplyChanged
  <2> QED BY <2>1, <2>2, <2>3
<1>4. \A n \in Nums \ Known' : asked'[n] = Blank
  BY <1>2 DEF RecordStandsInv, PageTypes
<1>5. \A t \in Tabs : Open(t)' => PageCrossed(page[t], ops[t], muddled)'
  <2> SUFFICES ASSUME NEW t \in Tabs, page'[t] # Nil PROVE PageCrossed(page'[t], ops'[t], muddled')
    BY DEF Open, PageCrossed
  <2> QED BY <1>1, ApplyCrosses
<1>6. \A x \in Senders : \A q \in ops'[x] : CreateStands(q, muddled)'
  <2> SUFFICES ASSUME NEW x \in Senders, NEW q \in ops'[x], q.num = Nil
               PROVE  /\ q.stage = "sent" /\ ~q.first => Fits(q, Blank)
                      /\ q.stage = "done" /\ q.rd.num \notin muddled' => ~Record(q.rd.num)'.grant
    BY DEF CreateStands, Fits, Blank
  <2> QED BY <1>1, ApplyCreatesStand
<1> QED BY <1>3, <1>4, <1>5, <1>6 DEF RecordStandsInv

LEMMA IdleStands ==
  ASSUME RecordStandsInv, UNCHANGED vars
  PROVE  RecordStandsInv'
<1>1. UNCHANGED <<server, page, ops, asked, muddled>> /\ Known' = Known /\ \A n : Record(n)' = Record(n)
  BY DEF vars, recordHistory, Known, Record
<1>2. ASSUME NEW n \in Known \ muddled PROVE StandsInv(n)'
  <2>1. StandsInv(n)
    BY DEF RecordStandsInv
  <2>2. Lone(n)' /\ ReadsInv(n)' /\ Record(n)' = asked'[n]
    BY <1>1, <2>1 DEF StandsInv, Lone, About, ReadsInv
  <2>3. SaysInv(n)'
    <3> SUFFICES ASSUME NEW u \in Senders, NEW o \in ops[u], o.num = n, o.stage = "sent", ~o.first
                 PROVE  Fits(o, Record(n))
      BY <1>1 DEF SaysInv, Fits
    <3> QED BY <2>1 DEF StandsInv, SaysInv
  <2>4. ShowsInv(n)'
    <3> SUFFICES ASSUME NEW t \in Tabs, Open(t), page[t].num = n PROVE PageShows(page[t], ops[t], n)
      BY <1>1 DEF ShowsInv, PageShows, About, Edits, Lists, Open
    <3> QED BY <2>1 DEF StandsInv, ShowsInv
  <2> QED BY <2>2, <2>3, <2>4 DEF StandsInv
<1>3. \A n \in Known' \ muddled' : StandsInv(n)'
  BY <1>1, <1>2
<1>4. \A n \in Nums \ Known' : asked'[n] = Blank
  BY <1>1 DEF RecordStandsInv
<1>5. \A t \in Tabs : Open(t)' => PageCrossed(page[t], ops[t], muddled)'
  BY <1>1 DEF RecordStandsInv, Open, PageCrossed
<1>6. \A u \in Senders : \A o \in ops'[u] : CreateStands(o, muddled)'
  <2> SUFFICES ASSUME NEW u \in Senders, NEW o \in ops[u] PROVE CreateStands(o, muddled)
    BY <1>1 DEF CreateStands, Fits, Blank
  <2> QED BY DEF RecordStandsInv
<1> QED BY <1>3, <1>4, <1>5, <1>6 DEF RecordStandsInv

LEMMA RecordStepStands ==
  ASSUME RecordBase, RecordStandsInv, [Next]_vars
  PROVE  RecordStandsInv'
<1> USE DEF RecordBase
<1>1. CASE UNCHANGED vars
  BY <1>1, IdleStands
<1>2. CASE NetworkStep
  BY <1>2, ApplyStands, RefuseStands DEF NetworkStep
<1>3. ASSUME NEW t \in Tabs, PageStep(t) PROVE RecordStandsInv'
  BY <1>3, OpenStands, LeaveStands, TextStands, SendStands, CreatedStands, ReadStands, FinishStands, DropStands
     DEF PageStep
<1> QED BY <1>1, <1>2, <1>3, NextIsPages

(* Whole lists and resent grants never undo an earlier change, unless      *)
(* requests about the record overlapped or failed, two pages were open on  *)
(* it, a person was added again or the row of a removed one was changed.   *)
THEOREM RecordChoicesStand == Spec => []ChoicesStand
<1>1. RecordStandsInv /\ RecordBase /\ [Next]_vars => RecordStandsInv'
  BY RecordStepStands
<1> QED BY <1>1, StandsInit, StandsSuffice, RecordBaseHolds, PTL DEF Spec
=============================================================================
