--------------------------- MODULE Client_proofs ---------------------------
(***************************************************************************)
(* The clients, for any records, rows, texts, tabs and bounds.  The screen *)
(* of one record (RecordEditor): its rows show what the server has, a      *)
(* choice is never undone by a read that began before it, and a text goes  *)
(* to the record it was typed on.  The composers (Compose): what is        *)
(* entered goes where it was entered, once, and is not lost.  The event    *)
(* feed of the legacy pages (LegacyFeed): one stream, always held, and     *)
(* tables that are current once it is quiet.                               *)
(***************************************************************************)
EXTENDS RecordEditor, Compose, LegacyFeed, Sequences, TLAPS

AnyValue == UNION {Values(f) : f \in Fields}

(* A record as the server and the cache hold it.                           *)
Rows == {x \in [Fields -> AnyValue] : \A f \in Fields : x[f] \in Values(f)}

(* A run(...) call.                                                        *)
Writes == [id : 1 .. MaxWrites, rec : Records, field : Fields, value : AnyValue,
           before : AnyValue, who : Persons \cup {"all"}, stage : {"sent", "ok", "failed"},
           applied : BOOLEAN, waits : BOOLEAN, mine : BOOLEAN, home : Records,
           overtaken : BOOLEAN]

WriteTypes ==
  \A w \in writes : /\ w \in Writes /\ w.id <= begun
                    /\ {w.value, w.before} \subseteq Values(w.field)

Types == /\ srv \in [Records -> Rows] /\ cache \in [Records -> Rows] /\ answer \in Rows
         /\ loaded \in SUBSET Records /\ failed \in SUBSET Records
         /\ invalid \in SUBSET Records
         /\ read \in {"idle", "sent", "read"}
         /\ begun \in 0 .. MaxWrites
         /\ screen \in Records /\ home \in Records
         /\ local \in Texts \cup {NoDraft}
         /\ WriteTypes

(* A save of record r is out.                                              *)
Out(r) == \E w \in writes : w.rec = r /\ w.stage = "sent"

(* A cached record is the server's, or marked, or failed to be read, or a  *)
(* save of it is out; a marked one on screen is being read, unless a save  *)
(* has cancelled that read; and what a read brings is the server's, unless *)
(* a save is out, whose end starts another read.                           *)
CacheInv ==
  /\ \A r \in loaded \ (failed \cup invalid) : Out(r) \/ cache[r] = srv[r]
  /\ Body(screen) /\ screen \in invalid /\ read = "idle" => Out(screen)
  /\ read = "read" => Out(screen) \/ answer = srv[screen]

(* No read of the record on screen began after the save but before it is   *)
(* marked overtaken.                                                       *)
ChoiceInv ==
  \A w \in writes : w.stage = "sent" /\ ~w.overtaken =>
    /\ cache[w.rec][w.field] = w.value
    /\ w.rec = screen => read = "idle"

(* The open text row belongs to the record on screen, which is there.      *)
RowInv == /\ local # NoDraft => Body(screen)
          /\ Keyed => /\ local # NoDraft => home = screen
                      /\ \A w \in writes : w.home = w.rec

EInv == Types /\ CacheInv /\ ChoiceInv /\ RowInv

(* The invariant gives what is promised of the rows.                       *)
LEMMA EInvSuffices ==
  EInv => QuietShowsServer /\ ChoiceStands /\ (Keyed => SavedWhereTyped)
<1> SUFFICES ASSUME EInv
             PROVE  QuietShowsServer /\ ChoiceStands /\ (Keyed => SavedWhereTyped)
  OBVIOUS
<1>1. TypeOK
  <2>1. \A x \in Rows : IsRecord(x)
    BY DEF Rows, IsRecord
  <2> QED BY <2>1 DEF EInv, Types, TypeOK, WriteTypes, Writes
<1>2. QuietShowsServer
  BY <1>1 DEF QuietShowsServer, EInv, CacheInv, Body, Out
<1> QED BY <1>2 DEF EInv, ChoiceInv, ChoiceStands, RowInv, SavedWhereTyped

(* There is a value for every row before anything is read.                 *)
LEMMA BlankIsARecord == Blank \in Rows
<1> SUFFICES ASSUME NEW f \in Fields
             PROVE  Blank[f] \in Values(f)
  BY DEF Blank, Rows, AnyValue
<1> DEFINE First(v) == CASE f \in TextRows -> v \notin Malformed
                         [] f \in ListRows -> v = {}
                         [] f = "people" -> \A p \in Persons : v[p] = NoPerson
                         [] OTHER -> v \in {FALSE, None, "open", "normal"}
<1>1. Blank[f] = CHOOSE v \in Values(f) : First(v)
  BY DEF Blank
<1>2. \E v \in Values(f) : First(v)
  <2>1. CASE f \in TextRows
    <3>1. PICK t \in Texts : t \notin Malformed
      BY EditorAssumption
    <3> QED BY <2>1, <3>1 DEF Values, TextRows, ListRows
  <2>2. CASE f \in ListRows
    BY <2>2 DEF Values, TextRows, ListRows
  <2>3. CASE f = "people"
    <3>1. [p \in Persons |-> NoPerson] \in [Persons -> Person \cup {NoPerson}]
      OBVIOUS
    <3> QED BY <2>3, <3>1 DEF Values, TextRows, ListRows
  <2>4. CASE f \in {"state", "priority", "private", "strike", "outcome", "area", "incident"}
    BY <2>4 DEF Values, TextRows, ListRows
  <2> QED BY <2>1, <2>2, <2>3, <2>4, EditorAssumption
          DEF IncidentRows, ReportRows, TextRows, ListRows
<1> HIDE DEF First
<1> QED BY <1>1, <1>2

(* The invariant holds at first.                                           *)
LEMMA EditorInitInv == Init => EInv
<1> SUFFICES ASSUME Init PROVE EInv
  OBVIOUS
<1>1. screen \in Records
  BY EditorAssumption DEF Init
<1>2. Types
  BY <1>1, BlankIsARecord, EditorAssumption DEF Init, Types, WriteTypes
<1>3. CacheInv /\ ChoiceInv /\ RowInv
  BY DEF Init, CacheInv, ChoiceInv, RowInv, Body
<1> QED BY <1>2, <1>3 DEF EInv

---------------------------------------------------------------------------
(* The helpers on the calls in flight.                                     *)

(* Two moments of one call.                                                *)
Like(v, w) == /\ v.id = w.id /\ v.rec = w.rec /\ v.field = w.field
              /\ v.value = w.value /\ v.before = w.before
              /\ v.stage = w.stage /\ v.home = w.home
              /\ w.overtaken => v.overtaken

(* The same calls at two moments.                                          *)
SameCalls(V, W) == /\ \A v \in V : v \in Writes /\ \E w \in W : Like(v, w)
                   /\ \A w \in W : \E v \in V : Like(v, w)

(* A read that ends lets calls go on and changes nothing else of them.     *)
LEMMA ReleasedSame ==
  ASSUME NEW W, \A w \in W : w \in Writes, NEW r
  PROVE  SameCalls(Released(W, r), W)
<1> DEFINE Image(w) == IF w.rec = r THEN [w EXCEPT !.waits = FALSE] ELSE w
<1>1. ASSUME NEW w \in W PROVE Image(w) \in Writes /\ Like(Image(w), w)
  BY DEF Writes, Like
<1>2. Released(W, r) = {Image(w) : w \in W}
  BY DEF Released
<1> HIDE DEF Image
<1> QED BY <1>1, <1>2 DEF SameCalls

(* A read that begins marks the calls of its record.                       *)
LEMMA OvertakenSame ==
  ASSUME NEW W, \A w \in W : w \in Writes, NEW r
  PROVE  /\ SameCalls(Overtaken(W, r), W)
         /\ \A v \in Overtaken(W, r) : v.rec = r => v.overtaken
<1> DEFINE Image(w) == IF w.rec = r THEN [w EXCEPT !.overtaken = TRUE] ELSE w
<1>1. ASSUME NEW w \in W
      PROVE  /\ Image(w) \in Writes /\ Like(Image(w), w)
             /\ Image(w).rec = r => Image(w).overtaken
  BY DEF Writes, Like
<1>2. Overtaken(W, r) = {Image(w) : w \in W}
  BY DEF Overtaken
<1> HIDE DEF Image
<1> QED BY <1>1, <1>2 DEF SameCalls

(* A row that goes leaves its calls behind.                                *)
LEMMA OrphanedSame ==
  ASSUME NEW W, \A w \in W : w \in Writes
  PROVE  SameCalls(Orphaned(W), W)
<1> DEFINE Image(w) == [w EXCEPT !.mine = FALSE]
<1>1. ASSUME NEW w \in W PROVE Image(w) \in Writes /\ Like(Image(w), w)
  BY DEF Writes, Like
<1>2. Orphaned(W) = {Image(w) : w \in W}
  BY DEF Orphaned
<1> HIDE DEF Image
<1> QED BY <1>1, <1>2 DEF SameCalls

(* One after the other.                                                    *)
LEMMA SameAfterSame ==
  ASSUME NEW U, NEW V, NEW W, SameCalls(U, V), SameCalls(V, W)
  PROVE  SameCalls(U, W)
<1>1. ASSUME NEW u, NEW v, NEW w, Like(u, v), Like(v, w) PROVE Like(u, w)
  BY <1>1 DEF Like
<1> QED BY <1>1 DEF SameCalls

(* What the end of a save does to the others of its record.                *)
LEMMA OvertakenReleased ==
  ASSUME NEW W, \A w \in W : w \in Writes, NEW r, NEW s
  PROVE  /\ SameCalls(Overtaken(Released(W, r), s), W)
         /\ \A v \in Overtaken(Released(W, r), s) : v.rec = s => v.overtaken
<1>1. SameCalls(Released(W, r), W)
  BY ReleasedSame
<1>2. \A w \in Released(W, r) : w \in Writes
  BY <1>1 DEF SameCalls
<1> QED BY <1>1, <1>2, OvertakenSame, SameAfterSame

(* The same calls have the same types, and are out for the same records.   *)
LEMMA SameTypes ==
  ASSUME WriteTypes, SameCalls(writes', writes), UNCHANGED begun
  PROVE  WriteTypes' /\ \A r : Out(r)' <=> Out(r)
<1>1. WriteTypes'
  BY DEF WriteTypes, SameCalls, Like
<1>2. \A r : Out(r)' <=> Out(r)
  BY DEF SameCalls, Like, Out
<1> QED BY <1>1, <1>2

(* They are no more typed on another record.                               *)
LEMMA SameHomes ==
  ASSUME SameCalls(writes', writes), \A w \in writes : w.home = w.rec
  PROVE  (\A w \in writes : w.home = w.rec)'
BY DEF SameCalls, Like

(* Their choices stand, if the cache does and no read begins unmarked.     *)
LEMMA SameChoices ==
  ASSUME ChoiceInv, SameCalls(writes', writes), UNCHANGED cache,
         \A v \in writes' : v.stage = "sent" /\ ~v.overtaken /\ v.rec = screen' =>
           read' = "idle" \/ (screen' = screen /\ read' = read)
  PROVE  ChoiceInv'
<1> SUFFICES ASSUME NEW v \in writes', v.stage = "sent", ~v.overtaken
             PROVE  /\ cache[v.rec][v.field] = v.value
                    /\ v.rec = screen' => read' = "idle"
  BY DEF ChoiceInv
<1>1. PICK w \in writes : Like(v, w)
  BY DEF SameCalls
<1> QED BY <1>1 DEF Like, ChoiceInv

(* One row of one cached record is replaced.                               *)
LEMMA RowReplaced ==
  ASSUME NEW c \in [Records -> Rows], NEW r \in Records, NEW f \in Fields,
         NEW v \in Values(f), NEW d, d = [c EXCEPT ![r][f] = v]
  PROVE  /\ d \in [Records -> Rows]
         /\ \A q \in Records, g \in Fields : ~(q = r /\ g = f) => d[q][g] = c[q][g]
         /\ \A q \in Records \ {r} : d[q] = c[q]
<1> DEFINE row == [c[r] EXCEPT ![f] = v]
<1>1. c[r] \in [Fields -> AnyValue] /\ v \in AnyValue
  BY DEF Rows, AnyValue
<1>2. row \in [Fields -> AnyValue]
  BY <1>1
<1>3. row[f] = v /\ \A g \in Fields \ {f} : row[g] = c[r][g]
  BY <1>1
<1>4. \A g \in Fields : row[g] \in Values(g)
  BY <1>3 DEF Rows
<1>5. row \in Rows /\ d = [c EXCEPT ![r] = row]
  BY <1>2, <1>4 DEF Rows
<1> HIDE DEF row
<1>6. d \in [Records -> Rows] /\ d[r] = row /\ \A q \in Records \ {r} : d[q] = c[q]
  BY <1>5
<1> QED BY <1>3, <1>6

(* A control offers values of its row.                                     *)
LEMMA OffersTyped ==
  ASSUME Types, NEW f \in Fields \ TextRows, NEW ask \in Offers(f)
  PROVE  ask[1] \in Values(f) /\ ask[2] \in Persons \cup {"all"}
<1> DEFINE old == cache[screen][f]
<1>1. old \in Values(f) /\ Shown(f) = old
  BY DEF Types, Rows, Shown
<1> HIDE DEF old
<1>2. CASE f = "people"
  <2>1. old \in [Persons -> Person \cup {NoPerson}]
    BY <1>1, <1>2 DEF Values, TextRows, ListRows
  <2>2. PICK p \in Persons : \E row \in OfferPerson(p) : ask = <<PeopleWith(p, row), p>>
    BY <1>2 DEF Offers
  <2>3. PICK row \in OfferPerson(p) : ask = <<PeopleWith(p, row), p>>
    BY <2>2
  <2>4. row \in Person \cup {NoPerson}
    BY <2>3 DEF OfferPerson
  <2>5. PeopleWith(p, row) \in [Persons -> Person \cup {NoPerson}]
    BY <1>1, <1>2, <2>1, <2>4 DEF PeopleWith
  <2> QED BY <1>2, <2>3, <2>5 DEF Values, TextRows, ListRows
<1>3. CASE f # "people"
  <2> DEFINE V == CASE f \in ListRows -> OfferList(f)
                    [] f \in {"state", "priority"} -> OfferSegment(f)
                    [] f = "private" -> OfferSwitch(f)
                    [] f = "strike" -> OfferStrike(f)
                    [] f = "outcome" -> OfferOutcome(f)
                    [] f = "area" -> OfferArea(f)
                    [] f = "incident" -> OfferLink(f)
  <2>1. ask \in V \X {"all"}
    BY <1>3 DEF Offers
  <2>2. V \subseteq Values(f)
    <3>1. CASE f \in ListRows
      <4>1. old \in SUBSET Members
        BY <1>1, <3>1 DEF Values, TextRows, ListRows
      <4>2. OfferList(f) \subseteq SUBSET Members
        BY <1>1, <4>1 DEF OfferList, WithMember, WithoutMember
      <4>3. V = OfferList(f)
        BY <3>1 DEF ListRows
      <4> QED BY <3>1, <4>2, <4>3 DEF Values, TextRows, ListRows
    <3>2. CASE f \in {"state", "priority"}
      <4>1. V = OfferSegment(f)
        BY <3>2 DEF ListRows
      <4> QED BY <4>1 DEF OfferSegment
    <3>3. CASE f \in {"private", "strike"}
      <4>1. V = {~old}
        BY <1>1, <3>3 DEF ListRows, OfferSwitch, OfferStrike
      <4> QED BY <3>3, <4>1 DEF Values, TextRows, ListRows
    <3>4. CASE f = "outcome"
      <4>1. V = OfferOutcome(f)
        BY <3>4 DEF ListRows
      <4> QED BY <3>4, <4>1 DEF Values, TextRows, ListRows, OfferOutcome
    <3>5. CASE f = "area"
      <4>1. V = OfferArea(f)
        BY <3>5 DEF ListRows
      <4> QED BY <3>5, <4>1 DEF Values, TextRows, ListRows, OfferArea
    <3>6. CASE f = "incident"
      <4>1. V = OfferLink(f)
        BY <3>6 DEF ListRows
      <4> QED BY <3>6, <4>1 DEF Values, TextRows, ListRows, OfferLink
    <3> QED BY <1>3, <3>1, <3>2, <3>3, <3>4, <3>5, <3>6, EditorAssumption
            DEF IncidentRows, ReportRows, TextRows, ListRows
  <2> HIDE DEF V
  <2> QED BY <2>1, <2>2
<1> QED BY <1>2, <1>3

---------------------------------------------------------------------------
(* The steps.                                                              *)

(* A save begins: its value is in the cache, the read is cancelled and the *)
(* earlier choices of the row are marked.                                  *)
LEMMA BeginKeeps ==
  ASSUME EInv, NEW f \in Fields, NEW v \in Values(f), NEW who \in Persons \cup {"all"},
         NEW isText \in BOOLEAN, Begin(f, v, who, isText), Keyed /\ isText => home = screen,
         Body(screen), UNCHANGED <<local, home>>
  PROVE  EInv'
<1> USE DEF EInv
<1> DEFINE new == Save(f, v, who, isText)
           others == Overtaken({w \in writes : w.field = f}, screen)
                       \cup {w \in writes : w.field # f}
           kept == Released(others, screen)
<1>1. /\ begun < MaxWrites /\ writes' = kept \cup {new} /\ begun' = begun + 1
      /\ cache' = [cache EXCEPT ![screen][f] = v]
      /\ read' = "idle" /\ answer' = Blank
      /\ UNCHANGED <<srv, loaded, failed, invalid, screen>>
  BY DEF Begin, Reading
<1>2. begun \in 0 .. MaxWrites /\ MaxWrites \in Nat /\ \A w \in writes : w \in Writes
  BY EditorAssumption DEF Types, WriteTypes
<1>3. /\ SameCalls(kept, writes)
      /\ \A w \in kept : w.rec = screen /\ w.field = f => w.overtaken
  <2> DEFINE mine == {w \in writes : w.field = f}
             rest == {w \in writes : w.field # f}
  <2>1. /\ SameCalls(Overtaken(mine, screen), mine)
        /\ \A w \in Overtaken(mine, screen) : w.rec = screen => w.overtaken
    BY <1>2, OvertakenSame
  <2>2. \A w \in rest : Like(w, w)
    BY DEF Like
  <2>3. \A w \in others : w \in Writes /\ (w.rec = screen /\ w.field = f => w.overtaken)
    BY <1>2, <2>1 DEF SameCalls
  <2>4. SameCalls(others, writes)
    <3>1. \A w \in others : \E u \in writes : Like(w, u)
      BY <2>1, <2>2 DEF SameCalls
    <3>2. \A u \in writes : \E w \in others : Like(w, u)
      BY <2>1, <2>2 DEF SameCalls
    <3> QED BY <2>3, <3>1, <3>2 DEF SameCalls
  <2> HIDE DEF others
  <2>5. SameCalls(kept, others)
    BY <2>3, ReleasedSame
  <2>6. SameCalls(kept, writes)
    BY <2>4, <2>5, SameAfterSame
  <2>7. ASSUME NEW w \in kept, w.rec = screen, w.field = f PROVE w.overtaken
    <3>1. PICK u \in others : Like(w, u)
      BY <2>5 DEF SameCalls
    <3>2. w \in Writes
      BY <2>5 DEF SameCalls
    <3> QED BY <2>3, <2>7, <3>1, <3>2 DEF Like
  <2> QED BY <2>6, <2>7
<1> HIDE DEF others, kept
<1>4. /\ new \in Writes /\ new.id = begun + 1 /\ new.rec = screen /\ new.field = f
      /\ new.value = v /\ new.before \in Values(f) /\ new.stage = "sent"
      /\ Keyed => new.home = screen
  <2>1. cache[screen][f] \in Values(f) /\ screen \in Records /\ home \in Records
    BY DEF Types, Rows
  <2>2. v \in AnyValue /\ cache[screen][f] \in AnyValue
    BY <2>1 DEF AnyValue
  <2>3. begun + 1 \in 1 .. MaxWrites
    BY <1>1, <1>2
  <2> QED BY <2>1, <2>2, <2>3 DEF Save, Shown, Writes
<1> HIDE DEF new
<1>5. WriteTypes'
  <2> SUFFICES ASSUME NEW w \in writes'
               PROVE  /\ w \in Writes /\ w.id <= begun + 1
                      /\ {w.value, w.before} \subseteq Values(w.field)
    BY <1>1 DEF WriteTypes
  <2>1. CASE w = new
    BY <1>2, <1>4, <2>1
  <2>2. CASE w \in kept
    <3>1. PICK u \in writes : Like(w, u)
      BY <1>3, <2>2 DEF SameCalls
    <3>2. w \in Writes
      BY <1>3, <2>2 DEF SameCalls
    <3>3. u.id \in Int /\ u.id <= begun /\ {u.value, u.before} \subseteq Values(u.field)
      BY DEF Types, WriteTypes, Writes
    <3> QED BY <1>2, <3>1, <3>2, <3>3 DEF Like
  <2> QED BY <1>1, <2>1, <2>2
<1>6. /\ cache' \in [Records -> Rows]
      /\ cache'[screen][f] = v
      /\ \A q \in Records, g \in Fields : ~(q = screen /\ g = f) => cache'[q][g] = cache[q][g]
      /\ \A q \in Records \ {screen} : cache'[q] = cache[q]
  <2>1. cache \in [Records -> Rows] /\ screen \in Records
    BY DEF Types
  <2>2. cache' = [cache EXCEPT ![screen][f] = v]
    BY <1>1
  <2> DEFINE d == cache'
  <2>3. d = [cache EXCEPT ![screen][f] = v]
    BY <2>2
  <2> HIDE DEF d
  <2>4. /\ d \in [Records -> Rows]
        /\ \A q \in Records \ {screen} : d[q] = cache[q]
    BY <2>1, <2>3, RowReplaced
  <2>5. d[screen][f] = v
    BY <2>1, <2>3 DEF Rows
  <2>6. ASSUME NEW q \in Records, NEW g \in Fields, ~(q = screen /\ g = f)
        PROVE  d[q][g] = cache[q][g]
    BY <2>1, <2>3, <2>6, RowReplaced
  <2> QED BY <2>4, <2>5, <2>6 DEF d
<1>7. Types'
  BY <1>1, <1>2, <1>5, <1>6, BlankIsARecord DEF Types
<1>8. \A r : r = screen \/ Out(r) => Out(r)'
  BY <1>1, <1>3, <1>4 DEF Out, SameCalls, Like
<1>9. CacheInv'
  <2>1. ASSUME NEW r \in loaded \ (failed \cup invalid) PROVE Out(r)' \/ cache'[r] = srv[r]
    <3>1. CASE r = screen
      BY <1>8, <3>1
    <3>2. CASE r # screen
      BY <1>6, <1>8, <3>2 DEF CacheInv, Types
    <3> QED BY <3>1, <3>2
  <2> QED BY <1>1, <1>8, <2>1 DEF CacheInv
<1>10. ChoiceInv'
  <2> SUFFICES ASSUME NEW w \in writes', w.stage = "sent", ~w.overtaken
               PROVE  cache'[w.rec][w.field] = w.value
    BY <1>1 DEF ChoiceInv
  <2>1. CASE w = new
    BY <1>4, <1>6, <2>1
  <2>2. CASE w \in kept
    <3>1. PICK u \in writes : Like(w, u)
      BY <1>3, <2>2 DEF SameCalls
    <3>2. ~(w.rec = screen /\ w.field = f)
      BY <1>3, <2>2
    <3>3. w.rec \in Records /\ w.field \in Fields
      BY <1>3, <2>2 DEF SameCalls, Writes
    <3> QED BY <1>6, <3>1, <3>2, <3>3 DEF ChoiceInv, Like
  <2> QED BY <1>1, <2>1, <2>2
<1>11. RowInv'
  <2>1. ASSUME Keyed, NEW w \in writes' PROVE w.home = w.rec
    <3>1. CASE w = new
      BY <1>4, <2>1, <3>1
    <3>2. CASE w \in kept
      BY <1>3, <2>1, <3>2 DEF SameCalls, Like, RowInv
    <3> QED BY <1>1, <3>1, <3>2
  <2> QED BY <1>1, <2>1 DEF RowInv, Body
<1> QED BY <1>7, <1>9, <1>10, <1>11

(* A save has settled: its record is marked, and read again if it is on    *)
(* screen; the others of the record are marked overtaken.                  *)
LEMMA SettlesKeeps ==
  ASSUME EInv, NEW w \in writes, w.stage = "sent", NEW stage \in {"ok", "failed"},
         \/ UNCHANGED cache
         \/ cache' = [cache EXCEPT ![w.rec][w.field] = w.before],
         Invalidate(w.rec), writes' = After(w) \cup {Settled(w, stage)},
         UNCHANGED <<srv, loaded, failed, begun, viewVars>>
  PROVE  EInv'
<1> USE DEF EInv
<1> DEFINE done == Settled(w, stage)
<1>1. /\ invalid' = invalid \cup {w.rec}
      /\ w.rec = screen => read' = "sent" /\ answer' = Blank
      /\ w.rec # screen => UNCHANGED <<read, answer>>
      /\ UNCHANGED <<screen, local, home>>
  BY DEF Invalidate, Reading, viewVars
<1>2. /\ \A u \in writes : u \in Writes /\ u.id <= begun
                           /\ {u.value, u.before} \subseteq Values(u.field)
      /\ w \in Writes
  BY DEF Types, WriteTypes
<1>3. /\ SameCalls(After(w), writes \ {w})
      /\ \A v \in After(w) : v.rec = w.rec => v.overtaken
  BY <1>2, OvertakenReleased DEF After
<1>4. /\ done \in Writes /\ done.id = w.id /\ done.rec = w.rec /\ done.field = w.field
      /\ done.value = w.value /\ done.before = w.before /\ done.stage = stage
      /\ done.home = w.home
  BY <1>2 DEF Settled, Writes
<1> HIDE DEF done
<1>5. WriteTypes'
  <2> SUFFICES ASSUME NEW v \in writes'
               PROVE  /\ v \in Writes /\ v.id <= begun
                      /\ {v.value, v.before} \subseteq Values(v.field)
    BY DEF WriteTypes
  <2>1. CASE v \in After(w)
    BY <1>2, <1>3, <2>1 DEF SameCalls, Like
  <2>2. CASE v = done
    BY <1>2, <1>4, <2>2
  <2> QED BY <2>1, <2>2 DEF done
<1>6. /\ cache' \in [Records -> Rows]
      /\ \A q \in Records \ {w.rec} : cache'[q] = cache[q]
  <2>1. w.rec \in Records /\ w.field \in Fields /\ w.before \in Values(w.field)
    BY <1>2 DEF Writes
  <2>2. CASE UNCHANGED cache
    BY <2>2 DEF Types
  <2>3. CASE cache' = [cache EXCEPT ![w.rec][w.field] = w.before]
    BY <2>1, <2>3, RowReplaced DEF Types
  <2> QED BY <2>2, <2>3
<1>7. Types'
  BY <1>1, <1>2, <1>5, <1>6, BlankIsARecord DEF Types, Writes
<1>8. \A r : r # w.rec /\ Out(r) => Out(r)'
  BY <1>3 DEF Out, SameCalls, Like
<1>9. CacheInv'
  <2>1. ASSUME NEW r \in loaded \ (failed \cup invalid') PROVE Out(r)' \/ cache'[r] = srv[r]
    BY <1>1, <1>6, <1>8 DEF CacheInv, Types
  <2> QED BY <1>1, <1>8, <2>1 DEF CacheInv, Body
<1>10. ChoiceInv'
  <2> SUFFICES ASSUME NEW v \in writes', v.stage = "sent", ~v.overtaken
               PROVE  /\ cache'[v.rec][v.field] = v.value
                      /\ v.rec = screen => read' = "idle"
    BY <1>1 DEF ChoiceInv
  <2>1. v \in After(w)
    BY <1>4 DEF done
  <2>2. PICK u \in writes : Like(v, u)
    BY <1>3, <2>1 DEF SameCalls
  <2>3. v.rec # w.rec /\ v.rec \in Records
    BY <1>3, <2>1 DEF SameCalls, Writes
  <2> QED BY <1>1, <1>6, <2>2, <2>3 DEF ChoiceInv, Like
<1>11. RowInv'
  <2>1. ASSUME Keyed, NEW v \in writes' PROVE v.home = v.rec
    <3>1. CASE v \in After(w)
      BY <1>3, <2>1, <3>1 DEF SameCalls, Like, RowInv
    <3>2. CASE v = done
      BY <1>4, <2>1, <3>2 DEF RowInv
    <3> QED BY <3>1, <3>2 DEF done
  <2> QED BY <1>1, <2>1 DEF RowInv, Body
<1> QED BY <1>7, <1>9, <1>10, <1>11

(* Every action preserves the invariant.                                   *)
LEMMA EditorStepInv == EInv /\ [Next]_vars => EInv'
<1> SUFFICES ASSUME EInv, [Next]_vars PROVE EInv'
  OBVIOUS
<1> USE DEF EInv
<1>a. /\ \A w \in writes : /\ w \in Writes /\ w.id <= begun
                           /\ {w.value, w.before} \subseteq Values(w.field)
      /\ screen \in Records
  BY DEF Types, WriteTypes
<1>1. ASSUME Refetch PROVE EInv'
  <2>1. /\ read' = "sent" /\ answer' = Blank
        /\ writes' = Overtaken(Released(writes, screen), screen)
        /\ UNCHANGED <<srv, cache, loaded, failed, invalid, begun, screen, local, home>>
    BY <1>1 DEF Refetch, Reading, viewVars
  <2>2. /\ SameCalls(writes', writes)
        /\ \A v \in writes' : v.rec = screen => v.overtaken
    BY <1>a, <2>1, OvertakenReleased
  <2>3. WriteTypes' /\ \A r : Out(r)' <=> Out(r)
    BY <2>1, <2>2, SameTypes DEF Types
  <2>4. Types'
    BY <2>1, <2>3, BlankIsARecord DEF Types
  <2>5. CacheInv'
    BY <2>1, <2>3 DEF CacheInv, Body
  <2>6. ChoiceInv'
    BY <2>1, <2>2, SameChoices
  <2>7. RowInv'
    BY <2>1, <2>2, SameHomes DEF RowInv, Body
  <2> QED BY <2>4, <2>5, <2>6, <2>7
<1>2. ASSUME Answer PROVE EInv'
  <2>1. /\ read = "sent" /\ read' = "read" /\ answer' = srv[screen]
        /\ UNCHANGED <<srv, cache, loaded, failed, invalid, writes, begun, screen, local,
                       home>>
    BY <1>2 DEF Answer, saveVars, viewVars
  <2>2. Types'
    BY <2>1 DEF Types, WriteTypes
  <2>3. CacheInv' /\ ChoiceInv' /\ RowInv'
    BY <2>1 DEF CacheInv, ChoiceInv, RowInv, Body, Out
  <2> QED BY <2>2, <2>3
<1>3. ASSUME Arrive PROVE EInv'
  <2>1. /\ read = "read" /\ cache' = [cache EXCEPT ![screen] = answer]
        /\ loaded' = loaded \cup {screen} /\ failed' = failed \ {screen}
        /\ invalid' = invalid \ {screen}
        /\ read' = "idle" /\ answer' = Blank /\ writes' = Released(writes, screen)
        /\ UNCHANGED <<srv, begun, screen, local, home>>
    BY <1>3 DEF Arrive, Reading, viewVars
  <2>2. SameCalls(writes', writes)
    BY <1>a, <2>1, ReleasedSame
  <2>3. WriteTypes' /\ \A r : Out(r)' <=> Out(r)
    BY <2>1, <2>2, SameTypes DEF Types
  <2>4. Types'
    BY <2>1, <2>3, BlankIsARecord DEF Types
  <2>5. cache'[screen] = answer /\ \A r \in Records \ {screen} : cache'[r] = cache[r]
    BY <2>1 DEF Types
  <2>6. CacheInv'
    <3>1. ASSUME NEW r \in loaded' \ (failed' \cup invalid') PROVE Out(r)' \/ cache'[r] = srv[r]
      <4>1. CASE r = screen
        BY <2>1, <2>3, <2>5, <4>1 DEF CacheInv
      <4>2. CASE r # screen
        BY <2>1, <2>3, <2>5, <4>2 DEF CacheInv, Types
      <4> QED BY <4>1, <4>2
    <3> QED BY <2>1, <3>1 DEF CacheInv, Body
  <2>7. ChoiceInv'
    <3> SUFFICES ASSUME NEW v \in writes', v.stage = "sent", ~v.overtaken
                 PROVE  cache'[v.rec][v.field] = v.value
      BY <2>1 DEF ChoiceInv
    <3>1. PICK w \in writes : Like(v, w)
      BY <2>2 DEF SameCalls
    <3>2. w.stage = "sent" /\ ~w.overtaken /\ v.rec = w.rec /\ v.field = w.field
          /\ v.value = w.value
      BY <3>1 DEF Like
    <3>3. w.rec \in Records /\ w.rec # screen /\ cache[w.rec][w.field] = w.value
      BY <1>a, <2>1, <3>2 DEF ChoiceInv, Writes
    <3> QED BY <2>5, <3>2, <3>3
  <2>8. RowInv'
    BY <2>1, <2>2, SameHomes DEF RowInv, Body
  <2> QED BY <2>4, <2>6, <2>7, <2>8
<1>4. ASSUME ReadFails PROVE EInv'
  <2>1. /\ failed' = failed \cup {screen} /\ read' = "idle" /\ answer' = Blank
        /\ writes' = Orphaned(Released(writes, screen)) /\ local' = NoDraft
        /\ UNCHANGED <<srv, cache, loaded, invalid, begun, screen, home>>
    BY <1>4 DEF ReadFails, Reading, Unmount
  <2>2. SameCalls(writes', writes)
    <3>1. SameCalls(Released(writes, screen), writes)
      BY <1>a, ReleasedSame
    <3>2. SameCalls(writes', Released(writes, screen))
      BY <2>1, <3>1, OrphanedSame DEF SameCalls
    <3> QED BY <3>1, <3>2, SameAfterSame
  <2>3. WriteTypes' /\ \A r : Out(r)' <=> Out(r)
    BY <2>1, <2>2, SameTypes DEF Types
  <2>4. Types'
    BY <2>1, <2>3, BlankIsARecord DEF Types
  <2>5. CacheInv'
    BY <2>1, <2>3 DEF CacheInv, Body
  <2>6. ChoiceInv'
    BY <2>1, <2>2, SameChoices
  <2>7. RowInv'
    BY <2>1, <2>2, SameHomes DEF RowInv
  <2> QED BY <2>4, <2>5, <2>6, <2>7
<1>5. ASSUME CommitText PROVE EInv'
  <2>1. /\ Body(screen) /\ local # NoDraft /\ Begin(Text, local, "all", TRUE)
        /\ UNCHANGED <<local, home>>
    BY <1>5 DEF CommitText, RowOpen
  <2>2. Text \in Fields /\ local \in Values(Text)
    <3>1. local \in Texts /\ Text \in Fields \cap TextRows
      BY <2>1, EditorAssumption DEF Types
    <3> QED BY <3>1 DEF Values, TextRows, ListRows
  <2> QED BY <2>1, <2>2, BeginKeeps DEF RowInv
<1>6. ASSUME NEW f \in Fields, PressRow(f) PROVE EInv'
  <2>1. PICK ask \in Offers(f) : Begin(f, ask[1], ask[2], FALSE)
    BY <1>6 DEF PressRow
  <2>2. /\ Body(screen) /\ f \in Fields \ TextRows
        /\ UNCHANGED <<local, home>>
    BY <1>6 DEF PressRow
  <2>3. ask[1] \in Values(f) /\ ask[2] \in Persons \cup {"all"}
    BY <2>2, OffersTyped
  <2> QED BY <2>1, <2>2, <2>3, BeginKeeps
<1>7. ASSUME NEW t \in Texts, Type(t) PROVE EInv'
  <2>1. /\ Body(screen) /\ local' = t /\ home' = screen
        /\ UNCHANGED <<srv, cache, loaded, failed, invalid, read, answer, writes, begun,
                       screen>>
    BY <1>7 DEF Type, queryVars, saveVars
  <2>2. Types'
    BY <2>1 DEF Types, WriteTypes
  <2>3. CacheInv' /\ ChoiceInv' /\ RowInv'
    BY <2>1 DEF CacheInv, ChoiceInv, RowInv, Body, Out
  <2> QED BY <2>2, <2>3
<1>8. ASSUME CommitUnchanged PROVE EInv'
  <2>1. /\ local' = NoDraft
        /\ UNCHANGED <<srv, cache, loaded, failed, invalid, read, answer, writes, begun,
                       screen, home>>
    BY <1>8 DEF CommitUnchanged, Unmount, queryVars, saveVars
  <2>2. Types'
    BY <2>1 DEF Types, WriteTypes
  <2>3. CacheInv' /\ ChoiceInv' /\ RowInv'
    BY <2>1 DEF CacheInv, ChoiceInv, RowInv, Body, Out
  <2> QED BY <2>2, <2>3
<1>9. ASSUME NEW r \in Records, NEW stage \in {"idle", "sent"}, Go(r, stage) PROVE EInv'
  <2> DEFINE W == Overtaken(Released(writes, screen), r)
  <2>1. /\ r # screen /\ (stage = "idle" => r \in loaded \ (invalid \cup failed))
        /\ screen' = r /\ read' = stage /\ answer' = Blank
        /\ UNCHANGED <<srv, cache, loaded, failed, invalid, begun>>
    BY <1>9 DEF Go, Reading
  <2>2. IF Remounts(r) THEN writes' = Orphaned(W) /\ local' = NoDraft /\ home' = home
                       ELSE writes' = W /\ UNCHANGED <<local, home>>
    BY <1>9 DEF Go, Unmount
  <2>3. /\ SameCalls(W, writes) /\ \A v \in W : v.rec = r => v.overtaken
    BY <1>a, OvertakenReleased
  <2> HIDE DEF W
  <2>4. /\ SameCalls(writes', writes) /\ \A v \in writes' : v.rec = r => v.overtaken
    <3>1. CASE ~Remounts(r)
      BY <2>2, <2>3, <3>1
    <3>2. CASE Remounts(r)
      <4>1. SameCalls(writes', W)
        BY <2>2, <2>3, <3>2, OrphanedSame DEF SameCalls
      <4>2. \A v \in writes' : v.rec = r => v.overtaken
        BY <2>3, <4>1 DEF SameCalls, Like, Writes
      <4> QED BY <2>3, <4>1, <4>2, SameAfterSame
    <3> QED BY <3>1, <3>2
  <2>5. WriteTypes' /\ \A q : Out(q)' <=> Out(q)
    BY <2>1, <2>4, SameTypes DEF Types
  <2>6. Types'
    BY <2>1, <2>2, <2>5, BlankIsARecord DEF Types
  <2>7. CacheInv'
    BY <2>1, <2>5 DEF CacheInv, Body
  <2>8. ChoiceInv'
    BY <2>1, <2>4, SameChoices
  <2>9. RowInv'
    BY <2>1, <2>2, <2>4, SameHomes DEF RowInv, Body, Remounts
  <2> QED BY <2>6, <2>7, <2>8, <2>9
<1>10. ASSUME NEW w \in writes, Commit(w) PROVE EInv'
  <2> DEFINE done == [w EXCEPT !.applied = TRUE]
             row == IF w.field = "people" THEN [srv[w.rec]["people"] EXCEPT ![w.who] = w.value[w.who]]
                                          ELSE w.value
  <2>1. /\ w.stage = "sent" /\ writes' = (writes \ {w}) \cup {done}
        /\ srv' = [srv EXCEPT ![w.rec][w.field] = row]
        /\ UNCHANGED <<cache, loaded, failed, invalid, read, answer, begun, screen, local,
                       home>>
    BY <1>10 DEF Commit, queryVars, viewVars
  <2>2. SameCalls(writes', writes)
    <3>1. done \in Writes /\ Like(done, w)
      BY <1>a DEF Writes, Like
    <3>2. \A u \in writes : Like(u, u)
      BY DEF Like
    <3> HIDE DEF done
    <3> QED BY <1>a, <2>1, <3>1, <3>2 DEF SameCalls
  <2>3. WriteTypes' /\ \A r : Out(r)' <=> Out(r)
    BY <2>1, <2>2, SameTypes DEF Types
  <2>4. row \in Values(w.field) /\ w.rec \in Records /\ w.field \in Fields
    <3>1. w.rec \in Records /\ w.field \in Fields /\ w.value \in Values(w.field)
      BY <1>a DEF Writes
    <3>2. CASE w.field = "people"
      <4>1. Values("people") = [Persons -> Person \cup {NoPerson}]
        BY DEF Values, TextRows, ListRows
      <4>2. srv[w.rec]["people"] \in Values("people")
        BY <3>1, <3>2 DEF Types, Rows
      <4> QED BY <3>1, <3>2, <4>1, <4>2
    <3> QED BY <3>1, <3>2
  <2> HIDE DEF row, done
  <2>5. srv' \in [Records -> Rows] /\ \A q \in Records \ {w.rec} : srv'[q] = srv[q]
    BY <2>1, <2>4, RowReplaced DEF Types
  <2>6. Types'
    BY <2>1, <2>3, <2>5 DEF Types
  <2>7. \A r : r = w.rec => Out(r)
    BY <2>1 DEF Out
  <2>8. CacheInv'
    <3>1. ASSUME NEW r \in loaded \ (failed \cup invalid) PROVE Out(r)' \/ cache[r] = srv'[r]
      BY <2>3, <2>5, <2>7 DEF CacheInv, Types
    <3> QED BY <1>a, <2>1, <2>3, <2>5, <2>7, <3>1 DEF CacheInv, Body
  <2>9. ChoiceInv'
    BY <2>1, <2>2, SameChoices
  <2>10. RowInv'
    BY <2>1, <2>2, SameHomes DEF RowInv, Body
  <2> QED BY <2>6, <2>8, <2>9, <2>10
<1>11. ASSUME NEW w \in writes, SaveSucceeds(w) PROVE EInv'
  BY <1>11, SettlesKeeps DEF SaveSucceeds
<1>12. ASSUME NEW w \in writes, SaveFails(w) PROVE EInv'
  BY <1>12, SettlesKeeps DEF SaveFails
<1>13. ASSUME NEW w \in writes, Returns(w) PROVE EInv'
  <2>1. /\ w.stage # "sent" /\ writes' = writes \ {w}
        /\ local' = local \/ local' = NoDraft
        /\ UNCHANGED <<srv, cache, loaded, failed, invalid, read, answer, begun, screen,
                       home>>
    BY <1>13 DEF Returns, Unmount, queryVars
  <2>2. \A r : Out(r)' <=> Out(r)
    BY <2>1 DEF Out
  <2>3. Types'
    BY <2>1 DEF Types, WriteTypes
  <2>4. CacheInv'
    BY <2>1, <2>2 DEF CacheInv, Body
  <2>5. ChoiceInv' /\ RowInv'
    BY <2>1 DEF ChoiceInv, RowInv, Body
  <2> QED BY <2>3, <2>4, <2>5
<1>14. CASE UNCHANGED vars
  <2>1. UNCHANGED <<srv, cache, loaded, failed, invalid, read, answer, writes, begun, screen,
                    local, home>>
    BY <1>14 DEF vars, queryVars, saveVars, viewVars
  <2> QED BY <2>1 DEF Types, WriteTypes, CacheInv, ChoiceInv, RowInv, Body, Out
<1> QED
  BY <1>1, <1>2, <1>3, <1>4, <1>5, <1>6, <1>7, <1>8, <1>9, <1>10, <1>11, <1>12,
     <1>13, <1>14
     DEF Next, Rowing

(* The rows of the record on screen show what the server has once no save  *)
(* of it is out and no read is on its way, for any records, rows and       *)
(* number of overlapping saves: the read that each save starts when it is  *)
(* over repairs whatever the put-backs of the others did.                  *)
THEOREM EditorShowsServer == Spec => []QuietShowsServer
BY EditorInitInv, EditorStepInv, EInvSuffices, PTL DEF Spec

(* No read that a save has cancelled undoes its choice on screen.          *)
THEOREM EditorChoiceStands == Spec => []ChoiceStands
BY EditorInitInv, EditorStepInv, EInvSuffices, PTL DEF Spec

(* On screens that are keyed by the record, as the code's are, a text is   *)
(* saved to the record it was typed on.                                    *)
THEOREM EditorSavesWhereTyped ==
  ASSUME Keyed
  PROVE  Spec => []SavedWhereTyped
BY EditorInitInv, EditorStepInv, EInvSuffices, PTL DEF Spec

(* Nothing but a save of it, a read that fails or the user drops a text    *)
(* from a row of the record on screen.                                     *)
THEOREM EditorKeepsText == Spec => TypedTextKept
<1> DEFINE Kept == local # NoDraft /\ local' = NoDraft /\ screen' = screen
                   => \/ Unchanged
                      \/ \E w \in writes \ writes' : w.mine /\ w.stage = "ok"
                      \/ failed' # failed
<1>1. ASSUME EInv, [Next]_vars PROVE [Kept]_vars
  <2> SUFFICES ASSUME Next, local # NoDraft, local' = NoDraft, screen' = screen
               PROVE  \/ Unchanged
                      \/ \E w \in writes \ writes' : w.mine /\ w.stage = "ok"
                      \/ failed' # failed
    BY <1>1
  <2>1. screen \notin failed
    BY <1>1 DEF EInv, RowInv, Body
  <2>2. CASE ReadFails
    BY <2>1, <2>2 DEF ReadFails
  <2>3. CASE CommitUnchanged
    BY <2>3 DEF CommitUnchanged
  <2>4. ASSUME NEW w \in writes, Returns(w)
        PROVE  \E v \in writes \ writes' : v.mine /\ v.stage = "ok"
    BY <2>4 DEF Returns
  <2>5. ASSUME NEW t \in Texts, Type(t) PROVE FALSE
    BY <2>5, EditorAssumption DEF Type
  <2>6. ASSUME NEW r \in Records, NEW stage \in {"idle", "sent"}, Go(r, stage) PROVE FALSE
    BY <2>6 DEF Go
  <2>7. CASE Refetch \/ Answer \/ Arrive \/ CommitText \/ \E f \in Fields : PressRow(f)
    BY <2>7 DEF Refetch, Answer, Arrive, CommitText, PressRow, viewVars
  <2>8. ASSUME NEW w \in writes, Commit(w) \/ SaveSucceeds(w) \/ SaveFails(w) PROVE FALSE
    BY <2>8 DEF Commit, SaveSucceeds, SaveFails, viewVars
  <2> QED BY <2>2, <2>3, <2>4, <2>5, <2>6, <2>7, <2>8 DEF Next, Rowing
<1> QED BY <1>1, EditorInitInv, EditorStepInv, PTL DEF Spec, TypedTextKept

---------------------------------------------------------------------------
(* The composers and their drafts (Compose): whatever is typed, sent,      *)
(* left, lost or undone, for any records, texts, sends and bounds.         *)

(* The map of drafts on the device.                                        *)
Drafts == [Targets -> Typed \cup {Empty}]

(* What the storage can be asked.                                          *)
Reads == [kind : {"get"}, purpose : {"load", "save", "clear"}, at : Targets,
          text : Typed \cup {Empty}, mount : Nat]
Puts == [kind : {"set"}, at : Targets, drafts : Drafts]
Requests == Reads \cup Puts \cup {Remove}

(* A composer, or the lack of one.                                         *)
Composers == [at : Targets \cup {Away, Login}, mount : 1 .. MaxMounts,
              text : Typed \cup {Empty}, dirty : BOOLEAN,
              photo : {"none", "chosen", "uploading", "failed"},
              photoAt : Targets \cup {Away}, filed : BOOLEAN]

(* A send or an upload.                                                    *)
Sends == [id : Nat, mount : Nat, at : Targets, text : Typed \cup {Empty},
          photo : BOOLEAN, photoAt : Targets \cup {Away}, retry : BOOLEAN,
          done : BOOLEAN, stage : {"text", "photo"}, before : SUBSET Typed]

SendTypes == \A w \in sends : /\ w \in Sends /\ w.id \in 1 .. pressed
                              /\ w.mount \in 1 .. comp.mount
                              /\ w.stage = "text" => w.text # Empty

StoreTypes == disk \in Drafts /\ queue \in Seq(Requests) /\ lost \subseteq Targets
ScreenTypes == comp \in Composers /\ (comp.dirty => comp.at \in Targets)
CacheTypes == /\ journal \in [Timelines -> SUBSET Typed] /\ shown \in [Timelines -> SUBSET Typed]
              /\ stale \subseteq Timelines
CountTypes == /\ pressed \in 0 .. MaxSends /\ ends \in 0 .. MaxEnds /\ ending \in BOOLEAN
              /\ filings \in [1 .. MaxMounts -> Nat]
              /\ unheard \in [1 .. MaxMounts -> Nat]
TextTypes == /\ typedAt \in Seq(Targets) /\ Len(typedAt) <= MaxTyped
             /\ acked \cup erased \subseteq Typed

(* What the variables hold.                                                *)
ComposeTypes == /\ StoreTypes /\ ScreenTypes /\ SendTypes
                /\ CacheTypes /\ CountTypes /\ TextTypes

(* The types are those the run checks.                                     *)
LEMMA TypesSuffice == ComposeAssumption /\ ComposeTypes => ComposeTypeOK
<1> SUFFICES ASSUME ComposeAssumption, ComposeTypes PROVE ComposeTypeOK
  OBVIOUS
<1>1. \A i \in DOMAIN queue : queue[i].kind \in {"get", "set", "remove"}
  <2>1. ASSUME NEW i \in DOMAIN queue PROVE queue[i] \in Requests
    BY DEF ComposeTypes, StoreTypes
  <2>2. \A q \in Requests : q.kind \in {"get", "set", "remove"}
    BY DEF Requests, Reads, Puts, Remove
  <2> QED BY <2>1, <2>2
<1> QED BY <1>1
        DEF ComposeTypeOK, ComposeTypes, StoreTypes, ScreenTypes, SendTypes,
            CacheTypes, CountTypes, TextTypes, Drafts, Composers, Sends,
            ComposeAssumption

(* They hold when a screen with a composer has just come.                  *)
LEMMA ComposeInitTypes == ComposeAssumption /\ ComposeInit => ComposeTypes
<1> SUFFICES ASSUME ComposeAssumption, ComposeInit PROVE ComposeTypes
  OBVIOUS
<1>1. PICK t \in Targets : comp = Composer(t, 1) /\ queue = <<loadDraft(t, 1)>>
  BY DEF ComposeInit
<1>2. loadDraft(t, 1) \in Requests
  BY DEF loadDraft, Get, Requests, Reads
<1>3. StoreTypes
  BY <1>1, <1>2 DEF ComposeInit, StoreTypes, Drafts
<1>4. ScreenTypes
  <2>1. Composer(t, 1) \in Composers
    BY DEF Composer, Composers, ComposeAssumption
  <2>2. ~Composer(t, 1).dirty
    BY DEF Composer
  <2> QED BY <1>1, <2>1, <2>2 DEF ScreenTypes
<1>5. SendTypes /\ CacheTypes
  BY DEF ComposeInit, SendTypes, CacheTypes
<1>6. CountTypes
  <2>1. /\ pressed = 0 /\ ending = FALSE /\ ends = 0
        /\ filings = [m \in 1 .. MaxMounts |-> 0] /\ unheard = filings
    BY DEF ComposeInit
  <2>2. MaxSends \in Nat /\ MaxEnds \in Nat
    BY DEF ComposeAssumption
  <2>3. pressed \in 0 .. MaxSends /\ ends \in 0 .. MaxEnds
    BY <2>1, <2>2
  <2>4. filings \in [1 .. MaxMounts -> Nat] /\ unheard \in [1 .. MaxMounts -> Nat]
    BY <2>1
  <2>5. ending \in BOOLEAN
    BY <2>1
  <2> QED BY <2>3, <2>4, <2>5 DEF CountTypes
<1>7. TextTypes
  <2>1. typedAt = <<>> /\ acked = {} /\ erased = {} /\ MaxTyped \in Nat
    BY DEF ComposeInit, ComposeAssumption
  <2> QED BY <2>1 DEF TextTypes
<1> QED BY <1>3, <1>4, <1>5, <1>6, <1>7 DEF ComposeTypes

(* What is written when a screen goes is a request of its target.          *)
LEMMA FlushedTypes ==
  ASSUME ComposeTypes
  PROVE  /\ Flushed \in Seq(Requests)
         /\ comp.dirty => /\ saveDraft(comp.at, comp.text) \in Requests
                          /\ Flushed = <<saveDraft(comp.at, comp.text)>>
         /\ ~comp.dirty => Flushed = <<>>
<1>1. comp.dirty => saveDraft(comp.at, comp.text) \in Requests
  BY DEF ComposeTypes, ScreenTypes, Composers, saveDraft, Get, Requests, Reads
<1> QED BY <1>1 DEF Flushed

(* Another screen.                                                         *)
LEMMA ShowTypes ==
  ASSUME ComposeAssumption, ComposeTypes, NEW t \in Targets \cup {Away}, Show(t)
  PROVE  /\ ScreenTypes' /\ queue' \in Seq(Requests)
         /\ comp'.mount \in {comp.mount, comp.mount + 1}
<1> USE DEF ComposeTypes
<1>1. ScreenTypes' /\ comp'.mount \in {comp.mount, comp.mount + 1}
  <2>1. CASE Stays(t)
    <3>1. comp' = [comp EXCEPT !.at = t, !.dirty = FALSE]
      BY <2>1 DEF Show
    <3>2. comp' \in Composers /\ ~comp'.dirty /\ comp'.mount = comp.mount
      BY <3>1 DEF ScreenTypes, Composers
    <3> QED BY <3>2 DEF ScreenTypes
  <2>2. CASE ~Stays(t)
    <3>1. comp' = Composer(t, comp.mount + 1) /\ comp.mount < MaxMounts
      BY <2>2 DEF Show
    <3>2. comp.mount + 1 \in 1 .. MaxMounts
      BY <3>1 DEF ScreenTypes, Composers, ComposeAssumption
    <3>3. comp' \in Composers /\ ~comp'.dirty /\ comp'.mount = comp.mount + 1
      BY <3>1, <3>2 DEF Composer, Composers
    <3> QED BY <3>3 DEF ScreenTypes
  <2> QED BY <2>1, <2>2
<1>2. t \in Targets => <<loadDraft(t, comp'.mount)>> \in Seq(Requests)
  <2>1. ASSUME t \in Targets PROVE loadDraft(t, comp'.mount) \in Requests
    BY <1>1, <2>1 DEF ScreenTypes, Composers, loadDraft, Get, Requests, Reads
  <2> QED BY <2>1
<1>3. \A a, b, c \in Seq(Requests) : a \o b \o c \in Seq(Requests)
  OBVIOUS
<1> QED BY <1>1, <1>2, <1>3, FlushedTypes DEF Show, StoreTypes

(* Every step keeps the types: requests, sends and the composer keep their *)
(* form as they move on.                                                   *)
LEMMA ComposeStepTypes ==
  ASSUME ComposeAssumption, ComposeTypes, [ComposeNext]_composeVars
  PROVE  ComposeTypes'
<1> USE DEF ComposeTypes
<1>1. CASE StorageReads
  <2>1. PICK q \in Requests : q = Head(queue) /\ q.kind = "get" /\ Tail(queue) \in Seq(Requests)
    BY <1>1 DEF StorageReads, StoreTypes
  <2>2. q \in Reads
    BY <2>1 DEF Requests, Puts, Remove
  <2>3. ScreenTypes' /\ comp'.mount = comp.mount
    <3>1. disk[q.at] \in Typed \cup {Empty}
      BY <2>2 DEF StoreTypes, Drafts, Reads
    <3>2. comp' \in {comp, [comp EXCEPT !.text = disk[q.at]]}
      BY <1>1, <2>1 DEF StorageReads, Restore
    <3> QED BY <3>1, <3>2 DEF ScreenTypes, Composers
  <2>4. StoreTypes'
    <3> DEFINE p == Put(q.at, [disk EXCEPT ![q.at] = q.text])
    <3>1. p \in Requests
      BY <2>2 DEF StoreTypes, Drafts, Put, Requests, Puts, Reads
    <3>2. queue' = Tail(queue) \/ queue' = Append(Tail(queue), p)
      BY <1>1, <2>1 DEF StorageReads
    <3> HIDE DEF p
    <3>3. Append(Tail(queue), p) \in Seq(Requests)
      BY <2>1, <3>1
    <3>4. queue' \in Seq(Requests)
      BY <2>1, <3>2, <3>3
    <3> QED BY <1>1, <3>4 DEF StorageReads, StoreTypes
  <2> QED BY <1>1, <2>3, <2>4
          DEF StorageReads, sendVars, cacheVars, sessionVars, historyVars,
              SendTypes, CacheTypes, CountTypes, TextTypes
<1>2. CASE StorageWrites
  <2>1. PICK q \in Requests : q = Head(queue) /\ q.kind = "set" /\ Tail(queue) \in Seq(Requests)
    BY <1>2 DEF StorageWrites, StoreTypes
  <2>2. q \in Puts
    BY <2>1 DEF Requests, Reads, Remove
  <2>3. StoreTypes'
    BY <1>2, <2>1, <2>2 DEF StorageWrites, StoreTypes, Puts
  <2> QED BY <1>2, <2>3
          DEF StorageWrites, sendVars, cacheVars, sessionVars, historyVars,
              ScreenTypes, SendTypes, CacheTypes, CountTypes, TextTypes
<1>3. CASE StorageRemoves
  <2>1. Tail(queue) \in Seq(Requests)
    BY <1>3 DEF StorageRemoves, StoreTypes
  <2>2. StoreTypes'
    BY <1>3, <2>1, FlushedTypes DEF StorageRemoves, StoreTypes, Drafts
  <2>3. comp' \in Composers /\ ~comp'.dirty /\ comp'.mount = comp.mount + 1
    BY <1>3 DEF StorageRemoves, Composer, Composers, ScreenTypes, ComposeAssumption
  <2>4. SendTypes'
    BY <1>3, <2>3 DEF StorageRemoves, sendVars, SendTypes, ScreenTypes, Composers
  <2> QED BY <1>3, <2>2, <2>3, <2>4
          DEF StorageRemoves, sendVars, historyVars, ScreenTypes, CacheTypes,
              CountTypes, TextTypes
<1>4. CASE TypeText
  <2>1. Len(typedAt) + 1 \in Typed /\ Len(typedAt') = Len(typedAt) + 1
        /\ typedAt' \in Seq(Targets)
    BY <1>4 DEF TypeText, Typed, TextTypes, OnScreen, ComposeAssumption
  <2>2. ScreenTypes' /\ comp'.mount = comp.mount
    BY <1>4, <2>1 DEF TypeText, ScreenTypes, Composers, OnScreen
  <2>3. TextTypes'
    BY <1>4, <2>1 DEF TypeText, TextTypes, ComposeAssumption
  <2> QED BY <1>4, <2>2, <2>3
          DEF TypeText, storeVars, sendVars, cacheVars, sessionVars, StoreTypes,
              SendTypes, CacheTypes, CountTypes
<1>5. CASE Erase
  <2>1. ScreenTypes' /\ comp'.mount = comp.mount
    BY <1>5 DEF Erase, ScreenTypes, Composers, OnScreen
  <2>2. TextTypes'
    BY <1>5 DEF Erase, TextTypes, ScreenTypes, Composers
  <2> QED BY <1>5, <2>1, <2>2
          DEF Erase, storeVars, sendVars, cacheVars, sessionVars, StoreTypes,
              SendTypes, CacheTypes, CountTypes
<1>6. CASE Write
  <2>1. ScreenTypes' /\ comp'.mount = comp.mount
    BY <1>6 DEF Write, ScreenTypes, Composers
  <2>2. StoreTypes'
    BY <1>6, FlushedTypes DEF Write, StoreTypes
  <2> QED BY <1>6, <2>1, <2>2
          DEF Write, sendVars, cacheVars, sessionVars, historyVars, SendTypes,
              CacheTypes, CountTypes, TextTypes
<1>7. ASSUME NEW t \in Targets \cup {Away}, Open(t) PROVE ComposeTypes'
  <2>1. Show(t)
    BY <1>7 DEF Open
  <2>2. SendTypes'
    BY <1>7, <2>1, ShowTypes DEF Open, sendVars, SendTypes, ScreenTypes, Composers
  <2> QED BY <1>7, <2>1, <2>2, ShowTypes
          DEF Open, sendVars, cacheVars, sessionVars, historyVars, StoreTypes,
              CacheTypes, CountTypes, TextTypes
<1>8. CASE ChoosePhoto
  <2>1. ScreenTypes' /\ comp'.mount = comp.mount
    BY <1>8 DEF ChoosePhoto, ScreenTypes, Composers, OnScreen
  <2> QED BY <1>8, <2>1
          DEF ChoosePhoto, storeVars, sendVars, cacheVars, sessionVars, historyVars,
              StoreTypes, SendTypes, CacheTypes, CountTypes, TextTypes
<1>9. CASE RemovePhoto
  <2>1. ScreenTypes' /\ comp'.mount = comp.mount
    BY <1>9 DEF RemovePhoto, ScreenTypes, Composers
  <2> QED BY <1>9, <2>1
          DEF RemovePhoto, storeVars, sendVars, cacheVars, sessionVars, historyVars,
              StoreTypes, SendTypes, CacheTypes, CountTypes, TextTypes
<1>10. ASSUME NEW isRetry \in BOOLEAN, OnScreen
       PROVE  /\ Sending(isRetry) \in Sends /\ Sending(isRetry).id = pressed + 1
              /\ Sending(isRetry).mount = comp.mount
              /\ Sending(isRetry).stage = "text" => Sending(isRetry).text # Empty
  BY <1>10
  DEF Sending, Payload, Sends, ScreenTypes, Composers, CacheTypes, CountTypes,
      OnScreen
<1>11. CASE PressSend
  <2> DEFINE w == Sending(FALSE)
  <2>1. /\ sends' = sends \cup {w} /\ pressed' = pressed + 1 /\ pressed < MaxSends
        /\ comp' \in {comp, [comp EXCEPT !.photo = "uploading"]}
    BY <1>11 DEF PressSend
  <2>2. w \in Sends /\ w.id = pressed + 1 /\ w.mount = comp.mount
        /\ (w.stage = "text" => w.text # Empty)
    BY <1>10, <1>11 DEF PressSend
  <2> HIDE DEF w
  <2>3. ScreenTypes' /\ comp'.mount = comp.mount
    BY <2>1 DEF ScreenTypes, Composers
  <2>4. SendTypes'
    BY <2>1, <2>2, <2>3
    DEF SendTypes, CountTypes, ScreenTypes, Composers, ComposeAssumption
  <2>5. CacheTypes'
    BY <1>11 DEF PressSend, CacheTypes, ScreenTypes, Composers, Sending, Payload
  <2>6. CountTypes'
    BY <1>11, <2>1
    DEF PressSend, CountTypes, sessionVars, historyVars, ComposeAssumption
  <2> QED BY <1>11, <2>3, <2>4, <2>5, <2>6
          DEF PressSend, storeVars, historyVars, StoreTypes, TextTypes
<1>12. CASE RetryPhoto
  <2> DEFINE w == Sending(TRUE)
  <2>1. /\ sends' = sends \cup {w} /\ pressed' = pressed + 1 /\ pressed < MaxSends
        /\ comp' = [comp EXCEPT !.photo = "uploading"]
    BY <1>12 DEF RetryPhoto
  <2>2. w \in Sends /\ w.id = pressed + 1 /\ w.mount = comp.mount
        /\ (w.stage = "text" => w.text # Empty)
    BY <1>10, <1>12 DEF RetryPhoto
  <2> HIDE DEF w
  <2>3. ScreenTypes' /\ comp'.mount = comp.mount
    BY <2>1 DEF ScreenTypes, Composers
  <2>4. SendTypes'
    BY <2>1, <2>2, <2>3, SMTT(15)
    DEF SendTypes, CountTypes, ScreenTypes, Composers, ComposeAssumption
  <2>5. CountTypes'
    BY <1>12, <2>1
    DEF RetryPhoto, CountTypes, sessionVars, historyVars, ComposeAssumption
  <2> QED BY <1>12, <2>3, <2>4, <2>5
          DEF RetryPhoto, storeVars, cacheVars, historyVars, StoreTypes, CacheTypes,
              TextTypes
<1>13. ASSUME NEW w \in sends
       PROVE  /\ w \in Sends /\ [w EXCEPT !.done = TRUE] \in Sends
              /\ [w EXCEPT !.stage = "photo", !.done = FALSE] \in Sends
  BY DEF SendTypes, Sends
<1>14. ASSUME NEW w \in sends, SendCommits(w) PROVE ComposeTypes'
  <2> DEFINE v == [w EXCEPT !.done = TRUE]
  <2>1. sends' = (sends \ {w}) \cup {v}
    BY <1>14 DEF SendCommits
  <2>2. v \in Sends /\ v.id = w.id /\ v.mount = w.mount /\ v.stage = w.stage /\ v.text = w.text
    BY <1>13 DEF Sends
  <2> HIDE DEF v
  <2>3. SendTypes'
    BY <1>14, <2>1, <2>2 DEF SendCommits, SendTypes
  <2>4. CacheTypes'
    <3>1. w.at \in Targets /\ (w.stage = "text" => w.text \in Typed)
      BY <1>13 DEF Sends, SendTypes
    <3> QED BY <1>14, <3>1 DEF SendCommits, CacheTypes
  <2>5. CountTypes'
    <3>1. w.mount \in 1 .. MaxMounts
      BY DEF SendTypes, ScreenTypes, Composers, ComposeAssumption
    <3>2. filings' \in [1 .. MaxMounts -> Nat]
      BY <1>14, <3>1 DEF SendCommits, CountTypes
    <3> QED BY <1>14, <3>2 DEF SendCommits, CountTypes, sessionVars
  <2> QED BY <1>14, <2>3, <2>4, <2>5
          DEF SendCommits, storeVars, StoreTypes, ScreenTypes, TextTypes
<1>15. ASSUME NEW w \in sends, TextSucceeds(w) PROVE ComposeTypes'
  <2>1. ScreenTypes' /\ comp'.mount \in {comp.mount, comp.mount + 1}
    <3> DEFINE c == [comp EXCEPT !.text = Empty, !.dirty = FALSE, !.photo = "uploading"]
               d == [comp EXCEPT !.text = Empty, !.dirty = FALSE]
    <3>1. \/ comp' \in {comp, c, d}
          \/ comp.mount < MaxMounts /\ comp' = Composer(Away, comp.mount + 1)
      <4>1. CASE w.photo
        BY <1>15, <4>1 DEF TextSucceeds, OnMine
      <4>2. CASE ~w.photo /\ w.at = New
        BY <1>15, <4>2 DEF TextSucceeds
      <4>3. CASE ~w.photo /\ w.at # New
        BY <1>15, <4>3 DEF TextSucceeds, OnMine
      <4> QED BY <4>1, <4>2, <4>3
    <3>2. CASE comp.mount < MaxMounts /\ comp' = Composer(Away, comp.mount + 1)
      <4>1. comp.mount + 1 \in 1 .. MaxMounts
        BY <3>2 DEF ScreenTypes, Composers, ComposeAssumption
      <4> QED BY <3>2, <4>1 DEF Composer, ScreenTypes, Composers
    <3> QED BY <3>1, <3>2 DEF ScreenTypes, Composers
  <2>2. StoreTypes'
    <3>1. clearDraft(w.at) \in Requests
      BY <1>13 DEF Sends, clearDraft, Get, Requests, Reads
    <3>2. queue' \in {Append(queue, clearDraft(w.at)), Append(queue, clearDraft(w.at)) \o <<>>,
                      Append(queue, clearDraft(w.at)) \o Flushed}
      BY <1>15 DEF TextSucceeds
    <3>3. Append(queue, clearDraft(w.at)) \in Seq(Requests)
      BY <3>1 DEF StoreTypes
    <3>4. <<>> \in Seq(Requests) /\ \A a, b \in Seq(Requests) : a \o b \in Seq(Requests)
      OBVIOUS
    <3>5. queue' \in Seq(Requests)
      BY <3>2, <3>3, <3>4, FlushedTypes
    <3> QED BY <1>15, <3>5 DEF TextSucceeds, StoreTypes
  <2>3. SendTypes'
    <3> DEFINE v == [w EXCEPT !.stage = "photo", !.done = FALSE]
    <3>1. sends' \in {sends \ {w}, (sends \ {w}) \cup {v}} /\ UNCHANGED pressed
      BY <1>15 DEF TextSucceeds
    <3>2. v \in Sends /\ v.id = w.id /\ v.mount = w.mount /\ v.stage = "photo"
      BY <1>13 DEF Sends
    <3> HIDE DEF v
    <3> QED BY <2>1, <3>1, <3>2 DEF SendTypes, ScreenTypes, Composers
  <2>4. CacheTypes'
    BY <1>15 DEF TextSucceeds, MarkStale, CacheTypes
  <2>5. CountTypes'
    BY <1>15 DEF TextSucceeds, CountTypes, sessionVars
  <2>6. TextTypes'
    <3>1. w.text \in Typed
      BY <1>13, <1>15 DEF TextSucceeds, Sends, SendTypes
    <3> QED BY <1>15, <3>1 DEF TextSucceeds, TextTypes
  <2> QED BY <2>1, <2>2, <2>3, <2>4, <2>5, <2>6
<1>16. ASSUME NEW w \in sends, TextFails(w) PROVE ComposeTypes'
  <2>1. CacheTypes'
    BY <1>16, <1>13 DEF TextFails, MarkStale, CacheTypes, Sends
  <2>2. CountTypes'
    <3>1. w.mount \in 1 .. MaxMounts
      BY DEF SendTypes, ScreenTypes, Composers, ComposeAssumption
    <3>2. unheard' \in [1 .. MaxMounts -> Nat]
      BY <1>16, <3>1 DEF TextFails, CountUnheard, CountTypes
    <3> QED BY <1>16, <3>2 DEF TextFails, CountTypes, sessionVars
  <2> QED BY <1>16, <2>1, <2>2
          DEF TextFails, storeVars, StoreTypes, ScreenTypes, SendTypes, TextTypes
<1>17. ASSUME NEW w \in sends, PhotoSucceeds(w) PROVE ComposeTypes'
  <2>1. /\ ScreenTypes' /\ comp'.mount \in {comp.mount, comp.mount + 1}
        /\ queue' \in Seq(Requests)
    <3>1. CASE Show(Away)
      BY <3>1, ShowTypes
    <3>2. CASE comp' \in {comp, [comp EXCEPT !.photo = "none"]} /\ UNCHANGED queue
      BY <3>2 DEF ScreenTypes, Composers, StoreTypes
    <3> QED BY <1>17, <3>1, <3>2 DEF PhotoSucceeds, FiledAndGone, OnMine
  <2>2. SendTypes'
    BY <1>17, <2>1 DEF PhotoSucceeds, SendTypes, ScreenTypes, Composers
  <2>3. CacheTypes'
    BY <1>17 DEF PhotoSucceeds, MarkStale, CacheTypes
  <2> QED BY <1>17, <2>1, <2>2, <2>3
          DEF PhotoSucceeds, sessionVars, historyVars, StoreTypes, CountTypes,
              TextTypes
<1>18. ASSUME NEW w \in sends, PhotoFails(w) PROVE ComposeTypes'
  <2>1. comp' \in {comp, [comp EXCEPT !.photo = "failed", !.filed = (w.at = New)]}
    BY <1>18 DEF PhotoFails, OnMine
  <2>2. ScreenTypes' /\ comp'.mount = comp.mount
    BY <2>1 DEF ScreenTypes, Composers
  <2> QED BY <1>18, <2>2
          DEF PhotoFails, storeVars, cacheVars, sessionVars, historyVars,
              StoreTypes, SendTypes, CacheTypes, CountTypes, TextTypes
<1>19. CASE ContinueWithout
  <2>1. Show(Away)
    BY <1>19 DEF ContinueWithout, FiledAndGone
  <2>2. SendTypes'
    BY <1>19, <2>1, ShowTypes, SMTT(15)
    DEF ContinueWithout, sendVars, SendTypes, ScreenTypes, Composers
  <2> QED BY <1>19, <2>1, <2>2, ShowTypes
          DEF ContinueWithout, sendVars, cacheVars, sessionVars, historyVars,
              StoreTypes, CacheTypes, CountTypes, TextTypes
<1>20. ASSUME NEW r \in Timelines, ReadRecord(r) PROVE ComposeTypes'
  <2>1. CacheTypes'
    BY <1>20 DEF ReadRecord, CacheTypes
  <2> QED BY <1>20, <2>1
          DEF ReadRecord, storeVars, sendVars, sessionVars, historyVars, StoreTypes,
              ScreenTypes, SendTypes, CountTypes, TextTypes
<1>21. CASE EndSession
  <2>1. queue' \in Seq(Requests)
    <3>1. Remove \in Requests
      BY DEF Requests
    <3> QED BY <1>21, <3>1 DEF EndSession, StoreTypes
  <2> QED BY <1>21, <2>1
          DEF EndSession, sendVars, cacheVars, historyVars, StoreTypes, ScreenTypes,
              SendTypes, CacheTypes, CountTypes, TextTypes, ComposeAssumption
<1>22. CASE SignIn
  <2>1. ScreenTypes' /\ comp'.mount = comp.mount
    BY <1>22 DEF SignIn, ScreenTypes, Composers, ComposeAssumption
  <2> QED BY <1>22, <2>1
          DEF SignIn, storeVars, sendVars, cacheVars, sessionVars, historyVars,
              StoreTypes, SendTypes, CacheTypes, CountTypes, TextTypes
<1>23. CASE Restart
  <2>1. comp' \in Composers /\ ~comp'.dirty /\ comp'.mount = comp.mount + 1
    BY <1>23 DEF Restart, Composer, Composers, ScreenTypes, ComposeAssumption
  <2>2. /\ queue' = <<>> /\ sends' = {} /\ stale' = Timelines
        /\ ending' = FALSE /\ ends < MaxEnds /\ ends' = ends + 1
        /\ UNCHANGED <<disk, lost, pressed, journal, shown>>
        /\ UNCHANGED <<typedAt, acked, erased, filings, unheard>>
    BY <1>23 DEF Restart, historyVars
  <2>3. StoreTypes' /\ SendTypes' /\ ScreenTypes'
    BY <2>1, <2>2 DEF StoreTypes, SendTypes, ScreenTypes
  <2>4. CacheTypes' /\ TextTypes'
    BY <2>2 DEF CacheTypes, TextTypes
  <2>5. CountTypes'
    <3>1. ends' \in 0 .. MaxEnds
      BY <2>2 DEF CountTypes, ComposeAssumption
    <3>2. ending' \in BOOLEAN
      BY <2>2
    <3> QED BY <2>2, <3>1, <3>2 DEF CountTypes
  <2> QED BY <2>3, <2>4, <2>5
<1>24. CASE UNCHANGED composeVars
  BY <1>24
  DEF composeVars, storeVars, sendVars, cacheVars, sessionVars, historyVars,
      StoreTypes, ScreenTypes, SendTypes, CacheTypes, CountTypes, TextTypes
<1> QED BY <1>1, <1>2, <1>3, <1>4, <1>5, <1>6, <1>7, <1>8, <1>9, <1>11, <1>12,
           <1>14, <1>15,
           <1>16, <1>17, <1>18, <1>19, <1>20, <1>21, <1>22, <1>23, <1>24
        DEF ComposeNext, Storage, Answers

(* A record that is not to be read again and has no send out shows the     *)
(* server's entries.                                                       *)
JournalInv ==
  \A r \in Timelines \ stale :
    (\A w \in sends : ~(w.at = r /\ w.stage = "text")) => shown[r] = journal[r]

(* Every step keeps that: an entry is added to what is shown before its    *)
(* send goes out, and every end of a send leaves its record to be read.    *)
LEMMA JournalStep ==
  ASSUME ComposeAssumption, ComposeTypes, JournalInv, [ComposeNext]_composeVars
  PROVE  JournalInv'
<1> USE DEF JournalInv
<1>1. CASE UNCHANGED <<sends, cacheVars>>
  BY <1>1 DEF cacheVars
<1>2. CASE StorageRemoves \/ Restart
  BY <1>2 DEF StorageRemoves, Restart
<1>3. CASE PressSend
  <2> DEFINE w == Sending(FALSE)
  <2>1. w.at = comp.at
    BY DEF Sending
  <2>2. sends' = sends \cup {w} /\ UNCHANGED journal
    BY <1>3 DEF PressSend
  <2>3. CASE w.stage = "text" /\ comp.at \in Timelines
    <3>1. shown' = [shown EXCEPT ![comp.at] = @ \cup {comp.text}] /\ stale' = stale \ {comp.at}
      BY <1>3, <2>3 DEF PressSend
    <3> HIDE DEF w
    <3> QED BY <2>1, <2>2, <2>3, <3>1 DEF ComposeTypes, CacheTypes
  <2>4. CASE ~(w.stage = "text" /\ comp.at \in Timelines)
    <3>1. UNCHANGED <<shown, stale>>
      BY <1>3, <2>4 DEF PressSend
    <3> HIDE DEF w
    <3> QED BY <2>2, <3>1
  <2> QED BY <2>3, <2>4
<1>4. CASE RetryPhoto
  BY <1>4 DEF RetryPhoto, cacheVars
<1>5. ASSUME NEW w \in sends, SendCommits(w) PROVE JournalInv'
  <2> DEFINE v == [w EXCEPT !.done = TRUE]
  <2>1. v.at = w.at /\ v.stage = w.stage
    BY DEF ComposeTypes, SendTypes, Sends
  <2>2. sends' = (sends \ {w}) \cup {v} /\ UNCHANGED <<shown, stale>>
    BY <1>5 DEF SendCommits
  <2> HIDE DEF v
  <2>3. \A r \in Timelines : r # w.at \/ w.stage # "text" => journal'[r] = journal[r]
    BY <1>5 DEF SendCommits, ComposeTypes, CacheTypes
  <2> QED BY <2>1, <2>2, <2>3
<1>6. ASSUME NEW w \in sends, TextSucceeds(w) \/ TextFails(w) \/ PhotoSucceeds(w)
      PROVE  JournalInv'
  <2>1. stale' = stale \cup ({w.at} \cap Timelines) /\ UNCHANGED journal
    BY <1>6 DEF TextSucceeds, TextFails, PhotoSucceeds, MarkStale
  <2>2. \A v \in sends \ {w} : v \in sends'
    BY <1>6 DEF TextSucceeds, TextFails, PhotoSucceeds
  <2>3. \A r \in Timelines : r # w.at => shown'[r] = shown[r]
    BY <1>6 DEF TextSucceeds, TextFails, PhotoSucceeds, ComposeTypes, CacheTypes
  <2> QED BY <2>1, <2>2, <2>3
<1>7. ASSUME NEW w \in sends, PhotoFails(w) PROVE JournalInv'
  <2>1. \A v \in sends : v.stage = "text" => v \in sends'
    BY <1>7 DEF PhotoFails
  <2> QED BY <1>7, <2>1 DEF PhotoFails, cacheVars
<1>8. ASSUME NEW r \in Timelines, ReadRecord(r) PROVE JournalInv'
  BY <1>8 DEF ReadRecord, sendVars, ComposeTypes, CacheTypes
<1>9. CASE UNCHANGED composeVars
  BY <1>1, <1>9 DEF composeVars, sendVars
<1> QED BY <1>1, <1>2, <1>3, <1>4, <1>5, <1>6, <1>7, <1>8, <1>9
        DEF ComposeNext, Storage, Answers, StorageReads, StorageWrites, TypeText,
            Erase, Write, Open, ChoosePhoto, RemovePhoto, ContinueWithout,
            EndSession, SignIn, sendVars

(* Once no send of it is out and it has been read, the record on screen    *)
(* shows the entries the server has, whatever the sends put back on        *)
(* failing (useAppendEntry, useAppendReportEntry).                         *)
THEOREM ComposerShowsEntries == ASSUME ComposeAssumption PROVE ComposeSpec => []JournalIsTrue
<1>1. ComposeInit => ComposeTypes /\ JournalInv
  BY ComposeInitTypes DEF ComposeInit, JournalInv
<1>2. ComposeTypes /\ JournalInv /\ [ComposeNext]_composeVars => (ComposeTypes /\ JournalInv)'
  BY ComposeStepTypes, JournalStep
<1>3. ComposeTypes /\ JournalInv => JournalIsTrue
  BY TypesSuffice DEF JournalInv, JournalIsTrue
<1> QED BY <1>1, <1>2, <1>3, PTL DEF ComposeSpec

(* A step after which the text is gone, the screen still there and nothing *)
(* left to write is the success of a send of that screen.                  *)
LEMMA TextLeavesStep ==
  ASSUME ComposeAssumption, ComposeTypes, [ComposeNext]_composeVars,
         comp.text # Empty, comp'.text = Empty, comp'.mount = comp.mount, ~comp'.dirty
  PROVE  \E w \in sends \ sends' : w.mount = comp.mount /\ w.text \in acked'
<1>1. comp.mount \in Nat /\ comp.mount + 1 # comp.mount
  BY DEF ComposeTypes, ScreenTypes, Composers, ComposeAssumption
<1>2. ASSUME NEW t, Show(t) PROVE FALSE
  <2>1. CASE Stays(t)
    BY <1>2, <2>1 DEF Show, ComposeTypes, ScreenTypes, Composers
  <2>2. CASE ~Stays(t)
    BY <1>1, <1>2, <2>2 DEF Show, Composer
  <2> QED BY <2>1, <2>2
<1>3. comp' # comp
  OBVIOUS
<1>4. ~StorageReads
  BY DEF StorageReads, Restore
<1>5. ~TypeText /\ ~Erase /\ ~Write /\ ~ChoosePhoto /\ ~RemovePhoto /\ ~PressSend
      /\ ~RetryPhoto /\ ~SignIn
  BY DEF TypeText, Erase, Write, ChoosePhoto, RemovePhoto, PressSend, RetryPhoto,
         SignIn, ComposeTypes, ScreenTypes, Composers, TextTypes
<1>6. ~StorageRemoves /\ ~Restart
  BY <1>1 DEF StorageRemoves, Restart, Composer
<1>7. \A w \in sends : ~PhotoFails(w)
  BY DEF PhotoFails, OnMine, ComposeTypes, ScreenTypes, Composers
<1>8. \A w \in sends : ~PhotoSucceeds(w)
  BY <1>2
  DEF PhotoSucceeds, FiledAndGone, OnMine, ComposeTypes, ScreenTypes, Composers
<1>9. ASSUME NEW w \in sends, TextSucceeds(w)
      PROVE  \E v \in sends \ sends' : v.mount = comp.mount /\ v.text \in acked'
  <2>1. w.mount = comp.mount
    <3>1. CASE w.photo
      BY <1>3, <1>9, <3>1 DEF TextSucceeds, OnMine, Mine
    <3>2. CASE ~w.photo /\ w.at = New
      BY <1>1, <1>9, <3>2 DEF TextSucceeds, Composer
    <3>3. CASE ~w.photo /\ w.at # New
      BY <1>3, <1>9, <3>3 DEF TextSucceeds, OnMine, Mine
    <3> QED BY <3>1, <3>2, <3>3
  <2>2. w \notin sends'
    <3>1. [w EXCEPT !.stage = "photo", !.done = FALSE] # w
      BY <1>9 DEF TextSucceeds, ComposeTypes, SendTypes, Sends
    <3> QED BY <1>9, <3>1 DEF TextSucceeds
  <2> QED BY <1>9, <2>1, <2>2 DEF TextSucceeds
<1> QED BY <1>2, <1>3, <1>4, <1>5, <1>6, <1>7, <1>8, <1>9
        DEF ComposeNext, Storage, Answers, StorageWrites, Open, ContinueWithout,
            FiledAndGone, ReadRecord, EndSession, SendCommits, TextFails,
            composeVars

(* While its screen stays, a text leaves the composer only by the user's   *)
(* hand or by a send of that screen that succeeded (send, clear).          *)
THEOREM ComposerKeepsText == ASSUME ComposeAssumption PROVE ComposeSpec => TextLeavesOnlySent
<1> DEFINE Leaves ==
      /\ comp.text # Empty /\ comp'.text = Empty
      /\ comp'.mount = comp.mount /\ ~comp'.dirty
      => \E w \in sends \ sends' : w.mount = comp.mount /\ w.text \in acked'
<1>1. ComposeInit => ComposeTypes
  BY ComposeInitTypes
<1>2. ComposeTypes /\ [ComposeNext]_composeVars => ComposeTypes'
  BY ComposeStepTypes
<1>3. ComposeTypes /\ [ComposeNext]_composeVars => [Leaves]_composeVars
  BY TextLeavesStep
<1> QED BY <1>1, <1>2, <1>3, PTL DEF ComposeSpec, TextLeavesOnlySent

(* Of a form whose filing is out the server took what went unheard and, if *)
(* it has committed, this filing, and nothing else of the form is out; one *)
(* that was heard to be filed is marked so, or busy; and a screen that is  *)
(* still to come has filed nothing.                                        *)
FilingInv ==
  /\ \A w \in sends : w.mount = comp.mount => (w.at = New <=> comp.at = New)
  /\ \A w \in sends : w.at = New /\ w.stage = "text" =>
       /\ filings[w.mount] = IF w.done THEN unheard[w.mount] + 1 ELSE unheard[w.mount]
       /\ \A v \in sends : v.mount = w.mount => v = w
  /\ filings[comp.mount] # unheard[comp.mount] => comp.at = New /\ (comp.filed \/ Busy)
  /\ \A m \in 1 .. MaxMounts :
       /\ filings[m] <= 1 + unheard[m]
       /\ m > comp.mount => filings[m] = 0 /\ unheard[m] = 0

(* The counts of every screen are numbers, a send is one of a screen up to *)
(* the one that is shown.                                                  *)
LEMMA Counted ==
  ASSUME ComposeAssumption, ComposeTypes, NEW w \in sends
  PROVE  /\ w.mount \in 1 .. MaxMounts /\ w.mount <= comp.mount
         /\ \A m \in 1 .. MaxMounts : filings[m] \in Nat /\ unheard[m] \in Nat
<1>1. \A m \in 1 .. MaxMounts : filings[m] \in Nat /\ unheard[m] \in Nat
  BY DEF ComposeTypes, CountTypes
<1>2. comp.mount \in 1 .. MaxMounts /\ MaxMounts \in Nat
  BY DEF ComposeTypes, ScreenTypes, Composers, ComposeAssumption
<1>3. w.mount \in 1 .. comp.mount
  BY DEF ComposeTypes, SendTypes
<1> QED BY <1>1, <1>2, <1>3

(* Nothing of a screen that has just come is out.                          *)
LEMMA FilingFresh ==
  ASSUME ComposeAssumption, ComposeTypes, FilingInv,
         comp'.mount = comp.mount + 1, comp'.mount \in 1 .. MaxMounts,
         UNCHANGED <<filings, unheard>>,
         \A v \in sends' : \E w \in sends : /\ v.mount = w.mount /\ v.at = w.at
                                            /\ v.stage = w.stage /\ v = w
  PROVE  FilingInv'
<1>1. comp.mount \in Nat /\ \A w \in sends : w.mount \in Nat /\ w.mount <= comp.mount
  BY DEF ComposeTypes, ScreenTypes, SendTypes, Composers, ComposeAssumption
<1>2. \A w \in sends' : w.mount # comp'.mount
  BY <1>1
<1>3. filings'[comp'.mount] = 0 /\ unheard'[comp'.mount] = 0
  BY <1>1 DEF FilingInv
<1> QED BY <1>1, <1>2, <1>3 DEF FilingInv

(* The composer goes on with the same sends, and what it was filed as.     *)
LEMMA FilingSame ==
  ASSUME ComposeAssumption, ComposeTypes, FilingInv, UNCHANGED <<sends, filings, unheard>>,
         comp'.mount = comp.mount, comp'.at = New <=> comp.at = New, comp'.filed = comp.filed
  PROVE  FilingInv'
<1>1. comp.at = New => (Busy' <=> Busy)
  BY DEF Busy
<1> QED BY <1>1 DEF FilingInv

(* Another screen has filed nothing.                                       *)
LEMMA FilingShow ==
  ASSUME ComposeAssumption, ComposeTypes, FilingInv, ComposeTypes', NEW t, Show(t),
         UNCHANGED <<sends, filings, unheard>>
  PROVE  FilingInv'
<1>1. CASE Stays(t)
  <2>1. comp' = [comp EXCEPT !.at = t, !.dirty = FALSE] /\ {comp.at, t} \subseteq Timelines
    BY <1>1 DEF Show, Stays
  <2>2. comp'.mount = comp.mount /\ comp'.at = t /\ comp'.filed = comp.filed
    BY <2>1 DEF ComposeTypes, ScreenTypes, Composers
  <2> QED BY <2>1, <2>2, FilingSame DEF ComposeAssumption
<1>2. CASE ~Stays(t)
  <2>1. comp'.mount = comp.mount + 1
    BY <1>2 DEF Show, Composer
  <2>2. comp'.mount \in 1 .. MaxMounts
    BY DEF ComposeTypes, ScreenTypes, Composers
  <2> QED BY <2>1, <2>2, FilingFresh
<1> QED BY <1>1, <1>2

(* Every step keeps it: filing asks that nothing of the form is out and    *)
(* that it has not been filed.                                             *)
LEMMA FilingStep ==
  ASSUME ComposeAssumption, ComposeTypes, FilingInv, [ComposeNext]_composeVars, ComposeTypes'
  PROVE  FilingInv'
<1>1. comp'.mount \in 1 .. MaxMounts /\ comp.mount \in 1 .. MaxMounts /\ comp.mount \in Nat
  BY DEF ComposeTypes, ScreenTypes, Composers, ComposeAssumption
<1>2. CASE UNCHANGED <<sends, comp, filings, unheard>>
  BY <1>2, FilingSame
<1>3. CASE StorageReads \/ TypeText \/ Erase \/ Write \/ ChoosePhoto \/ RemovePhoto
  <2>1. comp'.mount = comp.mount /\ comp'.at = comp.at /\ comp'.filed = comp.filed
    <3>1. CASE StorageReads
      BY <3>1 DEF StorageReads, Restore, ComposeTypes, ScreenTypes, Composers
    <3>2. CASE TypeText \/ Erase \/ Write \/ ChoosePhoto \/ RemovePhoto
      BY <3>2
      DEF TypeText, Erase, Write, ChoosePhoto, RemovePhoto, ComposeTypes,
          ScreenTypes, Composers
    <3> QED BY <1>3, <3>1, <3>2
  <2>2. UNCHANGED <<sends, filings, unheard>>
    BY <1>3
    DEF StorageReads, TypeText, Erase, Write, ChoosePhoto, RemovePhoto, sendVars,
        historyVars
  <2> QED BY <2>1, <2>2, FilingSame
<1>4. CASE SignIn
  <2>1. comp'.mount = comp.mount /\ comp'.at = Away /\ comp.at = Login /\ comp'.filed = comp.filed
    BY <1>4 DEF SignIn, ComposeTypes, ScreenTypes, Composers
  <2>2. comp'.at # New /\ comp.at # New
    BY <2>1 DEF ComposeAssumption, Targets
  <2> QED BY <1>4, <2>1, <2>2, FilingSame DEF SignIn, sendVars, historyVars
<1>5. CASE StorageRemoves
  <2>1. comp'.mount = comp.mount + 1 /\ UNCHANGED <<sends, filings, unheard>>
    BY <1>5 DEF StorageRemoves, Composer, sendVars, historyVars
  <2> QED BY <1>1, <2>1, FilingFresh
<1>6. CASE Restart
  <2>1. comp'.mount = comp.mount + 1 /\ sends' = {} /\ UNCHANGED <<filings, unheard>>
    BY <1>6 DEF Restart, Composer, historyVars
  <2> QED BY <1>1, <2>1, FilingFresh
<1>7. ASSUME NEW t, Open(t) PROVE FilingInv'
  BY <1>7, FilingShow DEF Open, sendVars, historyVars
<1>8. CASE ContinueWithout
  BY <1>8, FilingShow DEF ContinueWithout, FiledAndGone, sendVars, historyVars
<1>9. CASE PressSend
  <2> DEFINE w == Sending(FALSE)
  <2>1. w.mount = comp.mount /\ w.at = comp.at /\ ~w.retry /\ ~w.done
    BY DEF Sending
  <2>2. sends' = sends \cup {w} /\ UNCHANGED <<filings, unheard>>
    BY <1>9 DEF PressSend, historyVars
  <2>3. comp'.mount = comp.mount /\ comp'.at = comp.at /\ comp'.filed = comp.filed
    BY <1>9 DEF PressSend, ComposeTypes, ScreenTypes, Composers
  <2>4. comp.at = New => /\ ~comp.filed /\ ~Busy
    BY <1>9 DEF PressSend, MaySend
  <2>5. comp.at = New => filings[comp.mount] = unheard[comp.mount]
                         /\ \A v \in sends : v.mount # comp.mount
    BY <2>4 DEF FilingInv, Busy
  <2> HIDE DEF w
  <2> QED BY <2>1, <2>2, <2>3, <2>5 DEF FilingInv
<1>10. CASE RetryPhoto
  <2> DEFINE w == Sending(TRUE)
  <2>1. w.mount = comp.mount /\ w.at = comp.at /\ w.stage = "photo"
    BY DEF Sending
  <2>2. sends' = sends \cup {w} /\ UNCHANGED <<filings, unheard>>
    BY <1>10 DEF RetryPhoto, historyVars
  <2>3. comp'.mount = comp.mount /\ comp'.at = comp.at /\ comp'.filed = comp.filed
    BY <1>10 DEF RetryPhoto, ComposeTypes, ScreenTypes, Composers
  <2>4. comp.at = New => comp.filed /\ \A v \in sends : v.mount # comp.mount
    BY <1>10 DEF RetryPhoto, Busy
  <2> HIDE DEF w
  <2>5. \A v \in sends' : v.at = New /\ v.stage = "text" => v.mount # comp.mount
    BY <2>1, <2>2, <2>4 DEF FilingInv
  <2> QED BY <2>1, <2>2, <2>3, <2>4, <2>5 DEF FilingInv
<1>11. ASSUME NEW w \in sends, SendCommits(w) PROVE FilingInv'
  <2> DEFINE v == [w EXCEPT !.done = TRUE]
  <2>1. /\ v.mount = w.mount /\ v.at = w.at /\ v.stage = w.stage /\ v.retry = w.retry
        /\ v.done /\ ~w.done
    BY <1>11 DEF SendCommits, ComposeTypes, SendTypes, Sends
  <2>2. sends' = (sends \ {w}) \cup {v} /\ UNCHANGED <<comp, unheard>>
    BY <1>11 DEF SendCommits
  <2>3. /\ w.mount \in 1 .. MaxMounts /\ w.mount <= comp.mount
        /\ \A m \in 1 .. MaxMounts : filings[m] \in Nat /\ unheard[m] \in Nat
    BY Counted
  <2> HIDE DEF v
  <2>4. Busy => Busy'
    BY <2>1, <2>2 DEF Busy
  <2>5. CASE w.stage = "text" /\ w.at = New
    <3>1. \A m \in 1 .. MaxMounts :
            filings'[m] = IF m = w.mount THEN filings[m] + 1 ELSE filings[m]
      BY <1>11, <2>3, <2>5 DEF SendCommits, ComposeTypes, CountTypes
    <3>2. filings[w.mount] = unheard[w.mount] /\ \A u \in sends : u.mount = w.mount => u = w
      BY <2>1, <2>5 DEF FilingInv
    <3>3. filings'[w.mount] = unheard[w.mount] + 1
      BY <2>3, <3>1, <3>2
    <3>4. \A u \in sends' : u.at = New /\ u.stage = "text" =>
            /\ filings'[u.mount] = IF u.done THEN unheard[u.mount] + 1 ELSE unheard[u.mount]
            /\ \A x \in sends' : x.mount = u.mount => x = u
      <4> SUFFICES ASSUME NEW u \in sends', u.at = New, u.stage = "text"
                   PROVE  /\ filings'[u.mount] = IF u.done THEN unheard[u.mount] + 1
                                                          ELSE unheard[u.mount]
                          /\ \A x \in sends' : x.mount = u.mount => x = u
        OBVIOUS
      <4>1. CASE u = v
        BY <2>1, <2>2, <3>2, <3>3, <4>1
      <4>2. CASE u # v
        <5>1. u \in sends /\ u # w /\ u.mount # w.mount /\ u.mount \in 1 .. MaxMounts
          BY <1>1, <2>2, <3>2, <4>2 DEF ComposeTypes, SendTypes
        <5>2. filings'[u.mount] = filings[u.mount]
          BY <3>1, <5>1
        <5> QED BY <2>1, <2>2, <5>1, <5>2 DEF FilingInv
      <4> QED BY <4>1, <4>2
    <3>5. filings'[comp.mount] # unheard[comp.mount] => comp.at = New /\ (comp.filed \/ Busy')
      <4>1. CASE w.mount = comp.mount
        BY <2>1, <2>2, <2>5, <4>1 DEF Busy, FilingInv
      <4>2. CASE w.mount # comp.mount
        BY <1>1, <2>4, <3>1, <4>2 DEF FilingInv
      <4> QED BY <4>1, <4>2
    <3>6. \A m \in 1 .. MaxMounts :
            /\ filings'[m] <= 1 + unheard[m]
            /\ m > comp.mount => filings'[m] = 0 /\ unheard[m] = 0
      BY <1>1, <2>3, <3>1, <3>3 DEF FilingInv
    <3>7. \A u \in sends' : u.mount = comp.mount => (u.at = New <=> comp.at = New)
      BY <2>1, <2>2 DEF FilingInv
    <3> QED BY <2>2, <3>4, <3>5, <3>6, <3>7 DEF FilingInv
  <2>6. CASE ~(w.stage = "text" /\ w.at = New)
    <3>1. UNCHANGED filings
      BY <1>11, <2>6 DEF SendCommits
    <3> QED BY <2>1, <2>2, <2>4, <2>6, <3>1 DEF FilingInv
  <2> QED BY <2>5, <2>6
<1>12. ASSUME NEW w \in sends, TextSucceeds(w) PROVE FilingInv'
  <2>1. w.mount \in 1 .. MaxMounts /\ w.mount <= comp.mount /\ w.mount \in Nat
    BY <1>1 DEF ComposeTypes, SendTypes
  <2>2. w.stage = "text" /\ w.done /\ UNCHANGED <<filings, unheard>>
    BY <1>12 DEF TextSucceeds
  <2>3. CASE w.photo
    <3> DEFINE v == [w EXCEPT !.stage = "photo", !.done = FALSE]
    <3>1. v.mount = w.mount /\ v.at = w.at /\ v.stage = "photo"
      BY DEF ComposeTypes, SendTypes, Sends
    <3>2. sends' = (sends \ {w}) \cup {v}
      BY <1>12, <2>3 DEF TextSucceeds
    <3>3. comp'.mount = comp.mount /\ comp'.at = comp.at /\ comp'.filed = comp.filed
      BY <1>12, <2>3 DEF TextSucceeds, OnMine, ComposeTypes, ScreenTypes, Composers
    <3> HIDE DEF v
    <3>4. \A u \in sends' : u.at = New /\ u.stage = "text" =>
            u \in sends /\ (w.at = New => u.mount # w.mount)
      BY <2>2, <3>1, <3>2 DEF FilingInv
    <3>5. \A u \in sends' : u.mount = comp.mount => (u.at = New <=> comp.at = New)
      BY <3>1, <3>2 DEF FilingInv
    <3>6. ASSUME filings[comp.mount] # unheard[comp.mount]
          PROVE  comp.at = New /\ (comp.filed \/ Busy')
      <4>1. CASE w.mount = comp.mount /\ w.at = New
        BY <3>1, <3>2, <3>3, <4>1 DEF Busy, FilingInv
      <4>2. CASE ~(w.mount = comp.mount /\ w.at = New)
        <5>1. comp.at = New /\ (comp.filed \/ Busy)
          BY <3>6 DEF FilingInv
        <5>2. Busy => Busy'
          BY <3>1, <3>2, <3>3, <5>1 DEF Busy
        <5> QED BY <5>1, <5>2
      <4> QED BY <4>1, <4>2
    <3>7. \A u \in sends' : u.at = New /\ u.stage = "text" =>
            /\ filings[u.mount] = IF u.done THEN unheard[u.mount] + 1 ELSE unheard[u.mount]
            /\ \A x \in sends' : x.mount = u.mount => x = u
      <4> SUFFICES ASSUME NEW u \in sends', u.at = New, u.stage = "text"
                   PROVE  /\ filings[u.mount] = IF u.done THEN unheard[u.mount] + 1
                                                         ELSE unheard[u.mount]
                          /\ \A x \in sends' : x.mount = u.mount => x = u
        OBVIOUS
      <4>1. /\ u \in sends
            /\ filings[u.mount] = IF u.done THEN unheard[u.mount] + 1 ELSE unheard[u.mount]
            /\ \A x \in sends : x.mount = u.mount => x = u
        BY <3>4 DEF FilingInv
      <4>2. u # w
        BY <2>2, <3>4
      <4> QED BY <3>1, <3>2, <4>1, <4>2
    <3>8. \A m \in 1 .. MaxMounts :
            /\ filings[m] <= 1 + unheard[m]
            /\ m > comp.mount => filings[m] = 0 /\ unheard[m] = 0
      BY DEF FilingInv
    <3> QED BY <2>2, <3>3, <3>5, <3>6, <3>7, <3>8 DEF FilingInv
  <2>4. CASE ~w.photo /\ w.at = New
    <3>1. comp'.mount = comp.mount + 1 /\ sends' = sends \ {w}
      BY <1>12, <2>4 DEF TextSucceeds, Composer
    <3> QED BY <1>1, <2>2, <3>1, FilingFresh
  <2>5. CASE ~w.photo /\ w.at # New
    <3>1. comp'.mount = comp.mount /\ comp'.at = comp.at /\ comp'.filed = comp.filed
      BY <1>12, <2>5 DEF TextSucceeds, OnMine, ComposeTypes, ScreenTypes, Composers
    <3>2. sends' = sends \ {w}
      BY <1>12, <2>5 DEF TextSucceeds
    <3>3. comp.at = New /\ Busy => Busy'
      BY <2>5, <3>1, <3>2 DEF Busy, FilingInv
    <3> QED BY <2>2, <3>1, <3>2, <3>3 DEF FilingInv
  <2> QED BY <2>3, <2>4, <2>5
<1>13. ASSUME NEW w \in sends, TextFails(w) PROVE FilingInv'
  <2>1. sends' = sends \ {w} /\ UNCHANGED <<comp, filings>> /\ w.stage = "text"
    BY <1>13 DEF TextFails
  <2>2. /\ w.mount \in 1 .. MaxMounts /\ w.mount <= comp.mount
        /\ \A m \in 1 .. MaxMounts : filings[m] \in Nat /\ unheard[m] \in Nat
    BY Counted
  <2>3. CASE w.at = New
    <3>1. \A m \in 1 .. MaxMounts : m # w.mount => unheard'[m] = unheard[m]
      BY <1>13 DEF TextFails, CountUnheard, ComposeTypes, CountTypes
    <3>2. filings[w.mount] = unheard'[w.mount]
      BY <1>13, <2>1, <2>2, <2>3
      DEF TextFails, CountUnheard, ComposeTypes, CountTypes, FilingInv
    <3>3. \A u \in sends' : u \in sends /\ u.mount # w.mount /\ u.mount \in 1 .. MaxMounts
      BY <1>1, <2>1, <2>3 DEF FilingInv, ComposeTypes, SendTypes
    <3>4. \A u \in sends' : u.at = New /\ u.stage = "text" =>
            /\ filings[u.mount] = IF u.done THEN unheard'[u.mount] + 1 ELSE unheard'[u.mount]
            /\ \A x \in sends' : x.mount = u.mount => x = u
      BY <3>1, <3>3 DEF FilingInv
    <3>5. filings[comp.mount] # unheard'[comp.mount] => comp.at = New /\ (comp.filed \/ Busy')
      <4>1. ASSUME filings[comp.mount] # unheard'[comp.mount]
            PROVE  w.mount # comp.mount /\ comp.at = New /\ (comp.filed \/ Busy)
        BY <1>1, <3>1, <3>2, <4>1 DEF FilingInv
      <4>2. w.mount # comp.mount /\ Busy => Busy'
        BY <2>1 DEF Busy
      <4> QED BY <4>1, <4>2
    <3>6. \A m \in 1 .. MaxMounts :
            /\ filings[m] <= 1 + unheard'[m]
            /\ m > comp.mount => filings[m] = 0 /\ unheard'[m] = 0
      <4> SUFFICES ASSUME NEW m \in 1 .. MaxMounts
                   PROVE  /\ filings[m] <= 1 + unheard'[m]
                          /\ m > comp.mount => filings[m] = 0 /\ unheard'[m] = 0
        OBVIOUS
      <4>1. CASE m = w.mount
        BY <1>1, <2>2, <3>2, <4>1
      <4>2. CASE m # w.mount
        BY <3>1, <4>2 DEF FilingInv
      <4> QED BY <4>1, <4>2
    <3>7. \A u \in sends' : u.mount = comp.mount => (u.at = New <=> comp.at = New)
      BY <2>1 DEF FilingInv
    <3> QED BY <2>1, <3>4, <3>5, <3>6, <3>7 DEF FilingInv
  <2>4. CASE w.at # New
    <3>1. UNCHANGED unheard
      BY <1>13, <2>4 DEF TextFails, CountUnheard
    <3>2. comp.at = New /\ Busy => Busy'
      BY <2>1, <2>4 DEF FilingInv, Busy
    <3> QED BY <2>1, <3>1, <3>2 DEF FilingInv
  <2> QED BY <2>3, <2>4
<1>14. ASSUME NEW w \in sends, PhotoSucceeds(w) PROVE FilingInv'
  <2>1. sends' = sends \ {w} /\ UNCHANGED <<filings, unheard>>
    BY <1>14 DEF PhotoSucceeds, historyVars
  <2>2. CASE w.at = New
    <3>1. Show(Away)
      BY <1>14, <2>2 DEF PhotoSucceeds, FiledAndGone
    <3>2. comp'.mount = comp.mount + 1
      <4>1. ~Stays(Away)
        BY DEF Stays, ComposeAssumption, Targets
      <4> QED BY <3>1, <4>1 DEF Show, Composer
    <3> QED BY <1>1, <2>1, <3>2, FilingFresh
  <2>3. CASE w.at # New
    <3>1. comp'.mount = comp.mount /\ comp'.at = comp.at /\ comp'.filed = comp.filed
      BY <1>14, <2>3 DEF PhotoSucceeds, OnMine, ComposeTypes, ScreenTypes, Composers
    <3>2. comp.at = New /\ Busy => Busy'
      BY <2>1, <2>3, <3>1 DEF Busy, FilingInv
    <3> QED BY <2>1, <3>1, <3>2 DEF FilingInv
  <2> QED BY <2>2, <2>3
<1>15. ASSUME NEW w \in sends, PhotoFails(w) PROVE FilingInv'
  <2>1. sends' = sends \ {w} /\ UNCHANGED <<filings, unheard>>
    BY <1>15 DEF PhotoFails, historyVars
  <2>2. CASE w.mount = comp.mount
    <3>1. /\ comp'.mount = comp.mount /\ comp'.at = comp.at
          /\ comp'.filed = (w.at = New)
      BY <1>15, <2>2
      DEF PhotoFails, OnMine, Mine, ComposeTypes, ScreenTypes, Composers
    <3>2. filings[comp.mount] # unheard[comp.mount] => comp'.filed
      BY <2>2, <3>1 DEF FilingInv
    <3> QED BY <2>1, <3>1, <3>2 DEF FilingInv
  <2>3. CASE w.mount # comp.mount
    <3>1. UNCHANGED comp
      BY <1>15, <2>3 DEF PhotoFails, OnMine, Mine
    <3>2. Busy => Busy'
      BY <2>1, <2>3, <3>1 DEF Busy
    <3> QED BY <2>1, <3>1, <3>2 DEF FilingInv
  <2> QED BY <2>2, <2>3
<1>16. StorageWrites \/ EndSession \/ (\E r \in Timelines : ReadRecord(r)) \/ UNCHANGED composeVars
       => UNCHANGED <<sends, comp, filings, unheard>>
  BY DEF StorageWrites, EndSession, ReadRecord, composeVars, sendVars, historyVars
<1> QED BY <1>2, <1>3, <1>4, <1>5, <1>6, <1>7, <1>8, <1>9, <1>10, <1>11, <1>12,
           <1>13,
           <1>14, <1>15, <1>16 DEF ComposeNext, Storage, Answers

(* But for filings whose answer was lost, the server takes a form once,    *)
(* however often its photo fails, is retried or goes on without it (file,  *)
(* retryPhoto, NewIncidentScreen, NewReportScreen).                        *)
THEOREM ComposerFilesOnce == ASSUME ComposeAssumption PROVE ComposeSpec => []FiledOnce
<1>1. ComposeInit => ComposeTypes /\ FilingInv
  <2> SUFFICES ASSUME ComposeInit PROVE FilingInv
    BY ComposeInitTypes
  <2>1. /\ sends = {} /\ comp.mount = 1
        /\ filings = [m \in 1 .. MaxMounts |-> 0] /\ unheard = filings
    BY DEF ComposeInit, Composer
  <2>2. \A m \in 1 .. MaxMounts : filings[m] = 0 /\ unheard[m] = 0
    BY <2>1
  <2>3. 1 \in 1 .. MaxMounts
    BY DEF ComposeAssumption
  <2> QED BY <2>1, <2>2, <2>3 DEF FilingInv
<1>2. ComposeTypes /\ FilingInv /\ [ComposeNext]_composeVars => (ComposeTypes /\ FilingInv)'
  BY ComposeStepTypes, FilingStep
<1>3. FilingInv => FiledOnce
  BY DEF FilingInv, FiledOnce
<1> QED BY <1>1, <1>2, <1>3, PTL DEF ComposeSpec

(* A text, if any, typed on the target t.                                  *)
TypedOn(x, t) == x # Empty => x \in 1 .. Len(typedAt) /\ typedAt[x] = t

(* What the storage is asked to keep was typed on its target.              *)
AskedOn(q) == /\ q.kind = "get" => TypedOn(q.text, q.at)
              /\ q.kind = "set" => \A t \in Targets : TypedOn(q.drafts[t], t)

StoreOnTarget == /\ \A t \in Targets : TypedOn(disk[t], t)
                 /\ \A i \in 1 .. Len(queue) : AskedOn(queue[i])

(* The composer's text and photo, also one that a send has taken along.    *)
ComposerOnTarget ==
  /\ TypedOn(comp.text, comp.at)
  /\ comp.photo # "none" => comp.photoAt = comp.at
  /\ \A w \in sends : w.mount = comp.mount =>
       /\ w.at = comp.at
       /\ w.photo => comp.photoAt = comp.at

SendsOnTarget == \A w \in sends : /\ TypedOn(w.text, w.at)
                                  /\ w.photo => w.photoAt = w.at
                                  /\ w.stage = "photo" => w.photo

(* Everything entered stays with the record it was entered on.             *)
TargetInv == StoreOnTarget /\ ComposerOnTarget /\ SendsOnTarget

(* Asking for one more thing, and an answer to the first.                  *)
LEMMA AskedMore ==
  ASSUME NEW s \in Seq(Requests), NEW q \in Requests,
         \A i \in 1 .. Len(s) : AskedOn(s[i]), AskedOn(q)
  PROVE  \A i \in 1 .. Len(Append(s, q)) : AskedOn(Append(s, q)[i])
<1> SUFFICES ASSUME NEW i \in 1 .. Len(Append(s, q)) PROVE AskedOn(Append(s, q)[i])
  OBVIOUS
<1>1. CASE i = Len(s) + 1
  <2>1. Append(s, q)[i] = q
    BY <1>1
  <2> QED BY <2>1
<1>2. CASE i \in 1 .. Len(s)
  <2>1. Append(s, q)[i] = s[i]
    BY <1>2
  <2> QED BY <1>2, <2>1
<1> QED BY <1>1, <1>2

(* The first request is answered.                                          *)
LEMMA AskedRest ==
  ASSUME NEW s \in Seq(Requests), s # <<>>, \A i \in 1 .. Len(s) : AskedOn(s[i])
  PROVE  /\ AskedOn(Head(s)) /\ Head(s) \in Requests /\ Tail(s) \in Seq(Requests)
         /\ \A i \in 1 .. Len(Tail(s)) : AskedOn(Tail(s)[i])
<1>1. AskedOn(Head(s)) /\ Head(s) \in Requests /\ Tail(s) \in Seq(Requests)
  <2>1. Head(s) = s[1] /\ 1 \in 1 .. Len(s)
    OBVIOUS
  <2> QED BY <2>1
<1>2. ASSUME NEW i \in 1 .. Len(Tail(s)) PROVE AskedOn(Tail(s)[i])
  <2>1. Tail(s)[i] = s[i + 1] /\ i + 1 \in 1 .. Len(s)
    OBVIOUS
  <2> QED BY <2>1
<1> QED BY <1>1, <1>2

(* The queue of s and what the composer still has to write.                *)
LEMMA FlushedIs ==
  ASSUME ComposeTypes, NEW s \in Seq(Requests)
  PROVE  s \o Flushed = IF comp.dirty THEN Append(s, saveDraft(comp.at, comp.text)) ELSE s
<1>1. CASE comp.dirty
  <2>1. saveDraft(comp.at, comp.text) \in Requests /\ Flushed = <<saveDraft(comp.at, comp.text)>>
    BY <1>1, FlushedTypes
  <2>2. \A q \in Requests : s \o <<q>> = Append(s, q)
    OBVIOUS
  <2> QED BY <1>1, <2>1, <2>2
<1>2. CASE ~comp.dirty
  BY <1>2, FlushedTypes
<1> QED BY <1>1, <1>2

(* What the composer still has to write goes to its own target.            *)
LEMMA AskedFlushed ==
  ASSUME ComposeTypes, TypedOn(comp.text, comp.at),
         NEW s \in Seq(Requests), \A i \in 1 .. Len(s) : AskedOn(s[i])
  PROVE  /\ s \o Flushed \in Seq(Requests)
         /\ \A i \in 1 .. Len(s \o Flushed) : AskedOn((s \o Flushed)[i])
<1>1. CASE comp.dirty
  <2> DEFINE q == saveDraft(comp.at, comp.text)
  <2>1. q \in Requests /\ s \o Flushed = Append(s, q)
    BY <1>1, FlushedTypes, FlushedIs
  <2>2. AskedOn(q)
    BY DEF AskedOn, saveDraft, Get
  <2> HIDE DEF q
  <2>3. Append(s, q) \in Seq(Requests)
    BY <2>1
  <2> QED BY <2>1, <2>2, <2>3, AskedMore
<1>2. CASE ~comp.dirty
  BY <1>2, FlushedIs
<1> QED BY <1>1, <1>2

(* A request that keeps no text.                                           *)
LEMMA AskedEmpty ==
  ASSUME NEW t \in Targets, NEW m \in Nat
  PROVE  /\ loadDraft(t, m) \in Requests /\ AskedOn(loadDraft(t, m))
         /\ clearDraft(t) \in Requests /\ AskedOn(clearDraft(t))
BY DEF loadDraft, clearDraft, Get, Requests, Reads, AskedOn, TypedOn

(* The queue after another screen was opened.                              *)
LEMMA ShowQueue ==
  ASSUME ComposeAssumption, ComposeTypes, NEW t \in Targets \cup {Away}, Show(t)
  PROVE  LET f == queue \o Flushed
         IN  queue' = IF t \in Targets THEN Append(f, loadDraft(t, comp'.mount)) ELSE f
<1>1. comp'.mount \in Nat /\ queue \in Seq(Requests)
  BY ShowTypes
  DEF ComposeTypes, ScreenTypes, Composers, StoreTypes, ComposeAssumption
<1>2. queue \o Flushed \in Seq(Requests)
  BY <1>1, FlushedTypes
<1>3. \A f \in Seq(Requests), q \in Requests : f \o <<q>> = Append(f, q) /\ f \o <<>> = f
  OBVIOUS
<1>4. CASE t \in Targets
  <2>1. loadDraft(t, comp'.mount) \in Requests
    BY <1>1, <1>4, AskedEmpty
  <2>2. queue' = (queue \o Flushed) \o <<loadDraft(t, comp'.mount)>>
    BY <1>4 DEF Show
  <2> QED BY <1>2, <1>3, <1>4, <2>1, <2>2
<1>5. CASE t \notin Targets
  <2>1. queue' = (queue \o Flushed) \o <<>>
    BY <1>5 DEF Show
  <2>2. \A f \in Seq(Requests) : f \o <<>> = f
    OBVIOUS
  <2> QED BY <1>2, <1>5, <2>1, <2>2
<1> QED BY <1>4, <1>5

(* Another screen takes no text or photo along.                            *)
LEMMA TargetShow ==
  ASSUME ComposeAssumption, KeyedComposer, ComposeTypes, TargetInv, NEW t \in Targets \cup {Away},
         Show(t), UNCHANGED <<disk, typedAt>>,
         \A w \in sends' : w \in sends
  PROVE  TargetInv'
<1>1. comp' = Composer(t, comp.mount + 1) /\ comp.mount \in Nat
  BY DEF Show, Stays, ComposeTypes, ScreenTypes, Composers, ComposeAssumption
<1>2. ComposerOnTarget'
  <2>1. \A w \in sends' : w.mount # comp'.mount
    BY <1>1 DEF Composer, ComposeTypes, SendTypes
  <2>2. comp'.text = Empty /\ comp'.photo = "none"
    BY <1>1 DEF Composer
  <2> QED BY <2>1, <2>2 DEF ComposerOnTarget, TypedOn
<1>3. StoreOnTarget'
  <2> DEFINE f == queue \o Flushed
  <2>1. f \in Seq(Requests) /\ \A i \in 1 .. Len(f) : AskedOn(f[i])
    BY AskedFlushed
    DEF ComposeTypes, StoreTypes, TargetInv, StoreOnTarget, ComposerOnTarget
  <2>2. queue' = IF t \in Targets THEN Append(f, loadDraft(t, comp'.mount)) ELSE f
    BY ShowQueue
  <2>3. comp'.mount \in Nat
    BY <1>1 DEF Composer
  <2> HIDE DEF f
  <2>4. \A i \in 1 .. Len(queue') : AskedOn(queue'[i])
    <3>1. CASE t \in Targets
      BY <2>1, <2>2, <2>3, <3>1, AskedEmpty, AskedMore
    <3>2. CASE t \notin Targets
      BY <2>1, <2>2, <3>2
    <3> QED BY <3>1, <3>2
  <2> QED BY <2>4 DEF TargetInv, StoreOnTarget, TypedOn, AskedOn
<1> QED BY <1>2, <1>3 DEF TargetInv, SendsOnTarget, TypedOn

(* The storage is left alone, and so are the texts.                        *)
LEMMA TargetStore ==
  ASSUME StoreOnTarget, UNCHANGED <<disk, queue, typedAt>>
  PROVE  StoreOnTarget'
BY DEF StoreOnTarget, TypedOn, AskedOn

(* Sends that stay go where they went.                                     *)
LEMMA TargetSends ==
  ASSUME SendsOnTarget, UNCHANGED typedAt, \A w \in sends' : w \in sends
  PROVE  SendsOnTarget'
BY DEF SendsOnTarget, TypedOn

(* The composer on screen keeps its target, and its text or none.          *)
LEMMA TargetComposer ==
  ASSUME ComposerOnTarget, UNCHANGED typedAt, \A w \in sends' : w \in sends,
         comp'.at = comp.at, comp'.mount = comp.mount, comp'.photoAt = comp.photoAt,
         comp'.text \in {comp.text, Empty}, comp'.photo \in {comp.photo, "none"}
  PROVE  ComposerOnTarget'
BY DEF ComposerOnTarget, TypedOn

(* One more request.                                                       *)
LEMMA TargetAsks ==
  ASSUME ComposeTypes, StoreOnTarget, UNCHANGED <<disk, typedAt>>,
         NEW q \in Requests, AskedOn(q), queue' = Append(queue, q)
  PROVE  StoreOnTarget'
<1>1. \A i \in 1 .. Len(queue') : AskedOn(queue'[i])
  BY AskedMore DEF ComposeTypes, StoreTypes, StoreOnTarget
<1> QED BY <1>1 DEF StoreOnTarget, TypedOn, AskedOn

(* Every step keeps that, when each record has a composer of its own.      *)
LEMMA TargetStep ==
  ASSUME ComposeAssumption, KeyedComposer, ComposeTypes, TargetInv, [ComposeNext]_composeVars
  PROVE  TargetInv'
<1> USE DEF TargetInv
<1>0. UNCHANGED <<disk, queue, comp, sends, typedAt>> => TargetInv'
  BY TargetStore, TargetSends, TargetComposer
<1>1. CASE StorageReads
  <2> DEFINE q == Head(queue)
  <2>1. /\ q \in Requests /\ AskedOn(q) /\ Tail(queue) \in Seq(Requests)
        /\ \A i \in 1 .. Len(Tail(queue)) : AskedOn(Tail(queue)[i])
        /\ q.kind = "get"
    BY <1>1, AskedRest DEF StorageReads, ComposeTypes, StoreTypes, StoreOnTarget
  <2>2. UNCHANGED <<disk, sends, typedAt>>
    BY <1>1 DEF StorageReads, sendVars, historyVars
  <2>3. q \in Reads
    BY <2>1 DEF Requests, Puts, Remove
  <2>4. StoreOnTarget'
    <3> DEFINE p == Put(q.at, [disk EXCEPT ![q.at] = q.text])
    <3>1. queue' = Tail(queue) \/ queue' = Append(Tail(queue), p)
      BY <1>1 DEF StorageReads
    <3>2. p \in Requests
      BY <2>3 DEF ComposeTypes, StoreTypes, Drafts, Put, Requests, Puts, Reads
    <3>3. AskedOn(p)
      <4>1. p.kind = "set" /\ p.drafts = [disk EXCEPT ![q.at] = q.text]
        BY DEF Put
      <4>2. ASSUME NEW t \in Targets PROVE TypedOn(p.drafts[t], t)
        BY <2>1, <4>1 DEF AskedOn, StoreOnTarget, ComposeTypes, StoreTypes, Drafts
      <4> QED BY <4>1, <4>2 DEF AskedOn
    <3> HIDE DEF p, q
    <3>4. \A i \in 1 .. Len(queue') : AskedOn(queue'[i])
      BY <2>1, <3>1, <3>2, <3>3, AskedMore
    <3> QED BY <2>2, <3>4 DEF StoreOnTarget, TypedOn, AskedOn
  <2>5. ComposerOnTarget'
    <3>1. \/ comp' = comp
          \/ comp' = [comp EXCEPT !.text = disk[q.at]] /\ q.at = comp.at
      BY <1>1 DEF StorageReads, Restore
    <3>2. CASE comp' = comp
      BY <2>2, <3>2, TargetComposer
    <3>3. CASE comp' = [comp EXCEPT !.text = disk[q.at]] /\ q.at = comp.at
      <4>1. /\ comp'.text = disk[comp.at] /\ comp'.at = comp.at /\ comp'.mount = comp.mount
            /\ comp'.photo = comp.photo /\ comp'.photoAt = comp.photoAt
        BY <3>3 DEF ComposeTypes, ScreenTypes, Composers
      <4>2. comp.at \in Targets
        BY <2>3, <3>3 DEF Reads
      <4> QED BY <2>2, <4>1, <4>2 DEF ComposerOnTarget, StoreOnTarget, TypedOn
    <3> QED BY <3>1, <3>2, <3>3
  <2> QED BY <2>2, <2>4, <2>5, TargetSends
<1>2. CASE StorageWrites
  <2> DEFINE q == Head(queue)
  <2>1. /\ q \in Requests /\ AskedOn(q)
        /\ \A i \in 1 .. Len(Tail(queue)) : AskedOn(Tail(queue)[i])
        /\ q.kind = "set"
    BY <1>2, AskedRest DEF StorageWrites, ComposeTypes, StoreTypes, StoreOnTarget
  <2>2. UNCHANGED <<comp, sends, typedAt>> /\ disk' = q.drafts /\ queue' = Tail(queue)
    BY <1>2 DEF StorageWrites, sendVars, historyVars
  <2> HIDE DEF q
  <2>3. StoreOnTarget'
    BY <2>1, <2>2 DEF StoreOnTarget, AskedOn, TypedOn
  <2> QED BY <2>2, <2>3, TargetSends, TargetComposer
<1>3. CASE StorageRemoves
  <2>1. /\ disk' = [t \in Targets |-> Empty] /\ queue' = Tail(queue) \o Flushed
        /\ comp' = Composer(Login, comp.mount + 1) /\ UNCHANGED <<sends, typedAt>>
    BY <1>3 DEF StorageRemoves, sendVars, historyVars
  <2>2. /\ Tail(queue) \in Seq(Requests)
        /\ \A i \in 1 .. Len(Tail(queue)) : AskedOn(Tail(queue)[i])
    BY <1>3, AskedRest DEF StorageRemoves, ComposeTypes, StoreTypes, StoreOnTarget
  <2>3. \A i \in 1 .. Len(queue') : AskedOn(queue'[i])
    BY <2>1, <2>2, AskedFlushed DEF ComposerOnTarget
  <2>4. StoreOnTarget'
    BY <2>1, <2>3 DEF StoreOnTarget, AskedOn, TypedOn
  <2>5. ComposerOnTarget'
    <3>1. comp'.text = Empty /\ comp'.photo = "none" /\ comp'.mount = comp.mount + 1
      BY <2>1 DEF Composer
    <3>2. \A w \in sends' : w.mount # comp'.mount
      BY <2>1, <3>1
      DEF ComposeTypes, ScreenTypes, Composers, SendTypes, ComposeAssumption
    <3> QED BY <3>1, <3>2 DEF ComposerOnTarget, TypedOn
  <2> QED BY <2>1, <2>4, <2>5, TargetSends
<1>4. CASE TypeText
  <2>1. /\ typedAt \in Seq(Targets) /\ comp.at \in Targets
        /\ comp' = [comp EXCEPT !.text = Len(typedAt) + 1, !.dirty = TRUE]
        /\ typedAt' = Append(typedAt, comp.at) /\ UNCHANGED <<disk, queue, sends>>
    BY <1>4 DEF TypeText, OnScreen, storeVars, sendVars, ComposeTypes, TextTypes
  <2>2. \A x, t : TypedOn(x, t) => TypedOn(x, t)'
    BY <2>1 DEF TypedOn
  <2>3. \A q : AskedOn(q) => AskedOn(q)'
    BY <2>2 DEF AskedOn
  <2>4. StoreOnTarget' /\ SendsOnTarget'
    BY <2>1, <2>2, <2>3 DEF StoreOnTarget, SendsOnTarget
  <2>5. /\ comp'.text = Len(typedAt) + 1 /\ comp'.at = comp.at /\ comp'.mount = comp.mount
        /\ comp'.photo = comp.photo /\ comp'.photoAt = comp.photoAt
    BY <2>1 DEF ComposeTypes, ScreenTypes, Composers
  <2>6. TypedOn(comp.text, comp.at)'
    BY <2>1, <2>5 DEF TypedOn
  <2> QED BY <2>1, <2>4, <2>5, <2>6 DEF ComposerOnTarget
<1>5. CASE Erase
  <2>1. UNCHANGED <<disk, queue, sends, typedAt>> /\ comp' = [comp EXCEPT !.text = Empty, !.dirty = TRUE]
    BY <1>5 DEF Erase, storeVars, sendVars
  <2>2. /\ comp'.text = Empty /\ comp'.at = comp.at /\ comp'.mount = comp.mount
        /\ comp'.photo = comp.photo /\ comp'.photoAt = comp.photoAt
    BY <2>1 DEF ComposeTypes, ScreenTypes, Composers
  <2> QED BY <2>1, <2>2, TargetStore, TargetSends, TargetComposer
<1>6. CASE Write
  <2>1. UNCHANGED <<disk, sends, typedAt>> /\ comp' = [comp EXCEPT !.dirty = FALSE]
        /\ queue' = queue \o Flushed
    BY <1>6 DEF Write, sendVars, historyVars
  <2>2. /\ comp'.text = comp.text /\ comp'.at = comp.at /\ comp'.mount = comp.mount
        /\ comp'.photo = comp.photo /\ comp'.photoAt = comp.photoAt
    BY <2>1 DEF ComposeTypes, ScreenTypes, Composers
  <2>3. \A i \in 1 .. Len(queue') : AskedOn(queue'[i])
    BY <2>1, AskedFlushed
    DEF ComposeTypes, StoreTypes, StoreOnTarget, ComposerOnTarget
  <2>4. StoreOnTarget'
    BY <2>1, <2>3 DEF StoreOnTarget, AskedOn, TypedOn
  <2> QED BY <2>1, <2>2, <2>4, TargetSends, TargetComposer
<1>7. ASSUME NEW t \in Targets \cup {Away}, Open(t) PROVE TargetInv'
  BY <1>7, TargetShow DEF Open, sendVars, historyVars
<1>8. CASE ContinueWithout
  BY <1>8, TargetShow DEF ContinueWithout, FiledAndGone, sendVars, historyVars
<1>9. CASE ChoosePhoto
  <2>1. comp' = [comp EXCEPT !.photo = "chosen", !.photoAt = comp.at]
        /\ UNCHANGED <<disk, queue, sends, typedAt>>
    BY <1>9 DEF ChoosePhoto, storeVars, sendVars, historyVars
  <2>2. /\ comp'.text = comp.text /\ comp'.at = comp.at /\ comp'.mount = comp.mount
        /\ comp'.photoAt = comp.at
    BY <2>1 DEF ComposeTypes, ScreenTypes, Composers
  <2>3. ComposerOnTarget'
    BY <2>1, <2>2 DEF ComposerOnTarget, TypedOn
  <2> QED BY <2>1, <2>3, TargetStore, TargetSends
<1>10. CASE RemovePhoto
  <2>1. comp' = [comp EXCEPT !.photo = "none"] /\ UNCHANGED <<disk, queue, sends, typedAt>>
    BY <1>10 DEF RemovePhoto, storeVars, sendVars, historyVars
  <2>2. /\ comp'.text = comp.text /\ comp'.at = comp.at /\ comp'.mount = comp.mount
        /\ comp'.photo = "none" /\ comp'.photoAt = comp.photoAt
    BY <2>1 DEF ComposeTypes, ScreenTypes, Composers
  <2> QED BY <2>1, <2>2, TargetStore, TargetSends, TargetComposer
<1>11. ASSUME NEW isRetry \in BOOLEAN, sends' = sends \cup {Sending(isRetry)},
              isRetry => comp.photo # "none",
              ~isRetry => comp.text # Empty \/ comp.photo # "none",
              comp' \in {comp, [comp EXCEPT !.photo = "uploading"]},
              Sending(isRetry).stage # "photo" => comp' = comp,
              UNCHANGED <<disk, queue, typedAt>>
       PROVE  TargetInv'
  <2> DEFINE w == Sending(isRetry)
  <2>1. /\ w.mount = comp.mount /\ w.at = comp.at /\ w.photoAt = comp.photoAt
        /\ w.text \in {comp.text, Empty} /\ w.photo = (comp.photo # "none")
        /\ w.stage = "photo" => comp.photo # "none"
    BY <1>11 DEF Sending, Payload
  <2>2. /\ comp'.text = comp.text /\ comp'.at = comp.at /\ comp'.mount = comp.mount
        /\ comp'.photoAt = comp.photoAt
        /\ comp'.photo # "none" => comp.photo # "none"
    BY <1>11, <2>1 DEF ComposeTypes, ScreenTypes, Composers
  <2> HIDE DEF w
  <2>3. ComposerOnTarget' /\ SendsOnTarget'
    BY <1>11, <2>1, <2>2 DEF w, ComposerOnTarget, SendsOnTarget, TypedOn
  <2> QED BY <1>11, <2>3, TargetStore
<1>12. CASE PressSend
  <2>1. sends' = sends \cup {Sending(FALSE)} /\ UNCHANGED <<disk, queue, typedAt>>
    BY <1>12 DEF PressSend, storeVars, historyVars
  <2>2. comp.text # Empty \/ comp.photo # "none"
    BY <1>12 DEF PressSend, MaySend, CanSend
  <2>3. comp' = IF Sending(FALSE).stage = "photo" THEN [comp EXCEPT !.photo = "uploading"]
                                                  ELSE comp
    BY <1>12 DEF PressSend
  <2> QED BY <1>11, <2>1, <2>2, <2>3
<1>13. CASE RetryPhoto
  <2>1. /\ sends' = sends \cup {Sending(TRUE)} /\ UNCHANGED <<disk, queue, typedAt>>
        /\ comp.photo = "failed" /\ comp' = [comp EXCEPT !.photo = "uploading"]
    BY <1>13 DEF RetryPhoto, storeVars, historyVars
  <2>2. Sending(TRUE).stage = "photo"
    BY DEF Sending
  <2> QED BY <1>11, <2>1, <2>2
<1>14. ASSUME NEW w \in sends, NEW v, sends' = (sends \ {w}) \cup {v},
              v.mount = w.mount, v.at = w.at, v.text = w.text, v.photoAt = w.photoAt,
              v.photo = w.photo, v.stage = "photo" => v.photo, UNCHANGED typedAt
       PROVE  /\ SendsOnTarget'
              /\ UNCHANGED comp => ComposerOnTarget'
  BY <1>14 DEF SendsOnTarget, ComposerOnTarget, TypedOn
<1>15. ASSUME NEW w \in sends, SendCommits(w) PROVE TargetInv'
  <2> DEFINE v == [w EXCEPT !.done = TRUE]
  <2>1. /\ v.mount = w.mount /\ v.at = w.at /\ v.text = w.text /\ v.photoAt = w.photoAt
        /\ v.photo = w.photo /\ (v.stage = "photo" => v.photo)
    BY DEF ComposeTypes, SendTypes, Sends, SendsOnTarget
  <2>2. sends' = (sends \ {w}) \cup {v} /\ UNCHANGED <<disk, queue, comp, typedAt>>
    BY <1>15 DEF SendCommits, storeVars, historyVars
  <2> HIDE DEF v
  <2> QED BY <1>14, <2>1, <2>2, TargetStore
<1>16. ASSUME NEW w \in sends, TextSucceeds(w) PROVE TargetInv'
  <2> DEFINE q == clearDraft(w.at)
  <2>1. UNCHANGED <<disk, typedAt>> /\ q \in Requests /\ AskedOn(q)
    <3>1. w.at \in Targets
      BY DEF ComposeTypes, SendTypes, Sends
    <3>2. 0 \in Nat
      OBVIOUS
    <3> QED BY <1>16, <3>1, <3>2, AskedEmpty DEF TextSucceeds
  <2>2. CASE w.photo
    <3> DEFINE v == [w EXCEPT !.stage = "photo", !.done = FALSE]
    <3>1. /\ v.mount = w.mount /\ v.at = w.at /\ v.text = w.text /\ v.photoAt = w.photoAt
          /\ v.photo = w.photo /\ v.photo
      BY <2>2 DEF ComposeTypes, SendTypes, Sends
    <3>2. sends' = (sends \ {w}) \cup {v} /\ queue' = Append(queue, q)
      BY <1>16, <2>2 DEF TextSucceeds
    <3>3. OnMine(w, [comp EXCEPT !.text = Empty, !.dirty = FALSE, !.photo = "uploading"])
      BY <1>16, <2>2 DEF TextSucceeds
    <3>4. /\ comp'.text \in {comp.text, Empty} /\ comp'.at = comp.at /\ comp'.mount = comp.mount
          /\ comp'.photoAt = comp.photoAt /\ (comp'.photo = comp.photo \/ w.mount = comp.mount)
      BY <3>3 DEF OnMine, Mine, ComposeTypes, ScreenTypes, Composers
    <3> HIDE DEF v, q
    <3>5. SendsOnTarget'
      BY <1>14, <2>1, <3>1, <3>2
    <3>6. ComposerOnTarget'
      BY <2>1, <2>2, <3>1, <3>2, <3>4 DEF ComposerOnTarget, TypedOn
    <3> QED BY <2>1, <3>2, <3>5, <3>6, TargetAsks
  <2>3. CASE ~w.photo /\ w.at = New
    <3>1. /\ sends' = sends \ {w} /\ comp' = Composer(Away, comp.mount + 1)
          /\ queue' = Append(queue, q) \o (IF Mine(w) THEN <<>> ELSE Flushed)
      BY <1>16, <2>3 DEF TextSucceeds
    <3> HIDE DEF q
    <3>2. ComposerOnTarget'
      <4>1. comp'.text = Empty /\ comp'.photo = "none" /\ comp'.mount = comp.mount + 1
        BY <3>1 DEF Composer
      <4>2. \A u \in sends' : u.mount # comp'.mount
        BY <3>1, <4>1
        DEF ComposeTypes, ScreenTypes, Composers, SendTypes, ComposeAssumption
      <4> QED BY <4>1, <4>2 DEF ComposerOnTarget, TypedOn
    <3>3. /\ Append(queue, q) \in Seq(Requests)
          /\ \A i \in 1 .. Len(Append(queue, q)) : AskedOn(Append(queue, q)[i])
      BY <2>1, AskedMore DEF ComposeTypes, StoreTypes, StoreOnTarget
    <3>4. \A i \in 1 .. Len(queue') : AskedOn(queue'[i])
      <4>1. CASE Mine(w)
        <5>1. \A s \in Seq(Requests) : s \o <<>> = s
          OBVIOUS
        <5> QED BY <3>1, <3>3, <4>1, <5>1
      <4>2. CASE ~Mine(w)
        BY <3>1, <3>3, <4>2, AskedFlushed DEF ComposerOnTarget
      <4> QED BY <4>1, <4>2
    <3>5. StoreOnTarget'
      BY <2>1, <3>4 DEF StoreOnTarget, AskedOn, TypedOn
    <3> QED BY <2>1, <3>1, <3>2, <3>5, TargetSends
  <2>4. CASE ~w.photo /\ w.at # New
    <3>1. /\ sends' = sends \ {w} /\ queue' = Append(queue, q)
          /\ OnMine(w, [comp EXCEPT !.text = Empty, !.dirty = FALSE])
      BY <1>16, <2>4 DEF TextSucceeds
    <3>2. /\ comp'.text \in {comp.text, Empty} /\ comp'.at = comp.at /\ comp'.mount = comp.mount
          /\ comp'.photoAt = comp.photoAt /\ comp'.photo = comp.photo
      BY <3>1 DEF OnMine, ComposeTypes, ScreenTypes, Composers
    <3> HIDE DEF q
    <3> QED BY <2>1, <3>1, <3>2, TargetAsks, TargetSends, TargetComposer
  <2> QED BY <2>2, <2>3, <2>4
<1>17. ASSUME NEW w \in sends, TextFails(w) PROVE TargetInv'
  BY <1>17, TargetStore, TargetSends, TargetComposer
  DEF TextFails, storeVars, historyVars
<1>18. ASSUME NEW w \in sends, PhotoSucceeds(w) PROVE TargetInv'
  <2>1. sends' = sends \ {w} /\ UNCHANGED <<disk, typedAt>>
    BY <1>18 DEF PhotoSucceeds, historyVars
  <2>2. CASE w.at = New
    BY <1>18, <2>1, <2>2, TargetShow DEF PhotoSucceeds, FiledAndGone
  <2>3. CASE w.at # New
    <3>1. UNCHANGED queue /\ OnMine(w, [comp EXCEPT !.photo = "none"])
      BY <1>18, <2>3 DEF PhotoSucceeds
    <3>2. /\ comp'.text = comp.text /\ comp'.at = comp.at /\ comp'.mount = comp.mount
          /\ comp'.photoAt = comp.photoAt /\ comp'.photo \in {comp.photo, "none"}
      BY <3>1 DEF OnMine, ComposeTypes, ScreenTypes, Composers
    <3> QED BY <2>1, <3>1, <3>2, TargetStore, TargetSends, TargetComposer
  <2> QED BY <2>2, <2>3
<1>19. ASSUME NEW w \in sends, PhotoFails(w) PROVE TargetInv'
  <2>1. sends' = sends \ {w} /\ UNCHANGED <<disk, queue, typedAt>> /\ w.stage = "photo"
    BY <1>19 DEF PhotoFails, storeVars, historyVars
  <2>2. OnMine(w, [comp EXCEPT !.photo = "failed", !.filed = (w.at = New)])
    BY <1>19 DEF PhotoFails
  <2>3. /\ comp'.text = comp.text /\ comp'.at = comp.at /\ comp'.mount = comp.mount
        /\ comp'.photoAt = comp.photoAt /\ (comp'.photo = comp.photo \/ w.mount = comp.mount)
    BY <2>2 DEF OnMine, Mine, ComposeTypes, ScreenTypes, Composers
  <2>4. ComposerOnTarget'
    BY <2>1, <2>3 DEF ComposerOnTarget, SendsOnTarget, TypedOn
  <2> QED BY <2>1, <2>4, TargetStore, TargetSends
<1>20. CASE EndSession
  <2>1. Remove \in Requests /\ AskedOn(Remove)
    BY DEF Requests, AskedOn, Remove
  <2>2. queue' = Append(queue, Remove) /\ UNCHANGED <<disk, comp, sends, typedAt>>
    BY <1>20 DEF EndSession, sendVars, historyVars
  <2>3. StoreOnTarget'
    BY <2>1, <2>2, TargetAsks
  <2> QED BY <2>2, <2>3, TargetSends, TargetComposer
<1>21. CASE SignIn
  <2>1. /\ comp.at = Login /\ comp' = [comp EXCEPT !.at = Away]
        /\ UNCHANGED <<disk, queue, sends, typedAt>>
    BY <1>21 DEF SignIn, storeVars, sendVars, historyVars
  <2>2. /\ comp'.text = comp.text /\ comp'.mount = comp.mount
        /\ comp'.photo = comp.photo /\ comp'.photoAt = comp.photoAt
    BY <2>1 DEF ComposeTypes, ScreenTypes, Composers
  <2>3. comp.text = Empty
    BY <2>1
    DEF ComposerOnTarget, TypedOn, ComposeTypes, TextTypes, ComposeAssumption
  <2>4. \A w \in sends : w.mount # comp.mount
    BY <2>1 DEF ComposerOnTarget, ComposeTypes, SendTypes, Sends, ComposeAssumption
  <2>5. comp.photo = "none"
    BY <2>1
    DEF ComposerOnTarget, ComposeTypes, ScreenTypes, Composers, ComposeAssumption,
        Away, Login
  <2>6. ComposerOnTarget'
    BY <2>1, <2>2, <2>3, <2>4, <2>5 DEF ComposerOnTarget, TypedOn
  <2> QED BY <2>1, <2>6, TargetStore, TargetSends
<1>22. CASE Restart
  <2>1. /\ \E t \in {Login, Away} : comp' = Composer(t, comp.mount + 1)
        /\ queue' = <<>> /\ sends' = {} /\ UNCHANGED <<disk, typedAt>>
    BY <1>22 DEF Restart, historyVars
  <2>2. ComposerOnTarget' /\ SendsOnTarget'
    BY <2>1 DEF Composer, ComposerOnTarget, SendsOnTarget, TypedOn
  <2>3. StoreOnTarget'
    BY <2>1 DEF StoreOnTarget, TypedOn
  <2> QED BY <2>2, <2>3
<1>23. (\E r \in Timelines : ReadRecord(r)) \/ UNCHANGED composeVars
       => UNCHANGED <<disk, queue, comp, sends, typedAt>>
  BY DEF ReadRecord, composeVars, storeVars, sendVars, historyVars
<1> QED BY <1>0, <1>1, <1>2, <1>3, <1>4, <1>5, <1>6, <1>7, <1>8, <1>9, <1>10, <1>12,
           <1>13,
           <1>15, <1>16, <1>17, <1>18, <1>19, <1>20, <1>21, <1>22, <1>23
        DEF ComposeNext, Storage, Answers

(* A screen that has just come has nothing entered.                        *)
LEMMA TargetInit == ComposeAssumption /\ ComposeInit => TargetInv
<1> SUFFICES ASSUME ComposeAssumption, ComposeInit PROVE TargetInv
  OBVIOUS
<1>1. PICK t \in Targets : comp = Composer(t, 1) /\ queue = <<loadDraft(t, 1)>>
  BY DEF ComposeInit
<1>2. AskedOn(loadDraft(t, 1))
  BY AskedEmpty
<1>3. StoreOnTarget
  BY <1>1, <1>2 DEF ComposeInit, StoreOnTarget, TypedOn
<1>4. ComposerOnTarget /\ SendsOnTarget
  BY <1>1 DEF ComposeInit, Composer, ComposerOnTarget, SendsOnTarget, TypedOn
<1> QED BY <1>3, <1>4 DEF TargetInv

(* With a composer of its own for each record, a text and a photo go to    *)
(* the record they were entered on, also by way of the draft on the device *)
(* (the key in IncidentDetail).                                            *)
THEOREM ComposerSendsWhereTyped ==
  ASSUME ComposeAssumption, KeyedComposer PROVE ComposeSpec => []SentWhereTyped
<1>1. ComposeInit => ComposeTypes /\ TargetInv
  BY ComposeInitTypes, TargetInit
<1>2. ComposeTypes /\ TargetInv /\ [ComposeNext]_composeVars => (ComposeTypes /\ TargetInv)'
  BY ComposeStepTypes, TargetStep
<1>3. TargetInv => SentWhereTyped
  BY DEF TargetInv, SendsOnTarget, SentWhereTyped, TypedOn
<1> QED BY <1>1, <1>2, <1>3, PTL DEF ComposeSpec

(* Whether a request writes the draft of t, already or in the end.         *)
SetOf(q, t) == q.kind = "set" /\ q.at = t
SaveOf(q, t) == q.kind = "get" /\ q.purpose # "load" /\ q.at = t
KeepsOf(q, t) == SetOf(q, t) \/ SaveOf(q, t)
Kept(q) == IF q.kind = "set" THEN q.drafts[q.at] ELSE q.text

(* The i-th request writes before the j-th: those that were read already   *)
(* come first.                                                             *)
Precedes(s, i, j) == IF s[i].kind = s[j].kind THEN i < j ELSE s[i].kind = "set"

(* The drafts of t that are still to be written get newer, from d on.      *)
InOrder(s, t, d) ==
  /\ \A i \in 1 .. Len(s) : KeepsOf(s[i], t) => d <= Kept(s[i])
  /\ \A i, j \in 1 .. Len(s) :
       KeepsOf(s[i], t) /\ KeepsOf(s[j], t) /\ Precedes(s, i, j) => Kept(s[i]) <= Kept(s[j])

(* None of them is newer than x; one of them is x or newer.                *)
Newest(s, t, d, x) ==
  d <= x /\ \A i \in 1 .. Len(s) : KeepsOf(s[i], t) => Kept(s[i]) <= x
Held(s, t, d, x) ==
  x <= d \/ \E i \in 1 .. Len(s) : KeepsOf(s[i], t) /\ x <= Kept(s[i])

(* A text still to be written is the newest; one that was written is held. *)
Safe(s, t, d, c) ==
  /\ InOrder(s, t, d)
  /\ c.at = t /\ c.dirty => c.text # Empty /\ Newest(s, t, d, c.text)
  /\ c.at = t /\ ~c.dirty /\ c.text # Empty => Held(s, t, d, c.text)

(* The exceptions.                                                         *)
Excused(t) == t \in lost \/ \E v \in acked \cup erased : typedAt[v] = t

DraftInv == /\ acked \cup erased \subseteq 1 .. Len(typedAt)
            /\ \A t \in Targets : ~Excused(t) => Safe(queue, t, disk[t], comp)

(* The texts are numbered as they are typed.                               *)
LEMMA KeptIsNat ==
  ASSUME ComposeAssumption, NEW q \in Requests, NEW t, KeepsOf(q, t)
  PROVE  Kept(q) \in Nat
<1>1. Typed \cup {Empty} \subseteq Nat
  BY DEF Typed, Empty, ComposeAssumption
<1>2. CASE q \in Reads
  BY <1>1, <1>2 DEF Reads, Kept
<1>3. CASE q \in Puts
  BY <1>1, <1>3 DEF Puts, Drafts, Kept
<1>4. CASE q = Remove
  BY <1>4 DEF KeepsOf, SetOf, SaveOf, Remove
<1> QED BY <1>2, <1>3, <1>4 DEF Requests

(* A request that keeps nothing of t.                                      *)
LEMMA OrderMore ==
  ASSUME NEW s \in Seq(Requests), NEW q \in Requests, NEW t, ~KeepsOf(q, t), NEW d
  PROVE  /\ InOrder(s, t, d) => InOrder(Append(s, q), t, d)
         /\ \A x : Newest(s, t, d, x) => Newest(Append(s, q), t, d, x)
         /\ \A x : Held(s, t, d, x) => Held(Append(s, q), t, d, x)
<1> DEFINE r == Append(s, q)
<1>1. /\ Len(r) = Len(s) + 1 /\ r[Len(s) + 1] = q /\ Len(s) \in Nat
      /\ \A i \in 1 .. Len(s) : r[i] = s[i]
  OBVIOUS
<1> HIDE DEF r
<1>2. \A i \in 1 .. Len(r) : KeepsOf(r[i], t) => i \in 1 .. Len(s) /\ r[i] = s[i]
  BY <1>1
<1>3. InOrder(s, t, d) => InOrder(r, t, d)
  BY <1>1, <1>2 DEF InOrder, Precedes
<1>4. \A x : Newest(s, t, d, x) => Newest(r, t, d, x)
  BY <1>2 DEF Newest
<1>5. ASSUME NEW x, Held(s, t, d, x) PROVE Held(r, t, d, x)
  <2>1. CASE x <= d
    BY <2>1 DEF Held
  <2>2. ASSUME NEW i \in 1 .. Len(s), KeepsOf(s[i], t) /\ x <= Kept(s[i])
        PROVE  Held(r, t, d, x)
    <3>1. i \in 1 .. Len(r) /\ r[i] = s[i]
      BY <1>1
    <3> QED BY <2>2, <3>1 DEF Held
  <2> QED BY <1>5, <2>1, <2>2 DEF Held
<1> QED BY <1>3, <1>4, <1>5 DEF r

(* The newest text of t is to be written.                                  *)
LEMMA OrderSaved ==
  ASSUME ComposeAssumption, NEW s \in Seq(Requests), NEW q \in Requests,
         NEW t, NEW d \in Nat, SaveOf(q, t), InOrder(s, t, d), Newest(s, t, d, Kept(q))
  PROVE  /\ InOrder(Append(s, q), t, d)
         /\ Held(Append(s, q), t, d, Kept(q))
<1> DEFINE r == Append(s, q)
<1>1. /\ Len(r) = Len(s) + 1 /\ r[Len(s) + 1] = q /\ Len(s) \in Nat
      /\ \A i \in 1 .. Len(s) : r[i] = s[i] /\ s[i] \in Requests
  OBVIOUS
<1> HIDE DEF r
<1>2. \A i \in 1 .. Len(r) : \/ i \in 1 .. Len(s) /\ r[i] = s[i]
                             \/ i = Len(s) + 1 /\ r[i] = q
  BY <1>1
<1>3. KeepsOf(q, t) /\ Kept(q) \in Nat /\ q.kind = "get"
  BY KeptIsNat DEF KeepsOf, SaveOf
<1>4. \A i \in 1 .. Len(r) : KeepsOf(r[i], t) => d <= Kept(r[i]) /\ Kept(r[i]) <= Kept(q)
  <2> TAKE i \in 1 .. Len(r)
  <2>1. CASE i \in 1 .. Len(s) /\ r[i] = s[i]
    BY <2>1 DEF InOrder, Newest
  <2>2. CASE i = Len(s) + 1 /\ r[i] = q
    BY <1>3, <2>2 DEF Newest
  <2> QED BY <1>2, <2>1, <2>2
<1>5. \A i, j \in 1 .. Len(r) :
        KeepsOf(r[i], t) /\ KeepsOf(r[j], t) /\ Precedes(r, i, j) => Kept(r[i]) <= Kept(r[j])
  <2> SUFFICES ASSUME NEW i \in 1 .. Len(r), NEW j \in 1 .. Len(r),
                      KeepsOf(r[i], t), KeepsOf(r[j], t), Precedes(r, i, j)
               PROVE  Kept(r[i]) <= Kept(r[j])
    OBVIOUS
  <2>1. CASE r[j] = q
    BY <1>4, <2>1
  <2>2. CASE r[j] # q
    <3>1. j \in 1 .. Len(s) /\ r[j] = s[j]
      BY <1>2, <2>2
    <3>2. i # Len(s) + 1
      BY <1>1, <1>3, <3>1 DEF Precedes
    <3>3. i \in 1 .. Len(s) /\ r[i] = s[i]
      BY <1>2, <3>2
    <3> QED BY <3>1, <3>3 DEF InOrder, Precedes
  <2> QED BY <2>1, <2>2
<1>6. Held(r, t, d, Kept(q))
  <2>1. Len(s) + 1 \in 1 .. Len(r) /\ Kept(q) <= Kept(q)
    BY <1>1, <1>3
  <2> QED BY <1>1, <1>3, <2>1 DEF Held
<1> QED BY <1>4, <1>5, <1>6 DEF r, InOrder

(* The first request is answered.                                          *)
LEMMA OrderRest ==
  ASSUME NEW s \in Seq(Requests), s # <<>>, NEW t, NEW d
  PROVE  /\ InOrder(s, t, d) => InOrder(Tail(s), t, d)
         /\ \A x : Newest(s, t, d, x) => Newest(Tail(s), t, d, x)
         /\ ~KeepsOf(Head(s), t) => \A x : Held(s, t, d, x) => Held(Tail(s), t, d, x)
<1> DEFINE r == Tail(s)
<1>1. /\ Len(r) = Len(s) - 1 /\ Len(s) \in Nat /\ Len(s) > 0 /\ Head(s) = s[1]
      /\ \A i \in 1 .. Len(r) : r[i] = s[i + 1]
  OBVIOUS
<1> HIDE DEF r
<1>2. \A i \in 1 .. Len(r) : i + 1 \in 1 .. Len(s) /\ r[i] = s[i + 1]
  BY <1>1
<1>3. InOrder(s, t, d) => InOrder(r, t, d)
  <2> SUFFICES ASSUME InOrder(s, t, d) PROVE InOrder(r, t, d)
    OBVIOUS
  <2>1. \A i, j \in 1 .. Len(r) : Precedes(r, i, j) => Precedes(s, i + 1, j + 1)
    BY <1>2 DEF Precedes
  <2> QED BY <1>2, <2>1 DEF InOrder
<1>4. \A x : Newest(s, t, d, x) => Newest(r, t, d, x)
  BY <1>2 DEF Newest
<1>5. ASSUME ~KeepsOf(Head(s), t), NEW x, Held(s, t, d, x) PROVE Held(r, t, d, x)
  <2>1. CASE x <= d
    BY <2>1 DEF Held
  <2>2. ASSUME NEW i \in 1 .. Len(s), KeepsOf(s[i], t) /\ x <= Kept(s[i])
        PROVE  Held(r, t, d, x)
    <3>1. i - 1 \in 1 .. Len(r) /\ r[i - 1] = s[i]
      BY <1>1, <1>5, <2>2
    <3> QED BY <2>2, <3>1 DEF Held
  <2> QED BY <1>5, <2>1, <2>2 DEF Held
<1> QED BY <1>3, <1>4, <1>5 DEF r

(* The first request wants t written and has been read: it asks to write.  *)
LEMMA OrderMoved ==
  ASSUME ComposeAssumption, NEW s \in Seq(Requests), s # <<>>, NEW q \in Requests,
         NEW t, NEW d \in Nat, InOrder(s, t, d),
         SaveOf(Head(s), t), SetOf(q, t), Kept(q) = Kept(Head(s))
  PROVE  /\ InOrder(Append(Tail(s), q), t, d)
         /\ \A x : Newest(s, t, d, x) => Newest(Append(Tail(s), q), t, d, x)
         /\ \A x : Held(s, t, d, x) => Held(Append(Tail(s), q), t, d, x)
<1> DEFINE r == Append(Tail(s), q)
           n == Len(s)
           Was(i) == IF i = n THEN 1 ELSE i + 1
<1>1. /\ n \in Nat /\ n > 0 /\ Len(r) = n /\ Head(s) = s[1] /\ r[n] = q
      /\ \A i \in 1 .. n : i # n => r[i] = s[i + 1]
      /\ \A i \in 1 .. n : s[i] \in Requests
  <2>1. Tail(s) \in Seq(Requests) /\ Len(Tail(s)) = n - 1 /\ n \in Nat /\ n > 0
        /\ Head(s) = s[1] /\ \A i \in 1 .. n - 1 : Tail(s)[i] = s[i + 1]
    OBVIOUS
  <2>2. Len(r) = n /\ r[n] = q /\ \A i \in 1 .. n - 1 : r[i] = Tail(s)[i]
    BY <2>1
  <2>3. \A i \in 1 .. n : s[i] \in Requests
    OBVIOUS
  <2> HIDE DEF r, n
  <2> QED BY <2>1, <2>2, <2>3
<1>2. KeepsOf(q, t) /\ KeepsOf(s[1], t) /\ Kept(q) = Kept(s[1])
      /\ q.kind = "set" /\ s[1].kind = "get"
  BY <1>1 DEF KeepsOf, SetOf, SaveOf
<1> HIDE DEF r, n
<1>3. \A i \in 1 .. n : /\ Was(i) \in 1 .. n /\ Kept(r[i]) = Kept(s[Was(i)])
                        /\ KeepsOf(r[i], t) <=> KeepsOf(s[Was(i)], t)
                        /\ i # n => r[i] = s[Was(i)]
  BY <1>1, <1>2
<1>4. \A i \in 1 .. n : \E j \in 1 .. n : Was(j) = i
  <2> TAKE i \in 1 .. n
  <2>1. CASE i = 1
    BY <1>1, <2>1
  <2>2. CASE i # 1
    <3>1. i - 1 \in 1 .. n /\ i - 1 # n
      BY <1>1, <2>2
    <3>2. Was(i - 1) = i
      BY <3>1
    <3> QED BY <3>1, <3>2
  <2> QED BY <2>1, <2>2
<1>5. ASSUME NEW i \in 1 .. n, NEW j \in 1 .. n,
             KeepsOf(r[i], t), KeepsOf(r[j], t), Precedes(r, i, j)
      PROVE  Kept(s[Was(i)]) <= Kept(s[Was(j)])
  <2>1. CASE i # n /\ j # n
    <3>1. r[i] = s[i + 1] /\ r[j] = s[j + 1] /\ Was(i) = i + 1 /\ Was(j) = j + 1
      BY <1>1, <2>1
    <3>2. Precedes(s, i + 1, j + 1)
      BY <1>5, <3>1 DEF Precedes
    <3>3. i + 1 \in 1 .. n /\ j + 1 \in 1 .. n
      BY <1>1, <2>1
    <3> HIDE DEF Was
    <3> QED BY <1>5, <3>1, <3>2, <3>3 DEF n, InOrder
  <2>2. CASE i = n
    <3>1. r[j].kind # "set" \/ j = n
      BY <1>1, <1>2, <1>5, <2>2 DEF Precedes
    <3>2. CASE j = n
      <4>1. Kept(s[1]) \in Nat /\ Was(i) = 1 /\ Was(j) = 1
        BY <1>1, <1>2, <2>2, <3>2, KeptIsNat
      <4> HIDE DEF Was
      <4> QED BY <4>1
    <3>3. CASE j # n
      <4>1. r[j] = s[j + 1] /\ Was(j) = j + 1 /\ j + 1 \in 1 .. n
        BY <1>1, <3>3
      <4>2. s[j + 1].kind = "get"
        BY <1>5, <3>1, <3>3, <4>1 DEF KeepsOf, SetOf, SaveOf
      <4>3. Precedes(s, 1, j + 1) /\ 1 \in 1 .. n
        BY <1>1, <1>2, <4>2 DEF Precedes
      <4>4. KeepsOf(s[j + 1], t) /\ Was(i) = 1
        BY <1>5, <2>2, <4>1
      <4> HIDE DEF Was
      <4> QED BY <1>2, <4>1, <4>3, <4>4 DEF n, InOrder
    <3> QED BY <3>2, <3>3
  <2>3. CASE i # n /\ j = n
    <3>1. r[i] = s[i + 1] /\ Was(i) = i + 1 /\ Was(j) = 1 /\ i + 1 \in 1 .. n /\ 1 \in 1 .. n
      BY <1>1, <2>3
    <3>2. s[i + 1].kind = "set"
      BY <1>1, <1>2, <1>5, <2>3, <3>1 DEF Precedes
    <3>3. Precedes(s, i + 1, 1)
      BY <1>2, <3>2 DEF Precedes
    <3> HIDE DEF Was
    <3> QED BY <1>2, <1>5, <3>1, <3>3 DEF n, InOrder
  <2> QED BY <2>1, <2>2, <2>3
<1> HIDE DEF Was
<1>6. InOrder(r, t, d)
  BY <1>1, <1>3, <1>5 DEF InOrder, n
<1>7. \A x : Newest(s, t, d, x) => Newest(r, t, d, x)
  BY <1>1, <1>3 DEF Newest, n
<1>8. ASSUME NEW x, Held(s, t, d, x) PROVE Held(r, t, d, x)
  <2>1. CASE x <= d
    BY <2>1 DEF Held
  <2>2. ASSUME NEW i \in 1 .. n, KeepsOf(s[i], t) /\ x <= Kept(s[i])
        PROVE  Held(r, t, d, x)
    <3>1. PICK j \in 1 .. n : Was(j) = i
      BY <1>4
    <3> QED BY <1>1, <1>3, <2>2, <3>1 DEF Held
  <2> QED BY <1>8, <2>1, <2>2 DEF Held, n
<1> QED BY <1>6, <1>7, <1>8 DEF r

(* The first request writes t.                                             *)
LEMMA OrderWritten ==
  ASSUME ComposeAssumption, NEW s \in Seq(Requests), s # <<>>, NEW t, NEW d \in Nat,
         InOrder(s, t, d), SetOf(Head(s), t)
  PROVE  LET e == Kept(Head(s))
         IN  /\ InOrder(Tail(s), t, e)
             /\ \A x : Newest(s, t, d, x) => Newest(Tail(s), t, e, x)
             /\ \A x \in Nat : Held(s, t, d, x) => Held(Tail(s), t, e, x)
<1> DEFINE r == Tail(s)
           e == Kept(Head(s))
<1>1. /\ Len(r) = Len(s) - 1 /\ Len(s) \in Nat /\ Len(s) > 0 /\ Head(s) = s[1]
      /\ s[1] \in Requests /\ \A i \in 1 .. Len(r) : r[i] = s[i + 1]
  OBVIOUS
<1> HIDE DEF r
<1>2. \A i \in 1 .. Len(r) : i + 1 \in 2 .. Len(s) /\ i + 1 \in 1 .. Len(s) /\ r[i] = s[i + 1]
  BY <1>1
<1>3. KeepsOf(s[1], t) /\ s[1].kind = "set" /\ e = Kept(s[1]) /\ e \in Nat /\ 1 \in 1 .. Len(s)
  <2>1. SetOf(s[1], t) /\ e = Kept(s[1])
    BY <1>1
  <2>2. KeepsOf(s[1], t) /\ s[1].kind = "set"
    BY <2>1 DEF KeepsOf, SetOf
  <2>3. Kept(s[1]) \in Nat
    BY <1>1, <2>2, KeptIsNat
  <2> QED BY <1>1, <2>1, <2>2, <2>3
<1> HIDE DEF e
<1>4. d <= e
  BY <1>3 DEF InOrder
<1>5. \A i \in 2 .. Len(s) : KeepsOf(s[i], t) => e <= Kept(s[i])
  <2> SUFFICES ASSUME NEW i \in 2 .. Len(s), KeepsOf(s[i], t) PROVE e <= Kept(s[i])
    OBVIOUS
  <2>1. i \in 1 .. Len(s) /\ Precedes(s, 1, i)
    BY <1>3 DEF Precedes
  <2> QED BY <1>3, <2>1 DEF InOrder
<1>6. InOrder(r, t, e)
  <2>1. \A i \in 1 .. Len(r) : KeepsOf(r[i], t) => e <= Kept(r[i])
    BY <1>1, <1>2, <1>5
  <2>2. ASSUME NEW i \in 1 .. Len(r), NEW j \in 1 .. Len(r), Precedes(r, i, j)
        PROVE  Precedes(s, i + 1, j + 1)
    <3>1. r[i] = s[i + 1]
      BY <1>2
    <3>2. r[j] = s[j + 1]
      BY <1>2
    <3>3. i \in Nat /\ j \in Nat
      BY <1>1
    <3>4. i < j => i + 1 < j + 1
      BY <3>3
    <3> QED BY <2>2, <3>1, <3>2, <3>4 DEF Precedes
  <2> QED BY <1>2, <2>1, <2>2 DEF InOrder
<1>7. \A x : Newest(s, t, d, x) => Newest(r, t, e, x)
  BY <1>2, <1>3 DEF Newest
<1>8. ASSUME NEW x \in Nat, Held(s, t, d, x) PROVE Held(r, t, e, x)
  <2>1. CASE x <= d
    BY <1>3, <1>4, <2>1 DEF Held
  <2>2. ASSUME NEW i \in 1 .. Len(s), KeepsOf(s[i], t) /\ x <= Kept(s[i])
        PROVE  Held(r, t, e, x)
    <3>1. CASE i = 1
      BY <1>3, <2>2, <3>1 DEF Held
    <3>2. CASE i # 1
      <4>1. i - 1 \in 1 .. Len(r) /\ r[i - 1] = s[i]
        BY <1>1, <3>2
      <4> QED BY <2>2, <4>1 DEF Held
    <3> QED BY <3>1, <3>2
  <2> QED BY <1>8, <2>1, <2>2 DEF Held
<1> QED BY <1>6, <1>7, <1>8 DEF r, e

(* What a request that keeps nothing of t is.                              *)
LEMMA NotKept ==
  ASSUME NEW t, NEW a \in Targets, NEW m \in Nat
  PROVE  /\ ~KeepsOf(loadDraft(a, m), t) /\ ~KeepsOf(Remove, t)
         /\ a # t => ~KeepsOf(clearDraft(a), t)
BY DEF KeepsOf, SetOf, SaveOf, loadDraft, clearDraft, Remove, Get

(* The composer writes what it has: the text it showed is held.            *)
LEMMA SafeFlushed ==
  ASSUME ComposeAssumption, ComposeTypes, NEW t \in Targets, NEW s \in Seq(Requests),
         NEW d \in Nat, Safe(s, t, d, comp)
  PROVE  /\ s \o Flushed \in Seq(Requests) /\ InOrder(s \o Flushed, t, d)
         /\ comp.at = t /\ comp.text # Empty => Held(s \o Flushed, t, d, comp.text)
<1>1. CASE comp.dirty
  <2> DEFINE q == saveDraft(comp.at, comp.text)
  <2>1. q \in Requests /\ s \o Flushed = Append(s, q)
    BY <1>1, FlushedTypes, FlushedIs
  <2>2. /\ q.kind = "get" /\ q.purpose = "save" /\ q.at = comp.at /\ Kept(q) = comp.text
        /\ SaveOf(q, comp.at) /\ (comp.at # t => ~KeepsOf(q, t))
    BY DEF saveDraft, Get, Kept, SaveOf, SetOf, KeepsOf
  <2> HIDE DEF q
  <2>3. Append(s, q) \in Seq(Requests)
    BY <2>1
  <2>4. CASE comp.at = t
    <3>1. Newest(s, t, d, Kept(q)) /\ InOrder(s, t, d)
      BY <1>1, <2>2, <2>4 DEF Safe
    <3> QED BY <2>1, <2>2, <2>3, <2>4, <3>1, OrderSaved
  <2>5. CASE comp.at # t
    BY <2>1, <2>2, <2>3, <2>5, OrderMore DEF Safe
  <2> QED BY <2>4, <2>5
<1>2. CASE ~comp.dirty
  BY <1>2, FlushedIs DEF Safe
<1> QED BY <1>1, <1>2

(* What is excused stays excused.                                          *)
LEMMA ExcusedStays ==
  ASSUME ComposeTypes, acked \cup erased \subseteq 1 .. Len(typedAt),
         lost \subseteq lost', acked \subseteq acked', erased \subseteq erased',
         \/ UNCHANGED typedAt
         \/ \E t \in Targets : typedAt' = Append(typedAt, t),
         NEW t, Excused(t)
  PROVE  Excused(t)'
<1>1. \A v \in 1 .. Len(typedAt) : typedAt'[v] = typedAt[v]
  BY DEF ComposeTypes, TextTypes
<1> QED BY <1>1 DEF Excused

(* Another composer, which has nothing.                                    *)
LEMMA SafeFresh ==
  ASSUME NEW s, NEW t, NEW d, InOrder(s, t, d), NEW a, NEW m
  PROVE  Safe(s, t, d, Composer(a, m))
BY DEF Safe, Composer

(* Another screen.                                                         *)
LEMMA DraftShow ==
  ASSUME ComposeAssumption, KeyedComposer, ComposeTypes, DraftInv,
         NEW a \in Targets \cup {Away}, Show(a),
         UNCHANGED <<disk, lost, typedAt, acked, erased>>
  PROVE  DraftInv'
<1>1. comp' = Composer(a, comp.mount + 1) /\ comp'.mount \in Nat
  BY DEF Show, Stays, Composer, ComposeTypes, ScreenTypes, Composers,
         ComposeAssumption
<1>2. ASSUME NEW t \in Targets, ~Excused(t)' PROVE Safe(queue, t, disk[t], comp)'
  <2> DEFINE f == queue \o Flushed
  <2>1. ~Excused(t)
    BY <1>2 DEF Excused
  <2>2. disk[t] \in Nat /\ queue \in Seq(Requests)
    BY DEF ComposeTypes, StoreTypes, Drafts, Typed, Empty, ComposeAssumption
  <2>3. f \in Seq(Requests) /\ InOrder(f, t, disk[t])
    BY <2>1, <2>2, SafeFlushed DEF DraftInv
  <2>4. queue' = IF a \in Targets THEN Append(f, loadDraft(a, comp'.mount)) ELSE f
    BY ShowQueue
  <2> HIDE DEF f
  <2>5. InOrder(queue', t, disk[t])
    <3>1. CASE a \in Targets
      BY <1>1, <2>3, <2>4, <3>1, AskedEmpty, NotKept, OrderMore
    <3>2. CASE a \notin Targets
      BY <2>3, <2>4, <3>2
    <3> QED BY <3>1, <3>2
  <2> QED BY <1>1, <2>5, SafeFresh
<1> QED BY <1>2 DEF DraftInv

(* The storage and the history are left alone, and so is the composer, but *)
(* for its photo, or it is not at the target.                              *)
LEMMA SafeSame ==
  ASSUME NEW s, NEW t, NEW d, NEW c, NEW e, Safe(s, t, d, c),
         e.at = t => c.at = t /\ e.text = c.text /\ (e.dirty <=> c.dirty)
  PROVE  Safe(s, t, d, e)
BY DEF Safe

(* A step that changes neither the store nor the text.                     *)
LEMMA DraftSame ==
  ASSUME DraftInv, UNCHANGED <<disk, queue, lost, typedAt, acked, erased>>,
         comp'.at \in Targets => /\ comp'.at = comp.at /\ comp'.text = comp.text
                                 /\ comp'.dirty <=> comp.dirty
  PROVE  DraftInv'
<1>1. ASSUME NEW t \in Targets, ~Excused(t)' PROVE Safe(queue, t, disk[t], comp)'
  <2>1. Safe(queue, t, disk[t], comp)
    BY <1>1 DEF DraftInv, Excused
  <2>2. CASE comp'.at # t
    BY <2>1, <2>2 DEF Safe
  <2>3. CASE comp'.at = t
    <3>1. comp'.at \in Targets
      BY <2>3
    <3>2. comp.at = t /\ comp'.text = comp.text
      BY <2>3, <3>1
    <3>3. comp'.dirty <=> comp.dirty
      BY <3>1
    <3> QED BY <2>1, <2>3, <3>2, <3>3 DEF Safe
  <2> QED BY <2>2, <2>3
<1> QED BY <1>1 DEF DraftInv

(* Every step keeps the drafts in order.                                   *)
LEMMA DraftStep ==
  ASSUME ComposeAssumption, KeyedComposer, ComposeTypes, TargetInv, DraftInv, [ComposeNext]_composeVars
  PROVE  DraftInv'
<1>0. /\ queue \in Seq(Requests) /\ Typed \cup {Empty} \subseteq Nat
      /\ \A t \in Targets : disk[t] \in Nat
      /\ comp.text \in Nat
  BY DEF ComposeTypes, StoreTypes, ScreenTypes, Composers, Drafts, Typed, Empty,
         ComposeAssumption
<1>1. CASE StorageReads
  <2> DEFINE q == Head(queue)
             p == Put(q.at, [disk EXCEPT ![q.at] = q.text])
  <2>1. /\ UNCHANGED <<disk, lost, typedAt, acked, erased>> /\ queue # <<>>
        /\ q.kind = "get" /\ q \in Requests /\ Tail(queue) \in Seq(Requests)
    BY <1>1, <1>0 DEF StorageReads, historyVars
  <2>2. q \in Reads
    BY <2>1 DEF Requests, Puts, Remove
  <2>3. /\ q.purpose = "load" => queue' = Tail(queue)
        /\ q.purpose # "load" => queue' = Append(Tail(queue), p) /\ comp' = comp
    BY <1>1 DEF StorageReads, Restore
  <2>4. /\ p \in Requests /\ SetOf(p, q.at) /\ Kept(p) = q.text /\ q.text = Kept(q)
        /\ \A t : t # q.at => ~KeepsOf(p, t)
    <3>1. p \in Requests
      BY <2>2 DEF ComposeTypes, StoreTypes, Drafts, Put, Requests, Puts, Reads
    <3>2. p.kind = "set" /\ p.at = q.at /\ p.drafts = [disk EXCEPT ![q.at] = q.text]
      BY DEF Put
    <3>3. p.drafts[q.at] = q.text
      BY <2>2, <3>2 DEF ComposeTypes, StoreTypes, Drafts, Reads
    <3>4. q.kind = "get"
      BY <2>1
    <3> HIDE DEF p, q
    <3> QED BY <3>1, <3>2, <3>3, <3>4 DEF SetOf, SaveOf, KeepsOf, Kept
  <2>5. ASSUME NEW t \in Targets, ~Excused(t)' PROVE Safe(queue, t, disk[t], comp)'
    <3>1. Safe(queue, t, disk[t], comp) /\ ~Excused(t)
      BY <2>1, <2>5 DEF DraftInv, Excused
    <3>2. CASE q.purpose # "load" /\ q.at = t
      <4>1. SaveOf(q, t)
        BY <2>1, <3>2 DEF SaveOf
      <4>2. Safe(queue', t, disk[t], comp)
        <5>1. /\ p \in Requests /\ SetOf(p, t) /\ Kept(p) = Kept(Head(queue))
              /\ queue' = Append(Tail(queue), p)
          BY <2>3, <2>4, <3>2
        <5> HIDE DEF p
        <5>2. /\ InOrder(queue', t, disk[t])
              /\ \A x : Newest(queue, t, disk[t], x) => Newest(queue', t, disk[t], x)
              /\ \A x : Held(queue, t, disk[t], x) => Held(queue', t, disk[t], x)
          BY <1>0, <2>1, <3>1, <4>1, <5>1, OrderMoved DEF Safe
        <5> QED BY <3>1, <5>2 DEF Safe
      <4> QED BY <2>1, <2>3, <3>2, <4>2
    <3>3. CASE q.purpose # "load" /\ q.at # t
      <4>1. ~KeepsOf(q, t) /\ ~KeepsOf(p, t)
        BY <2>4, <3>3 DEF KeepsOf, SaveOf, SetOf
      <4>2. Safe(Tail(queue), t, disk[t], comp)
        BY <1>0, <2>1, <3>1, <4>1, OrderRest DEF Safe
      <4>3. Safe(queue', t, disk[t], comp)
        <5> HIDE DEF p, q
        <5> QED BY <2>1, <2>3, <2>4, <3>3, <4>1, <4>2, OrderMore DEF Safe
      <4> QED BY <2>1, <2>3, <3>3, <4>3
    <3>4. CASE q.purpose = "load"
      <4>1. ~KeepsOf(q, t)
        BY <2>1, <3>4 DEF KeepsOf, SaveOf, SetOf
      <4>2. Safe(queue', t, disk[t], comp)
        BY <1>0, <2>1, <2>3, <3>1, <3>4, <4>1, OrderRest DEF Safe
      <4>3. \/ comp' = comp
            \/ /\ comp' = [comp EXCEPT !.text = disk[q.at]]
               /\ q.at = comp.at /\ comp.text = Empty
        BY <1>1 DEF StorageReads, Restore
      <4>4. CASE comp' = comp
        BY <2>1, <4>2, <4>4
      <4>5. CASE /\ comp' = [comp EXCEPT !.text = disk[q.at]]
                 /\ q.at = comp.at /\ comp.text = Empty
        <5>1. comp'.text = disk[comp.at] /\ comp'.at = comp.at /\ (comp'.dirty <=> comp.dirty)
          BY <4>5 DEF ComposeTypes, ScreenTypes, Composers
        <5>2. comp.at = t => ~comp.dirty
          BY <3>1, <4>5 DEF Safe
        <5>3. Held(queue', t, disk[t], disk[t])
          BY <1>0 DEF Held
        <5>4. Safe(queue', t, disk[t], comp')
          BY <4>2, <5>1, <5>2, <5>3 DEF Safe
        <5> QED BY <2>1, <5>4
      <4> QED BY <4>3, <4>4, <4>5
    <3> QED BY <3>2, <3>3, <3>4
  <2> QED BY <2>1, <2>5 DEF DraftInv
<1>2. CASE StorageWrites
  <2> DEFINE q == Head(queue)
  <2>1. /\ UNCHANGED <<comp, typedAt, acked, erased>> /\ queue # <<>>
        /\ q.kind = "set" /\ q \in Requests /\ Tail(queue) \in Seq(Requests)
        /\ disk' = q.drafts /\ queue' = Tail(queue)
        /\ lost' = lost \cup {t \in Targets \ {q.at} : q.drafts[t] # disk[t]}
    BY <1>2, <1>0 DEF StorageWrites, historyVars
  <2> HIDE DEF q
  <2>2. ASSUME NEW t \in Targets, ~Excused(t)' PROVE Safe(queue, t, disk[t], comp)'
    <3>1. Safe(queue, t, disk[t], comp) /\ t \notin lost'
      BY <2>1, <2>2 DEF DraftInv, Excused
    <3>2. CASE q.at = t
      <4>1. SetOf(q, t) /\ disk'[t] = Kept(q)
        BY <2>1, <3>2 DEF SetOf, Kept
      <4>2. Safe(Tail(queue), t, Kept(q), comp)
        BY <1>0, <2>1, <3>1, <4>1, OrderWritten DEF Safe, q
      <4> QED BY <2>1, <4>1, <4>2
    <3>3. CASE q.at # t
      <4>1. ~KeepsOf(q, t) /\ disk'[t] = disk[t]
        BY <2>1, <3>1, <3>3 DEF KeepsOf, SetOf, SaveOf
      <4>2. Safe(Tail(queue), t, disk[t], comp)
        BY <1>0, <2>1, <3>1, <4>1, OrderRest DEF Safe, q
      <4> QED BY <2>1, <4>1, <4>2
    <3> QED BY <3>2, <3>3
  <2> QED BY <2>1, <2>2 DEF DraftInv
<1>3. CASE StorageRemoves
  <2>1. /\ queue # <<>> /\ disk' = [t \in Targets |-> Empty] /\ queue' = Tail(queue) \o Flushed
        /\ comp' = Composer(Login, comp.mount + 1)
        /\ UNCHANGED <<lost, typedAt, acked, erased>>
    BY <1>3 DEF StorageRemoves, historyVars
  <2>2. ASSUME NEW t \in Targets, ~Excused(t)' PROVE Safe(queue, t, disk[t], comp)'
    <3>1. Safe(queue, t, disk[t], comp)
      BY <2>1, <2>2 DEF DraftInv, Excused
    <3> DEFINE r == queue \o Flushed
               f == Tail(queue) \o Flushed
    <3>2. InOrder(r, t, disk[t]) /\ r \in Seq(Requests)
      BY <1>0, <3>1, SafeFlushed
    <3>3. r # <<>> /\ Tail(r) = f
      <4>1. Flushed \in Seq(Requests)
        BY FlushedTypes
      <4>2. \A a, b \in Seq(Requests) : a # <<>> => a \o b # <<>> /\ Tail(a \o b) = Tail(a) \o b
        <5> TAKE a, b \in Seq(Requests)
        <5> HAVE a # <<>>
        <5>1. a \o b \in Seq(Requests) /\ Len(a \o b) = Len(a) + Len(b) /\ Len(a) > 0
          OBVIOUS
        <5>2. a \o b # <<>>
          BY <5>1
        <5>3. Tail(a) \o b \in Seq(Requests) /\ Tail(a \o b) \in Seq(Requests)
              /\ Len(Tail(a) \o b) = Len(a) - 1 + Len(b)
              /\ Len(Tail(a \o b)) = Len(a) - 1 + Len(b)
          BY <5>1, <5>2
        <5>4. \A i \in 1 .. Len(a) - 1 + Len(b) : (Tail(a) \o b)[i] = Tail(a \o b)[i]
          BY <5>1, <5>2
        <5> QED BY <5>2, <5>3, <5>4
      <4> QED BY <1>0, <2>1, <4>1, <4>2
    <3> HIDE DEF r, f
    <3>4. InOrder(f, t, disk[t])
      BY <3>2, <3>3, OrderRest
    <3>5. f \in Seq(Requests)
      BY <3>2, <3>3
    <3>6. InOrder(f, t, Empty)
      <4>1. \A i \in 1 .. Len(f) : f[i] \in Requests
        BY <3>5
      <4>2. \A i \in 1 .. Len(f) : KeepsOf(f[i], t) => Empty <= Kept(f[i])
        BY <4>1, KeptIsNat DEF Empty
      <4> QED BY <3>4, <4>2 DEF InOrder
    <3>7. Safe(f, t, Empty, comp')
      BY <2>1, <3>6, SafeFresh
    <3> QED BY <2>1, <3>7 DEF f
  <2> QED BY <2>1, <2>2 DEF DraftInv
<1>4. CASE TypeText
  <2>1. /\ typedAt \in Seq(Targets) /\ comp.at \in Targets
        /\ comp' = [comp EXCEPT !.text = Len(typedAt) + 1, !.dirty = TRUE]
        /\ typedAt' = Append(typedAt, comp.at)
        /\ UNCHANGED <<disk, queue, lost, acked, erased>>
    BY <1>4 DEF TypeText, OnScreen, storeVars, ComposeTypes, TextTypes
  <2>2. comp'.text = Len(typedAt) + 1 /\ comp'.at = comp.at /\ comp'.dirty = TRUE
    BY <2>1 DEF ComposeTypes, ScreenTypes, Composers
  <2>3. Len(typedAt') = Len(typedAt) + 1 /\ Len(typedAt) \in Nat
    BY <2>1
  <2>4. ASSUME NEW t \in Targets, ~Excused(t)' PROVE Safe(queue, t, disk[t], comp)'
    <3>1. Safe(queue, t, disk[t], comp)
      BY <2>1, <2>4, ExcusedStays DEF DraftInv
    <3>2. \A x : TypedOn(x, t) => x <= comp'.text
      BY <2>2, <2>3 DEF TypedOn, Empty
    <3>3. Newest(queue, t, disk[t], comp'.text)
      <4>1. disk[t] <= comp'.text
        BY <3>2 DEF TargetInv, StoreOnTarget
      <4>2. ASSUME NEW i \in 1 .. Len(queue), KeepsOf(queue[i], t)
            PROVE  Kept(queue[i]) <= comp'.text
        <5>1. AskedOn(queue[i])
          BY DEF TargetInv, StoreOnTarget
        <5>2. TypedOn(Kept(queue[i]), t)
          BY <4>2, <5>1 DEF AskedOn, KeepsOf, SetOf, SaveOf, Kept
        <5> QED BY <3>2, <5>2
      <4> QED BY <4>1, <4>2 DEF Newest
    <3>4. comp'.text # Empty
      BY <2>2, <2>3 DEF Empty
    <3>5. Safe(queue, t, disk[t], comp')
      BY <2>2, <3>1, <3>3, <3>4 DEF Safe
    <3> QED BY <2>1, <3>5
  <2> QED BY <2>1, <2>3, <2>4 DEF DraftInv
<1>5. CASE Erase
  <2>1. /\ UNCHANGED <<disk, queue, lost, typedAt, acked>> /\ comp.text # Empty
        /\ comp' = [comp EXCEPT !.text = Empty, !.dirty = TRUE]
        /\ erased' = erased \cup {comp.text}
    BY <1>5 DEF Erase, storeVars
  <2>2. comp.text \in 1 .. Len(typedAt) /\ typedAt[comp.text] = comp.at
    BY <2>1 DEF TargetInv, ComposerOnTarget, TypedOn
  <2>3. comp'.at = comp.at /\ Excused(comp.at)'
    BY <2>1, <2>2 DEF Excused, ComposeTypes, ScreenTypes, Composers
  <2>4. ASSUME NEW t \in Targets, ~Excused(t)' PROVE Safe(queue, t, disk[t], comp)'
    <3>1. Safe(queue, t, disk[t], comp) /\ t # comp.at
      BY <2>1, <2>3, <2>4 DEF DraftInv, Excused
    <3>2. Safe(queue, t, disk[t], comp')
      BY <2>3, <3>1, SafeSame
    <3> QED BY <2>1, <3>2
  <2> QED BY <2>1, <2>2, <2>4 DEF DraftInv
<1>6. CASE Write
  <2>1. /\ UNCHANGED <<disk, lost, typedAt, acked, erased>> /\ comp' = [comp EXCEPT !.dirty = FALSE]
        /\ queue' = queue \o Flushed
    BY <1>6 DEF Write, historyVars
  <2>2. comp'.at = comp.at /\ comp'.text = comp.text /\ comp'.dirty = FALSE
    BY <2>1 DEF ComposeTypes, ScreenTypes, Composers
  <2>3. ASSUME NEW t \in Targets, ~Excused(t)' PROVE Safe(queue, t, disk[t], comp)'
    <3>1. Safe(queue, t, disk[t], comp)
      BY <2>1, <2>3 DEF DraftInv, Excused
    <3>2. /\ InOrder(queue', t, disk[t])
          /\ comp.at = t /\ comp.text # Empty => Held(queue', t, disk[t], comp.text)
      BY <1>0, <2>1, <3>1, SafeFlushed
    <3>3. Safe(queue', t, disk[t], comp')
      BY <2>2, <3>2 DEF Safe
    <3> QED BY <2>1, <3>3
  <2> QED BY <2>1, <2>3 DEF DraftInv
<1>7. ASSUME NEW t \in Targets \cup {Away}, Open(t) PROVE DraftInv'
  BY <1>7, DraftShow DEF Open, historyVars
<1>8. CASE ContinueWithout
  BY <1>8, DraftShow DEF ContinueWithout, FiledAndGone, historyVars
<1>9. CASE ChoosePhoto \/ RemovePhoto \/ PressSend \/ RetryPhoto \/ SignIn
  <2>1. UNCHANGED <<disk, queue, lost, typedAt, acked, erased>>
    BY <1>9
    DEF ChoosePhoto, RemovePhoto, PressSend, RetryPhoto, SignIn, storeVars,
        historyVars
  <2>2. comp'.at \in Targets => /\ comp'.at = comp.at /\ comp'.text = comp.text
                                /\ comp'.dirty <=> comp.dirty
    <3>1. CASE ChoosePhoto \/ RemovePhoto \/ PressSend \/ RetryPhoto
      BY <3>1
      DEF ChoosePhoto, RemovePhoto, PressSend, RetryPhoto, ComposeTypes,
          ScreenTypes, Composers
    <3>2. CASE SignIn
      BY <3>2 DEF SignIn, ComposeTypes, ScreenTypes, Composers, ComposeAssumption
    <3> QED BY <1>9, <3>1, <3>2
  <2> QED BY <2>1, <2>2, DraftSame
<1>10. CASE EndSession
  <2>1. /\ UNCHANGED <<disk, comp, lost, typedAt, acked, erased>>
        /\ queue' = Append(queue, Remove)
    BY <1>10 DEF EndSession, historyVars
  <2>2. ASSUME NEW t \in Targets, ~Excused(t)' PROVE Safe(queue, t, disk[t], comp)'
    <3>1. Safe(queue, t, disk[t], comp)
      BY <2>1, <2>2 DEF DraftInv, Excused
    <3>2. Remove \in Requests /\ ~KeepsOf(Remove, t)
      BY DEF Requests, Remove, KeepsOf, SetOf, SaveOf
    <3>3. Safe(queue', t, disk[t], comp)
      BY <1>0, <2>1, <3>1, <3>2, OrderMore DEF Safe
    <3> QED BY <2>1, <3>3
  <2> QED BY <2>1, <2>2 DEF DraftInv
<1>11. CASE Restart
  <2>1. /\ UNCHANGED <<disk, lost, typedAt, acked, erased>> /\ queue' = <<>>
        /\ \E t \in {Login, Away} : comp' = Composer(t, comp.mount + 1)
    BY <1>11 DEF Restart, historyVars
  <2>2. ASSUME NEW t \in Targets PROVE Safe(queue, t, disk[t], comp)'
    <3>1. InOrder(<<>>, t, disk[t])
      BY DEF InOrder
    <3>2. Safe(queue', t, disk[t], comp')
      BY <2>1, <3>1, SafeFresh
    <3> QED BY <2>1, <3>2
  <2> QED BY <2>1, <2>2 DEF DraftInv
<1>12. ASSUME NEW w \in sends, TextSucceeds(w) PROVE DraftInv'
  <2> DEFINE q == clearDraft(w.at)
  <2>1. /\ UNCHANGED <<disk, lost, typedAt, erased>> /\ acked' = acked \cup {w.text}
        /\ w.at \in Targets /\ q \in Requests
        /\ w.text \in 1 .. Len(typedAt) /\ typedAt[w.text] = w.at
    <3>1. w.at \in Targets /\ w.text # Empty
      BY <1>12 DEF TextSucceeds, ComposeTypes, SendTypes, Sends
    <3>2. 0 \in Nat
      OBVIOUS
    <3>3. q \in Requests
      BY <3>1, <3>2, AskedEmpty
    <3>4. w.text \in 1 .. Len(typedAt) /\ typedAt[w.text] = w.at
      BY <3>1 DEF TargetInv, SendsOnTarget, TypedOn
    <3> QED BY <1>12, <3>1, <3>3, <3>4 DEF TextSucceeds
  <2>2. Excused(w.at)'
    BY <2>1 DEF Excused
  <2>3. ASSUME NEW t \in Targets, ~Excused(t)' PROVE Safe(queue, t, disk[t], comp)'
    <3>1. Safe(queue, t, disk[t], comp) /\ t # w.at
      BY <2>1, <2>2, <2>3 DEF DraftInv, Excused
    <3>2. ~KeepsOf(q, t)
      BY <3>1 DEF clearDraft, Get, KeepsOf, SetOf, SaveOf
    <3> HIDE DEF q
    <3>3. Safe(Append(queue, q), t, disk[t], comp) /\ Append(queue, q) \in Seq(Requests)
      BY <1>0, <2>1, <3>1, <3>2, OrderMore DEF Safe
    <3>4. CASE ~w.photo /\ w.at = New
      <4>1. /\ comp' = Composer(Away, comp.mount + 1)
            /\ queue' = Append(queue, q) \o (IF Mine(w) THEN <<>> ELSE Flushed)
        BY <1>12, <3>4 DEF TextSucceeds, q
      <4>2. InOrder(queue', t, disk[t])
        <5>1. CASE Mine(w)
          <6>1. \A s \in Seq(Requests) : s \o <<>> = s
            OBVIOUS
          <6> QED BY <3>3, <4>1, <5>1, <6>1 DEF Safe
        <5>2. CASE ~Mine(w)
          BY <1>0, <3>3, <4>1, <5>2, SafeFlushed
        <5> QED BY <5>1, <5>2
      <4> QED BY <2>1, <4>1, <4>2, SafeFresh
    <3>5. CASE w.photo \/ w.at # New
      <4>1. queue' = Append(queue, q)
        BY <1>12, <3>5 DEF TextSucceeds, q
      <4>2. comp'.at = t => comp' = comp
        <5>1. comp'.at = comp.at /\ (~Mine(w) => comp' = comp)
          BY <1>12, <3>5
          DEF TextSucceeds, OnMine, ComposeTypes, ScreenTypes, Composers
        <5>2. Mine(w) => comp.at = w.at
          BY DEF Mine, TargetInv, ComposerOnTarget
        <5> QED BY <3>1, <5>1, <5>2
      <4>3. Safe(queue', t, disk[t], comp')
        BY <3>3, <4>1, <4>2, SafeSame
      <4> QED BY <2>1, <4>3
    <3> QED BY <3>4, <3>5
  <2> QED BY <2>1, <2>3 DEF DraftInv
<1>13. ASSUME NEW w \in sends, PhotoSucceeds(w) PROVE DraftInv'
  <2>1. UNCHANGED <<disk, lost, typedAt, acked, erased>>
    BY <1>13 DEF PhotoSucceeds, historyVars
  <2>2. CASE w.at = New
    BY <1>13, <2>1, <2>2, DraftShow DEF PhotoSucceeds, FiledAndGone
  <2>3. CASE w.at # New
    <3>1. UNCHANGED queue /\ OnMine(w, [comp EXCEPT !.photo = "none"])
      BY <1>13, <2>3 DEF PhotoSucceeds
    <3>2. comp'.at = comp.at /\ comp'.text = comp.text /\ (comp'.dirty <=> comp.dirty)
      BY <3>1 DEF OnMine, ComposeTypes, ScreenTypes, Composers
    <3> QED BY <2>1, <3>1, <3>2, DraftSame
  <2> QED BY <2>2, <2>3
<1>14. ASSUME NEW w \in sends, SendCommits(w) \/ TextFails(w) \/ PhotoFails(w) PROVE DraftInv'
  <2>1. UNCHANGED <<disk, queue, lost, typedAt, acked, erased>>
    BY <1>14 DEF SendCommits, TextFails, PhotoFails, storeVars, historyVars
  <2>2. comp'.at = comp.at /\ comp'.text = comp.text /\ (comp'.dirty <=> comp.dirty)
    BY <1>14
    DEF SendCommits, TextFails, PhotoFails, OnMine, ComposeTypes, ScreenTypes,
        Composers
  <2> QED BY <2>1, <2>2, DraftSame
<1>15. CASE (\E r \in Timelines : ReadRecord(r)) \/ UNCHANGED composeVars
  <2>1. UNCHANGED <<disk, queue, comp, lost, typedAt, acked, erased>>
    BY <1>15 DEF ReadRecord, composeVars, storeVars, historyVars
  <2> QED BY <2>1, DraftSame
<1> QED BY <1>1, <1>2, <1>3, <1>4, <1>5, <1>6, <1>7, <1>8, <1>9, <1>10, <1>11,
           <1>12, <1>13,
           <1>14, <1>15 DEF ComposeNext, Storage, Answers

(* At first nothing is to be written.                                      *)
LEMMA DraftInit == ComposeAssumption /\ ComposeInit => DraftInv
<1> SUFFICES ASSUME ComposeAssumption, ComposeInit PROVE DraftInv
  OBVIOUS
<1>1. PICK t \in Targets : comp = Composer(t, 1) /\ queue = <<loadDraft(t, 1)>>
  BY DEF ComposeInit
<1>2. ASSUME NEW u \in Targets PROVE Safe(queue, u, disk[u], comp)
  <2>1. Len(queue) = 1 /\ \A i \in 1 .. 1 : ~KeepsOf(queue[i], u)
    BY <1>1 DEF loadDraft, Get, KeepsOf, SetOf, SaveOf
  <2>2. InOrder(queue, u, disk[u])
    BY <2>1 DEF InOrder
  <2> QED BY <1>1, <2>2, SafeFresh
<1> QED BY <1>2 DEF DraftInv, ComposeInit

(* Once the storage is quiet, the text in the composer or a newer one of   *)
(* its target is on the device, whatever the order of debounce, blur,      *)
(* unmount, late loads, ends and restarts; but for an erased text, a send  *)
(* that succeeded, and another target's write (useDraft, drafts.ts).       *)
THEOREM ComposerStoresDraft ==
  ASSUME ComposeAssumption, KeyedComposer PROVE ComposeSpec => []DraftIsStored
<1>1. ComposeInit => ComposeTypes /\ TargetInv /\ DraftInv
  BY ComposeInitTypes, TargetInit, DraftInit
<1>2. ComposeTypes /\ TargetInv /\ DraftInv /\ [ComposeNext]_composeVars
      => (ComposeTypes /\ TargetInv /\ DraftInv)'
  BY ComposeStepTypes, TargetStep, DraftStep
<1>3. ComposeTypes /\ DraftInv => DraftIsStored
  <2> SUFFICES ASSUME ComposeTypes, DraftInv, OnScreen, queue = <<>>, ~comp.dirty,
                      comp.text # Empty, ~Excused(comp.at)
               PROVE  disk[comp.at] >= comp.text
    BY DEF DraftIsStored, Excused
  <2>1. Held(queue, comp.at, disk[comp.at], comp.text)
    BY DEF DraftInv, Safe, OnScreen
  <2> QED BY <2>1
          DEF Held, ComposeTypes, StoreTypes, ScreenTypes, Composers, Drafts,
              OnScreen, Typed, Empty
<1> QED BY <1>1, <1>2, <1>3, PTL DEF ComposeSpec

---------------------------------------------------------------------------
(* The event feed of the legacy web client (LegacyFeed): for any tabs,     *)
(* pages, records, writes and faults.                                      *)

Versions == 0 .. MaxSaves

AnyPage == [type : {"table"}, on : Kinds] \cup [type : {"record"}, on : FeedRecords]

(* An event as it travels: the newest id, or one record's update.          *)
Announcements ==
  {m \in [id : Versions, kind : Kinds, about : FeedRecords, rec : FeedRecords \cup {Nothing}] :
      m.kind = KindOf(m.about) /\ m.rec \in {Nothing, m.about}}

Events == [id : Versions, kind : {"initial"}] \cup Announcements

TabReads == [scope : SUBSET FeedRecords, from : [FeedRecords -> Versions]]

FeedTypes ==
  /\ ver \in [FeedRecords -> Versions] /\ counter \in Versions
  /\ DOMAIN used = {"saves", "opens", "faults"} /\ used.saves \in Versions
  /\ pokes \subseteq [id : Versions, rec : FeedRecords]
  /\ last \in Versions \cup {Nothing} /\ lock \in Tabs \cup {Nothing}
  /\ loop \in [Tabs -> {"none", "queued", "holding", "resting"}]
  /\ stream \in [Tabs -> {"off", "connecting", "open"}]
  /\ wire \in [Tabs -> Seq(Events)]
  /\ page \in [Tabs -> AnyPage \cup {Nothing}]
  /\ \A t \in Tabs : page[t] \in Pages[t] \cup {Nothing}
  /\ phase \in [Tabs -> {"closed", "loading", "listening"}]
  /\ \A t \in Tabs : phase[t] # "closed" => page[t] \in AnyPage
  /\ drawn \in [Tabs -> [FeedRecords -> Versions \cup {Nothing}]]
  /\ reads \in [Tabs -> SUBSET TabReads]
  /\ doubt \in [Tabs -> SUBSET FeedRecords]
  /\ aged \in BOOLEAN /\ missed \in SUBSET FeedRecords

(* No id and no version is greater than the number of writes.              *)
CountInv ==
  /\ counter <= used.saves /\ \A r \in FeedRecords : ver[r] <= used.saves
  /\ \A p \in pokes : p.id <= counter
  /\ \A t \in Tabs : \A i \in DOMAIN wire[t] : wire[t][i].id <= counter

(* The lock, the loop and the stream of a tab agree.                       *)
LeaderInv ==
  \A t \in Tabs :
     /\ loop[t] = "holding" <=> lock = t
     /\ stream[t] # "off" <=> lock = t
     /\ phase[t] = "listening" <=> loop[t] # "none"
     /\ stream[t] # "open" => wire[t] = <<>>

(* A row that is not in doubt is covered by one read at the most.          *)
ReadsInv ==
  \A t \in Tabs :
     /\ phase[t] = "closed" => reads[t] = {}
     /\ \A r \in FeedRecords \ doubt[t] : \A rd1, rd2 \in reads[t] :
           r \in rd1.scope /\ r \in rd2.scope => rd1 = rd2

(* The row is current, or the read under way will make it so.              *)
Fresh(t, r) ==
  \/ \E rd \in reads[t] : r \in rd.scope /\ rd.from[r] = ver[r]
  \/ (\A rd \in reads[t] : r \notin rd.scope) /\ drawn[t][r] = ver[r]

(* The record's update waits to be published or to be received.            *)
Announced(r) ==
  \/ \E p \in pokes : p.rec = r
  \/ \E t \in Tabs : \E i \in DOMAIN wire[t] : wire[t][i].kind \in Kinds /\ wire[t][i].about = r

(* Comparing this id will tell that something was missed, or the ids have  *)
(* begun again.                                                            *)
Differs(id) == aged \/ last = Nothing \/ last < id

(* The next event received is the newest id, and it will be noticed.       *)
CatchUp ==
  \/ (\A t \in Tabs : stream[t] # "open") /\ Differs(counter)
  \/ \E t \in Tabs : wire[t] # <<>> /\ wire[t][1].kind = "initial" /\ Differs(wire[t][1].id)

Pending(r) == Announced(r) \/ (r \notin Visits /\ CatchUp)

CurrentInv ==
  \A t \in Tabs : phase[t] # "closed" =>
     \A r \in Followed(page[t]) : r \in doubt[t] \/ r \in missed \/ Fresh(t, r) \/ Pending(r)

FeedInv == FeedTypes /\ CountInv /\ LeaderInv /\ ReadsInv /\ CurrentInv

LEMMA FeedInvImplies == FeedInv => OneStream /\ FeedNeverAbandoned /\ QuietTablesCurrent
<1> SUFFICES ASSUME FeedInv PROVE OneStream /\ FeedNeverAbandoned /\ QuietTablesCurrent
  OBVIOUS
<1>1. FeedTypeOK
  <2>1. ASSUME NEW t \in Tabs PROVE \A e \in Range(wire[t]) : e.id \in Versions /\ e.kind \in Kinds \cup {"initial"}
    <3>1. wire[t] \in Seq(Events)
      BY DEF FeedInv, FeedTypes
    <3>2. \A e \in Range(wire[t]) : e \in Events
      BY <3>1 DEF Range
    <3> QED BY <3>2 DEF Events, Announcements
  <2>2. \A p \in pokes : p.id \in Versions /\ p.rec \in FeedRecords
    BY DEF FeedInv, FeedTypes
  <2>3. ASSUME NEW t \in Tabs
        PROVE /\ page[t] \in Pages[t] \cup {Nothing} /\ phase[t] \in {"closed", "loading", "listening"}
              /\ drawn[t] \in [FeedRecords -> Versions \cup {Nothing}] /\ doubt[t] \subseteq FeedRecords
              /\ \A rd \in reads[t] : rd.scope \subseteq FeedRecords /\ rd.from \in [FeedRecords -> Versions]
    BY DEF FeedInv, FeedTypes, TabReads
  <2> QED BY <2>1, <2>2, <2>3 DEF FeedInv, FeedTypes, FeedTypeOK, Versions
<1>2. \A t \in Tabs : stream[t] # "off" => lock = t /\ phase[t] = "listening"
  BY DEF FeedInv, LeaderInv
<1>3. FeedNeverAbandoned
  BY FeedAssumption DEF FeedInv, FeedTypes, LeaderInv, FeedNeverAbandoned
<1>4. QuietTablesCurrent
  <2> SUFFICES ASSUME Quiet, NEW t \in Tabs, phase[t] = "listening",
                      NEW r \in Followed(page[t]), r \notin doubt[t], r \notin missed
               PROVE  drawn[t][r] = ver[r]
    BY DEF QuietTablesCurrent
  <2>1. ~Announced(r)
    BY DEF Quiet, Announced
  <2>2. ~CatchUp
    BY DEF Quiet, CatchUp
  <2>3. Fresh(t, r)
    BY <2>1, <2>2 DEF FeedInv, CurrentInv, Pending
  <2> QED BY <2>3 DEF Quiet, Fresh
<1> QED BY <1>1, <1>2, <1>3, <1>4 DEF OneStream

LEMMA FeedInitInv == FeedInit => FeedInv
<1> SUFFICES ASSUME FeedInit PROVE FeedInv
  OBVIOUS
<1> USE FeedAssumption
<1>1. FeedTypes
  <2>1. [r \in FeedRecords |-> 0] \in [FeedRecords -> Versions]
    BY DEF Versions
  <2>2. \A t \in Tabs : wire[t] = <<>>
    BY DEF FeedInit
  <2>3. wire \in [Tabs -> Seq(Events)]
    BY <2>2 DEF FeedInit
  <2>4. NoRows \in [FeedRecords -> Versions \cup {Nothing}]
    BY DEF NoRows
  <2>5. drawn \in [Tabs -> [FeedRecords -> Versions \cup {Nothing}]]
    BY <2>4 DEF FeedInit
  <2>6. 0 \in Versions
    BY DEF Versions
  <2>7. DOMAIN used = {"saves", "opens", "faults"} /\ used.saves \in Versions
    BY <2>6 DEF FeedInit
  <2>8. /\ reads \in [Tabs -> SUBSET TabReads] /\ doubt \in [Tabs -> SUBSET FeedRecords]
        /\ page \in [Tabs -> AnyPage \cup {Nothing}] /\ phase \in [Tabs -> {"closed", "loading", "listening"}]
        /\ loop \in [Tabs -> {"none", "queued", "holding", "resting"}]
        /\ stream \in [Tabs -> {"off", "connecting", "open"}]
        /\ \A t \in Tabs : page[t] = Nothing /\ phase[t] = "closed"
    BY DEF FeedInit
  <2> QED BY <2>1, <2>3, <2>5, <2>6, <2>7, <2>8 DEF FeedInit, FeedTypes
<1>2. CountInv
  BY DEF FeedInit, CountInv
<1>3. LeaderInv
  BY DEF FeedInit, LeaderInv
<1>4. ReadsInv /\ CurrentInv
  BY DEF FeedInit, ReadsInv, CurrentInv
<1> QED BY <1>1, <1>2, <1>3, <1>4 DEF FeedInv

LEMMA TableRereads ==
  ASSUME NEW m
  PROVE  /\ Rereads(Table("incident"), m) = IncidentsTableRereads(m)
         /\ Rereads(Table("report"), m) = ReportsTableRereads(m)
         /\ Rereads(Table("visit"), m) = VisitsTableRereads(m)
<1>1. ASSUME NEW k \in Kinds PROVE Table(k).on = k /\ Table(k).on \notin Incidents \cup Reports
  BY FeedAssumption DEF Table, FeedRecords
<1>2. /\ Table("incident") # Table("report") /\ Table("incident") # Table("visit")
      /\ Table("report") # Table("visit")
  BY DEF Table
<1>3. {"incident", "report", "visit"} = Kinds
  BY DEF Kinds
<1> QED BY <1>1, <1>2, <1>3 DEF Rereads

(* A page that follows a record reads it again when its update, or a       *)
(* reload of its kind, is broadcast.                                       *)
LEMMA FollowersReread ==
  ASSUME NEW pg \in AnyPage, NEW r \in Followed(pg), NEW m, m.kind = KindOf(r), r \in About(m)
  PROVE  r \in Rereads(pg, m)
<1> USE FeedAssumption
<1>1. CASE pg.type = "table"
  <2>1. pg = Table(pg.on) /\ pg.on \in Kinds /\ r \in Of(pg.on)
    BY <1>1 DEF AnyPage, Followed, Shows, Table
  <2>2. pg.on = KindOf(r)
    BY <2>1 DEF Of, KindOf, Kinds, FeedRecords
  <2>3. CASE pg.on = "incident"
    <3>1. pg = Table("incident")
      BY <2>1, <2>3
    <3>2. Rereads(pg, m) = IncidentsTableRereads(m)
      BY <3>1, TableRereads
    <3> QED BY <3>2, <2>2, <2>3 DEF IncidentsTableRereads
  <2>4. CASE pg.on = "report"
    <3>1. pg = Table("report")
      BY <2>1, <2>4
    <3>2. Rereads(pg, m) = ReportsTableRereads(m)
      BY <3>1, TableRereads
    <3> QED BY <3>2, <2>1, <2>2, <2>4 DEF ReportsTableRereads, Of
  <2>5. CASE pg.on = "visit"
    <3>1. pg = Table("visit")
      BY <2>1, <2>5
    <3>2. Rereads(pg, m) = VisitsTableRereads(m)
      BY <3>1, TableRereads
    <3>3. m.kind = "visit" /\ r \in Visits
      BY <2>1, <2>2, <2>5 DEF Of
    <3> QED BY <3>2, <3>3 DEF VisitsTableRereads
  <2> QED BY <2>1, <2>3, <2>4, <2>5 DEF Kinds
<1>2. CASE pg.type = "record"
  <2>1. pg = Record(pg.on) /\ pg.on \in FeedRecords \ Reports /\ r \in Shows(pg)
    BY <1>2 DEF AnyPage, Followed, Record
  <2>2. \A k : pg # Table(k)
    BY <1>2 DEF Table
  <2>3. CASE pg.on \in Incidents
    <3>1. Rereads(pg, m) = IncidentPageRereads(pg.on, m)
      BY <2>2, <2>3 DEF Rereads
    <3>2. r = pg.on \/ r \in Reports
      BY <2>1, <2>3, <1>2 DEF Shows
    <3>3. CASE r \in Reports
      BY <3>1, <3>3 DEF KindOf, IncidentPageRereads
    <3>4. CASE r = pg.on
      BY <3>1, <3>4, <2>1, <2>3 DEF KindOf, IncidentPageRereads, Shows, Record
    <3> QED BY <3>2, <3>3, <3>4
  <2>4. CASE pg.on \in Visits
    <3>1. r = pg.on
      BY <2>1, <2>4, <1>2 DEF Shows
    <3> QED BY <3>1, <2>2, <2>4 DEF Rereads, VisitPageRereads, KindOf
  <2> QED BY <2>1, <2>3, <2>4 DEF FeedRecords
<1> QED BY <1>1, <1>2 DEF AnyPage

LEMMA RereadsKnown ==
  ASSUME NEW pg \in AnyPage, NEW m, m.kind \in Kinds, About(m) \subseteq FeedRecords
  PROVE  Rereads(pg, m) \subseteq FeedRecords
<1> USE FeedAssumption
<1>1. IncidentsTableRereads(m) \subseteq FeedRecords /\ ReportsTableRereads(m) \subseteq FeedRecords
       /\ VisitsTableRereads(m) \subseteq FeedRecords
  BY DEF IncidentsTableRereads, ReportsTableRereads, VisitsTableRereads, FeedRecords
<1>2. ASSUME NEW r \in FeedRecords
      PROVE  /\ IncidentPageRereads(r, m) \subseteq FeedRecords
             /\ ReportPageRereads(r, m) \subseteq FeedRecords /\ VisitPageRereads(r, m) \subseteq FeedRecords
  BY DEF IncidentPageRereads, ReportPageRereads, VisitPageRereads, Shows, Record,
         FeedRecords
<1>3. CASE pg.type = "table"
  <2>1. pg = Table(pg.on) /\ pg.on \in {"incident", "report", "visit"}
    BY <1>3 DEF AnyPage, Table, Kinds
  <2>2. CASE pg.on = "incident"
    BY TableRereads, <2>1, <2>2, <1>1
  <2>3. CASE pg.on = "report"
    BY TableRereads, <2>1, <2>3, <1>1
  <2>4. CASE pg.on = "visit"
    BY TableRereads, <2>1, <2>4, <1>1
  <2> QED BY <2>1, <2>2, <2>3, <2>4
<1>4. CASE pg.type = "record"
  <2>1. pg.on \in FeedRecords /\ \A k : pg # Table(k)
    BY <1>4 DEF AnyPage, Table
  <2> QED BY <1>2, <2>1 DEF Rereads
<1> QED BY <1>3, <1>4 DEF AnyPage

(* What is not Fresh after a broadcast is in doubt, or was not heard.      *)
LEMMA AfterPost ==
  ASSUME FeedTypes, ReadsInv, NEW ms, Post(ms), UNCHANGED <<ver, page, phase, drawn>>,
         \A m \in ms : m.kind \in Kinds /\ About(m) \subseteq FeedRecords
  PROVE  /\ reads' \in [Tabs -> SUBSET TabReads] /\ doubt' \in [Tabs -> SUBSET FeedRecords] /\ ReadsInv'
         /\ \A t \in Tabs : phase[t] # "closed" => \A r \in FeedRecords :
               /\ r \in Hears(t, ms) => r \in doubt'[t] \/ Fresh(t, r)'
               /\ r \notin Hears(t, ms) => (r \in doubt[t] => r \in doubt'[t]) /\ (Fresh(t, r) => Fresh(t, r)')
<1> DEFINE new(t) == [scope |-> Hears(t, ms), from |-> ver]
<1>1. ASSUME NEW t \in Tabs, phase[t] # "closed" PROVE Hears(t, ms) \subseteq FeedRecords
  <2>1. page[t] \in AnyPage
    BY <1>1 DEF FeedTypes
  <2>2. \A m \in ms : Rereads(page[t], m) \subseteq FeedRecords
    BY <2>1, RereadsKnown
  <2> QED BY <2>2 DEF Hears
<1>2. ASSUME NEW t \in Tabs
      PROVE  reads'[t] = IF phase[t] = "listening" /\ Hears(t, ms) # {} THEN reads[t] \cup {new(t)} ELSE reads[t]
  BY DEF Post
<1>3. ASSUME NEW t \in Tabs
      PROVE  doubt'[t] = CASE phase[t] = "listening" ->
                                 (doubt[t] \ Hears(t, ms)) \cup (BeingRead(t) \cap Hears(t, ms))
                           [] phase[t] = "loading" -> doubt[t] \cup Hears(t, ms)
                           [] OTHER -> doubt[t]
  BY DEF Post
<1>10. ASSUME NEW t \in Tabs, phase[t] = "listening" PROVE new(t) \in TabReads
  BY <1>1, <1>10 DEF FeedTypes, TabReads
<1>11. \A t \in Tabs : new(t).scope = Hears(t, ms) /\ new(t).from = ver
  OBVIOUS
<1>12. \A t \in Tabs : \A rd \in reads[t] : rd.scope \subseteq BeingRead(t)
  BY DEF BeingRead
<1>13. \A t \in Tabs : reads'[t] \subseteq reads[t] \cup {new(t)}
  BY <1>2
<1> HIDE DEF new
<1>4. reads' \in [Tabs -> SUBSET TabReads]
  <2>2. ASSUME NEW t \in Tabs PROVE reads'[t] \in SUBSET TabReads
    <3>1. reads[t] \in SUBSET TabReads
      BY DEF FeedTypes
    <3>2. CASE phase[t] = "listening" /\ Hears(t, ms) # {}
      <4>1. new(t) \in TabReads
        BY <3>2, <1>10
      <4>2. reads'[t] = reads[t] \cup {new(t)}
        BY <3>2, <1>2
      <4> QED BY <4>1, <4>2, <3>1
    <3>3. CASE ~(phase[t] = "listening" /\ Hears(t, ms) # {})
      BY <3>1, <3>3, <1>2
    <3> QED BY <3>2, <3>3
  <2> QED BY <2>2 DEF Post
<1>5. doubt' \in [Tabs -> SUBSET FeedRecords]
  <2>1. ASSUME NEW t \in Tabs PROVE doubt'[t] \in SUBSET FeedRecords
    <3>1. CASE phase[t] = "listening"
      BY <1>1, <1>3, <3>1 DEF FeedTypes
    <3>2. CASE phase[t] = "loading"
      BY <1>1, <1>3, <3>2 DEF FeedTypes
    <3>3. CASE phase[t] = "closed"
      BY <1>3, <3>3 DEF FeedTypes
    <3> QED BY <3>1, <3>2, <3>3 DEF FeedTypes
  <2> QED BY <2>1 DEF Post
<1>6. ReadsInv'
  <2> SUFFICES ASSUME NEW t \in Tabs, NEW r \in FeedRecords, r \notin doubt'[t],
                      NEW rd1 \in reads'[t], NEW rd2 \in reads'[t], r \in rd1.scope, r \in rd2.scope
               PROVE  rd1 = rd2
    <3>1. \A t \in Tabs : phase'[t] = "closed" => reads'[t] = {}
      BY <1>2 DEF ReadsInv
    <3> QED BY <3>1 DEF ReadsInv
  <2>1. CASE phase[t] = "listening"
    <3>1. CASE r \in Hears(t, ms)
      <4>1. \A rd \in reads[t] : r \notin rd.scope
        <5>1. r \in Hears(t, ms) /\ r \notin BeingRead(t)
          BY <3>1, <2>1, <1>3
        <5> QED BY <5>1, <1>12
      <4>2. \A rd \in reads'[t] : r \in rd.scope => rd = new(t)
        BY <4>1, <1>13
      <4> QED BY <4>2
    <3>2. CASE r \notin Hears(t, ms)
      <4>1. r \notin doubt[t]
        BY <3>2, <2>1, <1>3
      <4>2. rd1 \in reads[t] /\ rd2 \in reads[t]
        BY <3>2, <1>2, <1>11
      <4> QED BY <4>1, <4>2 DEF ReadsInv
    <3> QED BY <3>1, <3>2
  <2>2. CASE phase[t] = "loading"
    BY <2>2, <1>2, <1>3 DEF ReadsInv
  <2>3. CASE phase[t] = "closed"
    BY <2>3, <1>2, <1>3 DEF ReadsInv
  <2> QED BY <2>1, <2>2, <2>3 DEF FeedTypes
<1>7. ASSUME NEW t \in Tabs, phase[t] # "closed", NEW r \in FeedRecords
      PROVE  /\ r \in Hears(t, ms) => r \in doubt'[t] \/ Fresh(t, r)'
             /\ r \notin Hears(t, ms) => (r \in doubt[t] => r \in doubt'[t]) /\ (Fresh(t, r) => Fresh(t, r)')
  <2>1. CASE phase[t] = "listening"
    <3>1. CASE r \in Hears(t, ms)
      <4>1. new(t) \in reads'[t] /\ r \in new(t).scope /\ new(t).from[r] = ver[r]
        BY <3>1, <2>1, <1>2, <1>11
      <4> QED BY <4>1, <3>1 DEF Fresh
    <3>2. CASE r \notin Hears(t, ms)
      BY <3>2, <2>1, <1>2, <1>3, <1>11 DEF Fresh
    <3> QED BY <3>1, <3>2
  <2>2. CASE phase[t] = "loading"
    BY <2>2, <1>2, <1>3 DEF Fresh
  <2> QED BY <2>1, <2>2, <1>7 DEF FeedTypes
<1> QED BY <1>4, <1>5, <1>6, <1>7

LEMMA FollowsRecords == \A pg \in AnyPage : Followed(pg) \subseteq FeedRecords /\ Shows(pg) \subseteq FeedRecords
BY FeedAssumption DEF AnyPage, Followed, Shows, Of, FeedRecords, Kinds

(* Whoever leaves the pages alone has only to say what became of the       *)
(* updates that were pending.                                              *)
LEMMA OnlyPending ==
  ASSUME FeedInv, UNCHANGED <<ver, page, phase, drawn, reads, doubt>>, missed \subseteq missed',
         \A r \in FeedRecords : r \in missed' \/ (Pending(r) => Pending(r)')
  PROVE  ReadsInv' /\ CurrentInv'
<1>1. ReadsInv'
  BY DEF FeedInv, ReadsInv
<1>2. ASSUME NEW t \in Tabs, phase[t] # "closed", NEW r \in Followed(page[t])
      PROVE  r \in doubt[t] \/ r \in missed' \/ Fresh(t, r)' \/ Pending(r)'
  <2>1. r \in FeedRecords
    BY <1>2, FollowsRecords DEF FeedInv, FeedTypes
  <2>2. r \in doubt[t] \/ r \in missed \/ Fresh(t, r) \/ Pending(r)
    BY <1>2 DEF FeedInv, CurrentInv
  <2> QED BY <2>1, <2>2 DEF Fresh
<1> QED BY <1>1, <1>2 DEF CurrentInv

LEMMA OneTabCloses ==
  ASSUME FeedInv, NEW t \in Tabs, ver' = ver, missed \subseteq missed',
         phase'[t] = "closed" /\ reads'[t] = {},
         \A u \in Tabs \ {t} : /\ page'[u] = page[u] /\ phase'[u] = phase[u] /\ drawn'[u] = drawn[u]
                               /\ reads'[u] = reads[u] /\ doubt'[u] = doubt[u],
         \A r \in FeedRecords : r \in missed' \/ (Pending(r) => Pending(r)')
  PROVE  ReadsInv' /\ CurrentInv'
<1>1. ReadsInv'
  BY DEF FeedInv, ReadsInv
<1>2. ASSUME NEW u \in Tabs, phase'[u] # "closed", NEW r \in Followed(page'[u])
      PROVE  r \in doubt'[u] \/ r \in missed' \/ Fresh(u, r)' \/ Pending(r)'
  <2>1. u # t /\ page'[u] = page[u] /\ phase[u] # "closed" /\ r \in Followed(page[u])
    BY <1>2
  <2>2. r \in FeedRecords
    BY <2>1, FollowsRecords DEF FeedInv, FeedTypes
  <2>3. r \in doubt[u] \/ r \in missed \/ Fresh(u, r) \/ Pending(r)
    BY <2>1 DEF FeedInv, CurrentInv
  <2> QED BY <2>1, <2>2, <2>3 DEF Fresh
<1> QED BY <1>1, <1>2 DEF CurrentInv

(* An event that is lost with its stream is marked, or will be noticed.    *)
LEMMA LostNoticed ==
  ASSUME FeedInv, NEW t \in Tabs, NEW i \in DOMAIN wire[t], wire[t][i].kind \in Kinds
  PROVE  \/ wire[t][i].about \in PassedOver(LostOn(t))
         \/ wire[t][i].about \notin Visits /\ (last = Nothing \/ last < counter)
<1> DEFINE e == wire[t][i]
           q == [id |-> e.id, rec |-> e.about]
<1>1. e \in Events /\ e.id <= counter /\ e.id \in Versions /\ counter \in Versions
  <2>1. wire[t] \in Seq(Events)
    BY DEF FeedInv, FeedTypes
  <2>2. e \in Events
    BY <2>1
  <2> QED BY <2>2 DEF FeedInv, FeedTypes, CountInv, Events, Announcements
<1>2. e \in Range(wire[t])
  BY DEF Range
<1>3. q \in LostOn(t)
  BY <1>2 DEF LostOn
<1>4. CASE e.about \in Visits \/ (last # Nothing /\ e.id <= last)
  <2>1. q.rec = e.about /\ q.id = e.id
    OBVIOUS
  <2> HIDE DEF q
  <2>2. q \in {x \in LostOn(t) : x.rec \in Visits \/ (last # Nothing /\ x.id <= last)}
    BY <1>3, <1>4, <2>1
  <2> QED BY <2>1, <2>2 DEF PassedOver
<1>5. CASE e.about \notin Visits /\ ~(last # Nothing /\ e.id <= last)
  BY <1>1, <1>5 DEF FeedInv, FeedTypes, Versions
<1> QED BY <1>4, <1>5

LEMMA PassedOverKnown ==
  ASSUME FeedInv
  PROVE  /\ PassedOver(pokes) \subseteq FeedRecords /\ \A t \in Tabs : PassedOver(LostOn(t)) \subseteq FeedRecords
         /\ PassedOver(pokes \cup UNION {LostOn(t) : t \in Tabs}) \subseteq FeedRecords
         /\ \A p \in pokes : PassedOver({p}) \subseteq FeedRecords
<1>1. ASSUME NEW t \in Tabs, NEW q \in LostOn(t) PROVE q.rec \in FeedRecords
  <2>1. wire[t] \in Seq(Events)
    BY DEF FeedInv, FeedTypes
  <2>2. \A e \in Range(wire[t]) : e \in Events
    BY <2>1 DEF Range
  <2>3. PICK e \in Range(wire[t]) : e.kind \in Kinds /\ q = [id |-> e.id, rec |-> e.about]
    BY DEF LostOn
  <2>4. e \in Announcements
    BY <2>2, <2>3 DEF Events, Kinds
  <2> QED BY <2>3, <2>4 DEF Announcements
<1>2. \A p \in pokes : p.rec \in FeedRecords
  BY DEF FeedInv, FeedTypes
<1> QED BY <1>1, <1>2 DEF PassedOver

(* A stream goes down, or a tab without one closes.                        *)
LEMMA StreamLost ==
  ASSUME FeedInv, NEW t \in Tabs, NEW x \in {"off", "connecting"},
         stream' = [stream EXCEPT ![t] = x], wire' = [wire EXCEPT ![t] = <<>>],
         missed' = missed \cup PassedOver(LostOn(t)), UNCHANGED <<pokes, counter, last, aged>>
  PROVE  \A r \in FeedRecords : r \in missed' \/ (Pending(r) => Pending(r)')
<1> SUFFICES ASSUME NEW r \in FeedRecords, r \notin missed', Pending(r) PROVE Pending(r)'
  OBVIOUS
<1>1. /\ \A u \in Tabs \ {t} : stream'[u] = stream[u] /\ wire'[u] = wire[u]
      /\ stream'[t] = x /\ wire'[t] = <<>>
      /\ \A id : Differs(id)' <=> Differs(id)
  BY DEF FeedInv, FeedTypes, Differs
<1>2. CASE lock = t
  <2>1. \A u \in Tabs : stream'[u] # "open"
    BY <1>1, <1>2 DEF FeedInv, LeaderInv
  <2>2. \A u \in Tabs \ {t} : wire[u] = <<>>
    BY <1>2 DEF FeedInv, LeaderInv
  <2>3. CASE \E p \in pokes : p.rec = r
    BY <2>3 DEF Pending, Announced
  <2>4. CASE \E u \in Tabs : \E i \in DOMAIN wire[u] : wire[u][i].kind \in Kinds /\ wire[u][i].about = r
    <3>1. PICK i \in DOMAIN wire[t] : wire[t][i].kind \in Kinds /\ wire[t][i].about = r
      BY <2>2, <2>4
    <3>2. r \notin Visits /\ Differs(counter)
      BY <3>1, LostNoticed DEF Differs
    <3> QED BY <3>2, <2>1, <1>1 DEF Pending, CatchUp
  <2>5. CASE r \notin Visits /\ CatchUp
    <3>1. Differs(counter)
      <4>1. CASE \E u \in Tabs : wire[u] # <<>> /\ wire[u][1].kind = "initial" /\ Differs(wire[u][1].id)
        <5>1. wire[t] # <<>> /\ Differs(wire[t][1].id)
          BY <4>1, <2>2
        <5>2. wire[t] \in Seq(Events) /\ 1 \in DOMAIN wire[t]
          BY <5>1 DEF FeedInv, FeedTypes
        <5>3. wire[t][1] \in Events /\ wire[t][1].id <= counter
          BY <5>2 DEF FeedInv, CountInv
        <5>4. wire[t][1].id \in Versions /\ counter \in Versions /\ last \in Versions \cup {Nothing}
          BY <5>3 DEF FeedInv, FeedTypes, Events, Announcements
        <5> QED BY <5>1, <5>3, <5>4 DEF Differs, Versions
      <4> QED BY <4>1, <2>5 DEF CatchUp
    <3> QED BY <3>1, <2>1, <2>5, <1>1 DEF Pending, CatchUp
  <2> QED BY <2>3, <2>4, <2>5 DEF Pending, Announced
<1>3. CASE lock # t
  <2>1. wire[t] = <<>> /\ stream[t] = "off" /\ wire' = wire
    BY <1>3 DEF FeedInv, LeaderInv, FeedTypes
  <2>2. \A u \in Tabs : stream'[u] = "open" <=> stream[u] = "open"
    BY <2>1, <1>1
  <2> QED BY <2>1, <2>2, <1>1 DEF Pending, Announced, CatchUp
<1> QED BY <1>2, <1>3

(* Ids and versions, the pages and the history when only a stream changes. *)
LEMMA SavesInv ==
  ASSUME FeedInv, NEW r \in FeedRecords, ServerSaves(r)
  PROVE  FeedInv'
<1> USE FeedAssumption
<1>1. counter + 1 \in Versions /\ used.saves + 1 \in Versions /\ ver[r] + 1 \in Versions
      /\ counter <= counter + 1 /\ used.saves <= used.saves + 1
  BY DEF FeedInv, FeedTypes, CountInv, ServerSaves, Versions
<1>2. FeedTypes'
  <2>1. ver' \in [FeedRecords -> Versions] /\ counter' \in Versions
    BY <1>1 DEF ServerSaves, FeedInv, FeedTypes
  <2>2. DOMAIN used' = {"saves", "opens", "faults"} /\ used'.saves \in Versions
    BY <1>1 DEF ServerSaves, FeedInv, FeedTypes
  <2>3. pokes' \subseteq [id : Versions, rec : FeedRecords]
    BY <1>1 DEF ServerSaves, FeedInv, FeedTypes
  <2> QED BY <2>1, <2>2, <2>3
          DEF ServerSaves, FeedInv, FeedTypes, browser, tabs, history
<1>3. CountInv'
  <2>1. used'.saves = used.saves + 1 /\ counter' = counter + 1
    BY DEF ServerSaves, FeedInv, FeedTypes
  <2>2. \A s \in FeedRecords : ver'[s] <= used'.saves
    BY <2>1, <1>1 DEF ServerSaves, FeedInv, FeedTypes, CountInv, Versions
  <2>3. \A p \in pokes' : p.id <= counter'
    BY <2>1, <1>1 DEF ServerSaves, FeedInv, FeedTypes, CountInv, Versions
  <2>4. ASSUME NEW t \in Tabs, NEW i \in DOMAIN wire[t] PROVE wire[t][i].id <= counter'
    <3>1. wire[t] \in Seq(Events)
      BY DEF FeedInv, FeedTypes
    <3>2. wire[t][i].id \in Versions
      BY <3>1 DEF Events, Announcements
    <3> QED BY <3>2, <2>1, <1>1 DEF FeedInv, FeedTypes, CountInv, Versions
  <2> QED BY <2>1, <2>2, <2>3, <2>4
          DEF CountInv, FeedInv, FeedTypes, Versions, ServerSaves, browser
<1>4. LeaderInv'
  BY DEF FeedInv, LeaderInv, ServerSaves, browser, tabs
<1>5. ReadsInv'
  BY DEF FeedInv, ReadsInv, ServerSaves, tabs, history
<1>6. CurrentInv'
  <2> SUFFICES ASSUME NEW t \in Tabs, phase[t] # "closed", NEW s \in Followed(page[t])
               PROVE  s \in doubt[t] \/ s \in missed \/ Fresh(t, s)' \/ Pending(s)'
    BY DEF CurrentInv, ServerSaves, tabs, history
  <2>1. s \in doubt[t] \/ s \in missed \/ Fresh(t, s) \/ Pending(s)
    BY DEF FeedInv, CurrentInv
  <2>2. s \in FeedRecords
    BY FollowsRecords DEF FeedInv, FeedTypes
  <2>3. CASE s = r
    <3>1. [id |-> counter + 1, rec |-> r] \in pokes'
      BY DEF ServerSaves
    <3>2. Announced(s)'
      BY <2>3, <3>1 DEF Announced
    <3> QED BY <3>2 DEF Pending
  <2>4. CASE s # r
    <3>1. ver'[s] = ver[s]
      BY <2>2, <2>4 DEF ServerSaves, FeedInv, FeedTypes
    <3>2. Fresh(t, s) => Fresh(t, s)'
      BY <3>1 DEF Fresh, ServerSaves, tabs
    <3>3. Announced(s) => Announced(s)'
      BY DEF Announced, ServerSaves, browser
    <3>4. ASSUME CatchUp PROVE CatchUp'
      <4>1. Differs(counter) => Differs(counter)'
        BY <1>1
        DEF Differs, ServerSaves, browser, history, FeedInv, FeedTypes, Versions
      <4>2. UNCHANGED <<aged, last, wire, stream>>
        BY DEF ServerSaves, browser, history
      <4>3. CASE \A u \in Tabs : stream[u] # "open"
        BY <4>3, <4>1, <4>2, <3>4 DEF CatchUp, Differs
      <4>4. CASE \E u \in Tabs : wire[u] # <<>> /\ wire[u][1].kind = "initial" /\ Differs(wire[u][1].id)
        BY <4>4, <4>2 DEF CatchUp, Differs
      <4> QED BY <3>4, <4>3, <4>4 DEF CatchUp
    <3> QED BY <2>1, <3>2, <3>3, <3>4 DEF Pending
  <2> QED BY <2>3, <2>4
<1> QED BY <1>2, <1>3, <1>4, <1>5, <1>6 DEF FeedInv

LEMMA PublishInv ==
  ASSUME FeedInv, NEW p \in pokes, Publish(p)
  PROVE  FeedInv'
<1> USE FeedAssumption
<1>1. PICK redacted \in IF p.rec \in Incidents THEN BOOLEAN ELSE {FALSE} :
        LET m == [id |-> p.id, kind |-> KindOf(p.rec), about |-> p.rec,
                  rec |-> IF redacted THEN Nothing ELSE p.rec]
        IN  wire' = [t \in Tabs |-> IF stream[t] = "open" THEN Append(wire[t], m) ELSE wire[t]]
  BY DEF Publish
<1> DEFINE m == [id |-> p.id, kind |-> KindOf(p.rec), about |-> p.rec,
                 rec |-> IF redacted THEN Nothing ELSE p.rec]
<1>2. /\ pokes' = pokes \ {p}
      /\ missed' = IF \E t \in Tabs : stream[t] = "open" THEN missed ELSE missed \cup PassedOver({p})
      /\ UNCHANGED <<ver, counter, last, lock, loop, stream, tabs, used, aged, doubt>>
  BY DEF Publish
<1>3. /\ wire' \in [Tabs -> Seq(Events)] /\ m \in Announcements
      /\ \A t \in Tabs : wire'[t] = IF stream[t] = "open" THEN Append(wire[t], m) ELSE wire[t]
  <2>1. p \in [id : Versions, rec : FeedRecords]
    BY DEF FeedInv, FeedTypes
  <2>2. KindOf(p.rec) \in Kinds
    BY DEF KindOf, Kinds
  <2>3. m \in Announcements
    BY <2>1, <2>2 DEF Announcements
  <2>4. m \in Events
    BY <2>3 DEF Events
  <2> HIDE DEF m
  <2>5. wire' = [t \in Tabs |-> IF stream[t] = "open" THEN Append(wire[t], m) ELSE wire[t]]
    BY <1>1 DEF m
  <2>6. \A t \in Tabs : wire[t] \in Seq(Events)
    BY DEF FeedInv, FeedTypes
  <2> QED BY <2>3, <2>4, <2>5, <2>6
<1>4. m.id = p.id /\ m.kind \in Kinds /\ m.about = p.rec /\ p.id <= counter
  BY <1>3 DEF Announcements, FeedInv, CountInv
<1> HIDE DEF m
<1>5. ASSUME NEW t \in Tabs
      PROVE  /\ \A i \in DOMAIN wire[t] : i \in DOMAIN wire'[t] /\ wire'[t][i] = wire[t][i]
             /\ \A i \in DOMAIN wire'[t] :
                   (i \in DOMAIN wire[t] /\ wire'[t][i] = wire[t][i]) \/ wire'[t][i] = m
             /\ stream[t] = "open" => Len(wire'[t]) \in DOMAIN wire'[t] /\ wire'[t][Len(wire'[t])] = m
  <2>1. wire[t] \in Seq(Events) /\ m \in Events
    BY <1>3 DEF FeedInv, FeedTypes, Events
  <2>2. CASE stream[t] = "open"
    <3>1. wire'[t] = Append(wire[t], m)
      BY <2>2, <1>3
    <3>2. /\ DOMAIN wire[t] = 1 .. Len(wire[t]) /\ DOMAIN wire'[t] = 1 .. Len(wire[t]) + 1
          /\ Len(wire[t]) \in Nat /\ Len(wire'[t]) = Len(wire[t]) + 1
          /\ \A i \in 1 .. Len(wire[t]) : wire'[t][i] = wire[t][i]
          /\ wire'[t][Len(wire[t]) + 1] = m
      BY <2>1, <3>1
    <3> QED BY <3>2, SMTT(15)
  <2>3. CASE stream[t] # "open"
    BY <2>3, <1>3
  <2> QED BY <2>2, <2>3
<1>6. missed \subseteq missed' /\ missed' \in SUBSET FeedRecords
  BY <1>2, PassedOverKnown DEF FeedInv, FeedTypes
<1>7. FeedTypes'
  BY <1>2, <1>3, <1>6 DEF FeedInv, FeedTypes, tabs
<1>8. CountInv'
  <2>1. \A t \in Tabs : \A i \in DOMAIN wire'[t] : wire'[t][i].id <= counter
    BY <1>4, <1>5 DEF FeedInv, CountInv
  <2> QED BY <2>1, <1>2 DEF FeedInv, CountInv
<1>9. LeaderInv'
  BY <1>2, <1>3 DEF FeedInv, LeaderInv, tabs
<1>10. ASSUME NEW r \in FeedRecords, r \notin missed', Pending(r) PROVE Pending(r)'
  <2>2. CatchUp => CatchUp'
    <3>1. ASSUME NEW t \in Tabs, wire[t] # <<>>, wire[t][1].kind = "initial", Differs(wire[t][1].id)
          PROVE  wire'[t] # <<>> /\ wire'[t][1].kind = "initial" /\ Differs(wire[t][1].id)'
      <4>1. wire[t] \in Seq(Events)
        BY DEF FeedInv, FeedTypes
      <4>2. 1 \in DOMAIN wire[t]
        BY <4>1, <3>1
      <4>3. 1 \in DOMAIN wire'[t] /\ wire'[t][1] = wire[t][1]
        BY <4>2, <1>5
      <4>4. wire'[t] # <<>>
        BY <4>3
      <4> QED BY <4>3, <4>4, <3>1, <1>2 DEF Differs
    <3> QED BY <3>1, <1>2 DEF CatchUp, Differs
  <2>3. CASE \E q \in pokes : q.rec = r /\ q # p
    BY <2>3, <1>2 DEF Pending, Announced
  <2>4. CASE \E t \in Tabs : \E i \in DOMAIN wire[t] : wire[t][i].kind \in Kinds /\ wire[t][i].about = r
    <3>1. Announced(r)'
      BY <2>4, <1>5 DEF Announced
    <3> QED BY <3>1 DEF Pending
  <2>5. CASE p.rec = r
    <3>1. CASE \E t \in Tabs : stream[t] = "open"
      <4>1. Announced(r)'
        BY <3>1, <2>5, <1>4, <1>5 DEF Announced
      <4> QED BY <4>1 DEF Pending
    <3>2. CASE \A t \in Tabs : stream[t] # "open"
      <4>1. r \notin PassedOver({p})
        BY <3>2, <1>2, <1>10
      <4>2. r \notin Visits /\ ~(last # Nothing /\ p.id <= last)
        BY <4>1, <2>5 DEF PassedOver
      <4>3. Differs(counter)
        BY <4>2, <1>4 DEF Differs, FeedInv, FeedTypes, Versions
      <4> QED BY <4>2, <4>3, <3>2, <1>2 DEF Pending, CatchUp, Differs
    <3> QED BY <3>1, <3>2
  <2> QED BY <2>2, <2>3, <2>4, <2>5, <1>10 DEF Pending, Announced
<1>11. ReadsInv' /\ CurrentInv'
  BY <1>2, <1>6, <1>10, OnlyPending DEF tabs
<1> QED BY <1>7, <1>8, <1>9, <1>11 DEF FeedInv

LEMMA RestartInv ==
  ASSUME FeedInv, ServerRestarts
  PROVE  FeedInv'
<1> USE FeedAssumption
<1>1. /\ counter' = 0 /\ pokes' = {} /\ aged' = (last # Nothing)
      /\ \A t \in Tabs : stream'[t] # "open" /\ wire'[t] = <<>> /\ (stream'[t] = "off" <=> stream[t] = "off")
      /\ stream' \in [Tabs -> {"off", "connecting", "open"}]
      /\ missed' = missed \cup PassedOver(pokes \cup UNION {LostOn(t) : t \in Tabs})
      /\ used'.saves = used.saves /\ DOMAIN used' = DOMAIN used
      /\ UNCHANGED <<ver, last, lock, loop, tabs, doubt>>
  BY DEF ServerRestarts, FeedInv, FeedTypes
<1>2. wire' \in [Tabs -> Seq(Events)]
  BY DEF ServerRestarts
<1>3. missed' \in SUBSET FeedRecords
  BY <1>1, PassedOverKnown DEF FeedInv, FeedTypes
<1>4. FeedTypes'
  <2>1. aged' \in BOOLEAN /\ counter' \in Versions
    BY <1>1 DEF Versions
  <2> QED BY <2>1, <1>1, <1>2, <1>3 DEF FeedInv, FeedTypes, tabs
<1>5. CountInv' /\ LeaderInv'
  BY <1>1 DEF FeedInv, FeedTypes, CountInv, LeaderInv, tabs, Versions
<1>6. ASSUME NEW r \in FeedRecords, r \notin missed', Pending(r) PROVE Pending(r)'
  <2>1. ASSUME NEW q \in pokes \cup UNION {LostOn(t) : t \in Tabs}, q.rec \in Visits
        PROVE  q.rec \in missed'
    BY <2>1, <1>1 DEF PassedOver
  <2>2. r \notin Visits
    <3> SUFFICES ASSUME r \in Visits PROVE FALSE
      OBVIOUS
    <3>1. CASE \E p \in pokes : p.rec = r
      BY <3>1, <2>1, <1>6
    <3>2. CASE \E t \in Tabs : \E i \in DOMAIN wire[t] : wire[t][i].kind \in Kinds /\ wire[t][i].about = r
      <4>1. PICK t \in Tabs : \E i \in DOMAIN wire[t] : wire[t][i].kind \in Kinds /\ wire[t][i].about = r
        BY <3>2
      <4>2. PICK e \in Range(wire[t]) : e.kind \in Kinds /\ e.about = r
        BY <4>1 DEF Range
      <4> DEFINE q == [id |-> e.id, rec |-> e.about]
      <4>3. q \in LostOn(t) /\ q.rec = r
        BY <4>2 DEF LostOn
      <4> HIDE DEF q
      <4> QED BY <4>3, <2>1, <1>6
    <3> QED BY <3>1, <3>2, <1>6 DEF Pending, Announced
  <2>3. CatchUp'
    BY <1>1 DEF CatchUp, Differs
  <2> QED BY <2>2, <2>3 DEF Pending
<1>7. ReadsInv' /\ CurrentInv'
  BY <1>1, <1>6, OnlyPending DEF tabs
<1> QED BY <1>4, <1>5, <1>7 DEF FeedInv

(* The lock is taken, asked for again, or the stream comes up.             *)
LEMMA AcquireInv ==
  ASSUME FeedInv, NEW t \in Tabs, Acquire(t) \/ Reattempt(t)
  PROVE  FeedInv'
<1> USE FeedAssumption
<1>1. /\ UNCHANGED <<server, last, wire, tabs, used, history>>
      /\ \A u \in Tabs \ {t} : loop'[u] = loop[u] /\ stream'[u] = stream[u]
      /\ lock' \in Tabs \cup {Nothing} /\ stream[t] # "open" /\ stream'[t] # "open"
      /\ loop' \in [Tabs -> {"none", "queued", "holding", "resting"}]
      /\ stream' \in [Tabs -> {"off", "connecting", "open"}]
  BY ZenonT(30) DEF Acquire, Reattempt, FeedInv, FeedTypes, LeaderInv
<1>2. FeedTypes' /\ CountInv'
  BY <1>1 DEF FeedInv, FeedTypes, CountInv, server, tabs, history
<1>3. LeaderInv'
  BY DEF FeedInv, FeedTypes, LeaderInv, Acquire, Reattempt, tabs
<1>4. \A u \in Tabs : stream'[u] = "open" <=> stream[u] = "open"
  BY <1>1
<1>5. \A r \in FeedRecords : Pending(r) => Pending(r)'
  BY <1>1, <1>4 DEF Pending, Announced, CatchUp, Differs, server, history
<1>6. ReadsInv' /\ CurrentInv'
  BY <1>1, <1>5, OnlyPending DEF server, tabs, history
<1> QED BY <1>2, <1>3, <1>6 DEF FeedInv

LEMMA ConnectInv ==
  ASSUME FeedInv, NEW t \in Tabs, Connect(t)
  PROVE  FeedInv'
<1> USE FeedAssumption
<1> DEFINE e == [id |-> counter, kind |-> "initial"]
<1>1. e \in Events /\ e.id = counter /\ e.kind = "initial" /\ "initial" \notin Kinds
  BY DEF Events, FeedInv, FeedTypes, Kinds
<1>2. wire' = [wire EXCEPT ![t] = <<e>>]
  BY DEF Connect
<1> HIDE DEF e
<1>3. /\ wire[t] = <<>> /\ stream[t] = "connecting" /\ lock = t
      /\ wire'[t] = <<e>> /\ \A u \in Tabs \ {t} : wire'[u] = wire[u] /\ stream'[u] = stream[u] /\ stream[u] = "off"
      /\ stream'[t] = "open" /\ stream' \in [Tabs -> {"off", "connecting", "open"}]
      /\ wire' \in [Tabs -> Seq(Events)]
      /\ UNCHANGED <<server, last, lock, loop, tabs, used, history>>
  BY <1>1, <1>2 DEF Connect, FeedInv, FeedTypes, LeaderInv
<1>4. FeedTypes'
  BY <1>3 DEF FeedInv, FeedTypes, server, tabs, history
<1>5. CountInv'
  <2>1. DOMAIN <<e>> = {1} /\ <<e>>[1] = e
    OBVIOUS
  <2>2. ASSUME NEW u \in Tabs, NEW i \in DOMAIN wire'[u] PROVE wire'[u][i].id <= counter
    <3>1. CASE u = t
      BY <3>1, <2>1, <1>1, <1>3 DEF FeedInv, FeedTypes, Versions
    <3>2. CASE u # t
      BY <3>2, <1>3 DEF FeedInv, CountInv
    <3> QED BY <3>1, <3>2
  <2> QED BY <2>2, <1>3 DEF FeedInv, CountInv, server
<1>6. LeaderInv'
  BY <1>3 DEF FeedInv, LeaderInv, tabs
<1>7. ASSUME NEW r \in FeedRecords, Pending(r) PROVE Pending(r)'
  <2>1. Announced(r) => Announced(r)'
    <3>1. ASSUME NEW u \in Tabs, NEW i \in DOMAIN wire[u] PROVE wire'[u] = wire[u]
      BY <1>3
    <3> QED BY <3>1, <1>3 DEF Announced, server
  <2>2. \A u \in Tabs : wire[u] = <<>>
    BY <1>3 DEF FeedInv, LeaderInv
  <2>3. CatchUp => Differs(counter)
    BY <2>2 DEF CatchUp
  <2>4. wire'[t] # <<>> /\ wire'[t][1] = e
    BY <1>3
  <2>5. Differs(counter) => CatchUp'
    BY <2>4, <1>1, <1>3 DEF CatchUp, Differs, history, server
  <2> QED BY <2>1, <2>3, <2>5, <1>7 DEF Pending
<1>8. ReadsInv' /\ CurrentInv'
  BY <1>3, <1>7, OnlyPending DEF server, tabs, history
<1> QED BY <1>4, <1>5, <1>6, <1>8 DEF FeedInv

LEMMA DropInv ==
  ASSUME FeedInv, NEW t \in Tabs, Drop(t) \/ GiveUp(t)
  PROVE  FeedInv'
<1> USE FeedAssumption
<1>1. PICK x \in {"off", "connecting"} : stream' = [stream EXCEPT ![t] = x]
  BY DEF Drop, GiveUp
<1>2. /\ wire' = [wire EXCEPT ![t] = <<>>] /\ missed' = missed \cup PassedOver(LostOn(t))
      /\ UNCHANGED <<server, last, tabs, aged, doubt>>
      /\ used'.saves = used.saves /\ DOMAIN used' = DOMAIN used
      /\ lock' \in Tabs \cup {Nothing} /\ loop' \in [Tabs -> {"none", "queued", "holding", "resting"}]
  BY DEF Drop, GiveUp, FeedInv, FeedTypes
<1>3. missed' \in SUBSET FeedRecords
  BY <1>2, PassedOverKnown DEF FeedInv, FeedTypes
<1>4. wire' \in [Tabs -> Seq(Events)] /\ stream' \in [Tabs -> {"off", "connecting", "open"}]
      /\ wire'[t] = <<>> /\ \A u \in Tabs \ {t} : wire'[u] = wire[u]
  BY <1>1, <1>2 DEF FeedInv, FeedTypes
<1>5. FeedTypes'
  BY <1>2, <1>3, <1>4 DEF FeedInv, FeedTypes, server, tabs
<1>6. CountInv'
  <2>1. ASSUME NEW u \in Tabs, NEW i \in DOMAIN wire'[u] PROVE wire'[u][i].id <= counter
    <3>1. u # t
      BY <1>4
    <3> QED BY <3>1, <1>4 DEF FeedInv, CountInv
  <2> QED BY <2>1, <1>2 DEF FeedInv, CountInv, server
<1>7. LeaderInv'
  BY DEF FeedInv, FeedTypes, LeaderInv, Drop, GiveUp, tabs
<1>8. \A r \in FeedRecords : r \in missed' \/ (Pending(r) => Pending(r)')
  BY <1>1, <1>2, StreamLost DEF server
<1>9. ReadsInv' /\ CurrentInv'
  BY <1>2, <1>8, OnlyPending DEF server, tabs
<1> QED BY <1>5, <1>6, <1>7, <1>9 DEF FeedInv

LEMMA ReceiveInv ==
  ASSUME FeedInv, NEW t \in Tabs, Receive(t)
  PROVE  FeedInv'
<1> USE FeedAssumption
<1> DEFINE e == wire[t][1]
<1>1. /\ stream[t] = "open" /\ lock = t /\ wire[t] # <<>> /\ wire[t] \in Seq(Events)
      /\ \A u \in Tabs \ {t} : stream[u] = "off" /\ wire[u] = <<>>
  BY DEF Receive, FeedInv, FeedTypes, LeaderInv
<1>2. Head(wire[t]) = e /\ e \in Events /\ "initial" \notin Kinds
  BY <1>1 DEF Kinds
<1>3. /\ wire' = [wire EXCEPT ![t] = Tail(wire[t])]
      /\ InitialEvent(t, e) \/ UpdateEvent(t, e)
      /\ UNCHANGED <<server, lock, loop, stream, page, phase, drawn, used>>
  BY <1>2 DEF Receive
<1>4. /\ wire'[t] = Tail(wire[t]) /\ \A u \in Tabs \ {t} : wire'[u] = <<>>
      /\ wire' \in [Tabs -> Seq(Events)]
  <2>1. Tail(wire[t]) \in Seq(Events)
    BY <1>1
  <2> QED BY <2>1, <1>1, <1>3 DEF FeedInv, FeedTypes
<1>5. /\ \A i \in DOMAIN wire[t] : i = 1 \/ (i - 1 \in DOMAIN wire'[t] /\ wire'[t][i - 1] = wire[t][i])
      /\ \A i \in DOMAIN wire'[t] : i + 1 \in DOMAIN wire[t] /\ wire'[t][i] = wire[t][i + 1]
      /\ 1 \in DOMAIN wire[t]
  BY <1>1, <1>4
<1>6. e.id \in Versions /\ Nothing \notin Versions
  BY <1>2 DEF Events, Announcements, Versions
<1> HIDE DEF e
<1>7. CountInv' /\ LeaderInv'
  <2>1. ASSUME NEW u \in Tabs, NEW i \in DOMAIN wire'[u] PROVE wire'[u][i].id <= counter
    <3>1. u = t
      BY <1>4
    <3> QED BY <3>1, <1>5 DEF FeedInv, CountInv
  <2>2. CountInv'
    BY <2>1, <1>3 DEF FeedInv, CountInv, server
  <2>3. LeaderInv'
    BY <1>1, <1>3, <1>4 DEF FeedInv, LeaderInv
  <2> QED BY <2>2, <2>3
<1>8. ASSUME NEW r \in FeedRecords, Announced(r), e.kind \notin Kinds \/ e.about # r
      PROVE  Announced(r)'
  <2>1. CASE \E p \in pokes : p.rec = r
    BY <2>1, <1>3 DEF Announced, server
  <2>2. CASE \E u \in Tabs : \E i \in DOMAIN wire[u] : wire[u][i].kind \in Kinds /\ wire[u][i].about = r
    <3>1. PICK i \in DOMAIN wire[t] : wire[t][i].kind \in Kinds /\ wire[t][i].about = r
      BY <2>2, <1>1
    <3>2. i # 1
      BY <3>1, <1>8 DEF e
    <3>3. i - 1 \in DOMAIN wire'[t] /\ wire'[t][i - 1] = wire[t][i]
      BY <3>2, <1>5
    <3> QED BY <3>1, <3>3 DEF Announced
  <2> QED BY <2>1, <2>2, <1>8 DEF Announced
<1>9. ASSUME CatchUp PROVE e.kind = "initial" /\ (aged \/ last = Nothing \/ last < e.id)
  BY <1>9, <1>1 DEF CatchUp, Differs, e
<1>10. CASE e.kind = "initial" /\ e.id = last
  <2>1. /\ missed' = (IF aged THEN FeedRecords ELSE missed) /\ UNCHANGED <<last, aged, reads, doubt>>
    BY <1>2, <1>3, <1>10 DEF InitialEvent, UpdateEvent
  <2>2. missed' \in SUBSET FeedRecords /\ missed \subseteq missed'
    BY <2>1 DEF FeedInv, FeedTypes
  <2>3. FeedTypes'
    BY <2>1, <2>2, <1>3, <1>4 DEF FeedInv, FeedTypes, server
  <2>4. ASSUME NEW r \in FeedRecords, r \notin missed', Pending(r) PROVE Pending(r)'
    <3>1. ~CatchUp
      BY <2>1, <2>4, <1>6, <1>9, <1>10 DEF Versions
    <3> QED BY <3>1, <2>4, <1>2, <1>8, <1>10 DEF Pending
  <2>5. ReadsInv' /\ CurrentInv'
    BY <2>1, <2>2, <2>4, <1>3, OnlyPending DEF server
  <2> QED BY <2>3, <2>5, <1>7 DEF FeedInv
<1>11. CASE e.kind = "initial" /\ e.id # last
  <2> DEFINE ms == {[kind |-> "incident", rec |-> Nothing], [kind |-> "report", rec |-> Nothing]}
  <2>1. last' = e.id /\ aged' = FALSE /\ Post(ms) /\ missed' = missed \cap Visits
    BY <1>2, <1>3, <1>11 DEF InitialEvent, UpdateEvent
  <2>2. \A m \in ms : m.kind \in Kinds /\ About(m) \subseteq FeedRecords
    BY DEF About, Of, FeedRecords, Kinds
  <2>3. ASSUME NEW u \in Tabs, phase[u] # "closed", NEW r \in Followed(page[u]), r \notin Visits
        PROVE  r \in Hears(u, ms)
    <3>1. page[u] \in AnyPage /\ r \in FeedRecords
      BY <2>3, FollowsRecords DEF FeedInv, FeedTypes
    <3>2. r \in Incidents \/ r \in Reports
      BY <3>1, <2>3 DEF FeedRecords
    <3> DEFINE m == [kind |-> KindOf(r), rec |-> Nothing]
    <3>3. m \in ms /\ m.kind = KindOf(r) /\ r \in About(m)
      BY <3>2 DEF KindOf, About, Of
    <3> HIDE DEF m, ms
    <3>4. r \in Rereads(page[u], m)
      BY <3>1, <3>3, <2>3, FollowersReread
    <3> QED BY <3>3, <3>4 DEF Hears
  <2> HIDE DEF ms
  <2>4. /\ reads' \in [Tabs -> SUBSET TabReads] /\ doubt' \in [Tabs -> SUBSET FeedRecords] /\ ReadsInv'
        /\ \A u \in Tabs : phase[u] # "closed" => \A r \in FeedRecords :
              /\ r \in Hears(u, ms) => r \in doubt'[u] \/ Fresh(u, r)'
              /\ r \notin Hears(u, ms) => (r \in doubt[u] => r \in doubt'[u]) /\ (Fresh(u, r) => Fresh(u, r)')
    BY <2>1, <2>2, <1>3, AfterPost DEF FeedInv, server
  <2>5. FeedTypes'
    BY <2>1, <2>4, <1>3, <1>4, <1>6 DEF FeedInv, FeedTypes, server
  <2>6. CurrentInv'
    <3> SUFFICES ASSUME NEW u \in Tabs, phase[u] # "closed", NEW r \in Followed(page[u])
                 PROVE  r \in doubt'[u] \/ r \in missed' \/ Fresh(u, r)' \/ Pending(r)'
      BY <1>3 DEF CurrentInv
    <3>1. r \in FeedRecords
      BY FollowsRecords DEF FeedInv, FeedTypes
    <3>2. r \in doubt[u] \/ r \in missed \/ Fresh(u, r) \/ Pending(r)
      BY DEF FeedInv, CurrentInv
    <3>3. CASE r \in Hears(u, ms)
      BY <3>1, <3>3, <2>4
    <3>4. CASE r \notin Hears(u, ms)
      <4>1. r \in Visits
        BY <3>4, <2>3
      <4>2. Pending(r) => Pending(r)'
        BY <4>1, <3>1, <1>2, <1>8, <1>11 DEF Pending
      <4> QED BY <4>1, <4>2, <3>1, <3>2, <3>4, <2>1, <2>4
    <3> QED BY <3>3, <3>4
  <2> QED BY <2>4, <2>5, <2>6, <1>7 DEF FeedInv
<1>12. CASE e.kind \in Kinds
  <2> DEFINE m == [kind |-> e.kind, rec |-> e.rec]
             ms == {m}
  <2>1. last' = e.id /\ aged' = FALSE /\ Post(ms) /\ missed' = missed \ About(e)
    BY <1>2, <1>3, <1>12 DEF InitialEvent, UpdateEvent
  <2>2. /\ e.about \in FeedRecords /\ e.kind = KindOf(e.about) /\ e.rec \in {Nothing, e.about}
        /\ e.rec = Nothing \/ e.rec \in FeedRecords
    BY <1>2, <1>12 DEF Events, Announcements
  <2>3. About(m) = About(e) /\ m.kind = e.kind /\ About(e) \subseteq FeedRecords /\ e.about \in About(e)
        /\ \A r \in About(e) : KindOf(r) = e.kind
    BY <2>2 DEF About, Of, FeedRecords, KindOf
  <2> HIDE DEF m
  <2>4. ASSUME NEW u \in Tabs, phase[u] # "closed", NEW r \in Followed(page[u]), r \in About(e)
        PROVE  r \in Hears(u, ms)
    <3>1. page[u] \in AnyPage
      BY <2>4 DEF FeedInv, FeedTypes
    <3>2. r \in Rereads(page[u], m)
      BY <3>1, <2>3, <2>4, FollowersReread
    <3> QED BY <3>2 DEF Hears
  <2>5. \A x \in ms : x.kind \in Kinds /\ About(x) \subseteq FeedRecords
    BY <2>3, <1>12
  <2> HIDE DEF ms
  <2>6. /\ reads' \in [Tabs -> SUBSET TabReads] /\ doubt' \in [Tabs -> SUBSET FeedRecords] /\ ReadsInv'
        /\ \A u \in Tabs : phase[u] # "closed" => \A r \in FeedRecords :
              /\ r \in Hears(u, ms) => r \in doubt'[u] \/ Fresh(u, r)'
              /\ r \notin Hears(u, ms) => (r \in doubt[u] => r \in doubt'[u]) /\ (Fresh(u, r) => Fresh(u, r)')
    BY <2>1, <2>5, <1>3, AfterPost DEF FeedInv, server
  <2>7. FeedTypes'
    BY <2>1, <2>6, <1>3, <1>4, <1>6 DEF FeedInv, FeedTypes, server
  <2>8. CurrentInv'
    <3> SUFFICES ASSUME NEW u \in Tabs, phase[u] # "closed", NEW r \in Followed(page[u])
                 PROVE  r \in doubt'[u] \/ r \in missed' \/ Fresh(u, r)' \/ Pending(r)'
      BY <1>3 DEF CurrentInv
    <3>1. r \in FeedRecords
      BY FollowsRecords DEF FeedInv, FeedTypes
    <3>2. r \in doubt[u] \/ r \in missed \/ Fresh(u, r) \/ Pending(r)
      BY DEF FeedInv, CurrentInv
    <3>3. CASE r \in Hears(u, ms)
      BY <3>1, <3>3, <2>6
    <3>4. CASE r \notin Hears(u, ms)
      <4>1. r \notin About(e) /\ e.about # r
        BY <3>4, <2>3, <2>4
      <4>2. ~CatchUp
        BY <1>2, <1>9, <1>12
      <4>3. Pending(r) => Pending(r)'
        BY <4>1, <4>2, <3>1, <1>8 DEF Pending
      <4> QED BY <4>1, <4>3, <3>1, <3>2, <3>4, <2>1, <2>6
    <3> QED BY <3>3, <3>4
  <2> QED BY <2>6, <2>7, <2>8, <1>7 DEF FeedInv
<1> QED BY <1>2, <1>10, <1>11, <1>12 DEF Events, Announcements

LEMMA OpenInv ==
  ASSUME FeedInv, NEW t \in Tabs, NEW pg \in Pages[t], OpenPage(t, pg)
  PROVE  FeedInv'
<1> USE FeedAssumption
<1>1. pg \in AnyPage /\ Shows(pg) \subseteq FeedRecords /\ Followed(pg) \subseteq Shows(pg)
  BY FollowsRecords DEF AnyPage, Followed
<1>2. /\ UNCHANGED <<server, browser, drawn, history>> /\ phase[t] = "closed"
      /\ used'.saves = used.saves /\ DOMAIN used' = DOMAIN used
  BY DEF OpenPage, FeedInv, FeedTypes
<1>3. CASE UNCHANGED <<phase, page, reads>>
  <2>1. FeedTypes' /\ CountInv' /\ LeaderInv'
    BY <1>2, <1>3
    DEF FeedInv, FeedTypes, CountInv, LeaderInv, server, browser, history
  <2>2. \A r \in FeedRecords : Pending(r) => Pending(r)'
    BY <1>2 DEF Pending, Announced, CatchUp, Differs, server, browser, history
  <2>3. ReadsInv' /\ CurrentInv'
    BY <2>2, <1>2, <1>3, OnlyPending DEF server, history
  <2> QED BY <2>1, <2>3 DEF FeedInv
<1>4. CASE /\ phase' = [phase EXCEPT ![t] = "loading"] /\ page' = [page EXCEPT ![t] = pg]
           /\ reads' = [reads EXCEPT ![t] = {[scope |-> Shows(pg), from |-> ver]}]
  <2> DEFINE rd == [scope |-> Shows(pg), from |-> ver]
  <2>1. rd \in TabReads /\ rd.scope = Shows(pg) /\ rd.from = ver
    BY <1>1 DEF TabReads, FeedInv, FeedTypes
  <2> HIDE DEF rd
  <2>2. /\ phase'[t] = "loading" /\ page'[t] = pg /\ reads'[t] = {rd}
        /\ \A u \in Tabs \ {t} : phase'[u] = phase[u] /\ page'[u] = page[u] /\ reads'[u] = reads[u]
        /\ phase' \in [Tabs -> {"closed", "loading", "listening"}]
        /\ page' \in [Tabs -> AnyPage \cup {Nothing}] /\ reads' \in [Tabs -> SUBSET TabReads]
    BY <1>1, <1>4, <2>1 DEF rd, FeedInv, FeedTypes
  <2>3. FeedTypes'
    BY <2>2, <1>1, <1>2 DEF FeedInv, FeedTypes, server, browser, history
  <2>4. CountInv' /\ LeaderInv' /\ ReadsInv'
    BY <2>2, <1>2
    DEF FeedInv, CountInv, LeaderInv, ReadsInv, server, browser, history
  <2>5. \A r \in FeedRecords : Pending(r) => Pending(r)'
    BY <1>2 DEF Pending, Announced, CatchUp, Differs, server, browser, history
  <2>6. ASSUME NEW u \in Tabs, phase'[u] # "closed", NEW r \in Followed(page'[u])
        PROVE  r \in doubt[u] \/ r \in missed \/ Fresh(u, r)' \/ Pending(r)'
    <3>1. CASE u = t
      BY <3>1, <2>1, <2>2, <2>6, <1>1, <1>2 DEF Fresh, server
    <3>2. CASE u # t
      <4>1. r \in Followed(page[u]) /\ phase[u] # "closed"
        BY <3>2, <2>2, <2>6
      <4>2. r \in FeedRecords /\ (r \in doubt[u] \/ r \in missed \/ Fresh(u, r) \/ Pending(r))
        BY <4>1, FollowsRecords DEF FeedInv, FeedTypes, CurrentInv
      <4> QED BY <4>2, <3>2, <2>2, <2>5, <1>2 DEF Fresh, server
    <3> QED BY <3>1, <3>2
  <2>7. CurrentInv'
    BY <2>6, <1>2 DEF CurrentInv, history
  <2> QED BY <2>3, <2>4, <2>7 DEF FeedInv
<1> QED BY <1>3, <1>4 DEF OpenPage

LEMMA StopInv ==
  ASSUME FeedInv, NEW t \in Tabs, Stop(t)
  PROVE  FeedInv'
<1> USE FeedAssumption
<1>1. /\ UNCHANGED <<server, browser, drawn, aged, missed>> /\ phase[t] = "loading"
      /\ used'.saves = used.saves /\ DOMAIN used' = DOMAIN used
      /\ phase'[t] = "closed" /\ reads'[t] = {} /\ page'[t] = Nothing
      /\ \A u \in Tabs \ {t} : /\ page'[u] = page[u] /\ phase'[u] = phase[u]
                              /\ reads'[u] = reads[u] /\ doubt'[u] = doubt[u]
      /\ page' \in [Tabs -> AnyPage \cup {Nothing}] /\ phase' \in [Tabs -> {"closed", "loading", "listening"}]
      /\ reads' \in [Tabs -> SUBSET TabReads] /\ doubt' \in [Tabs -> SUBSET FeedRecords]
  BY DEF Stop, FeedInv, FeedTypes
<1>2. FeedTypes'
  BY <1>1 DEF FeedInv, FeedTypes, server, browser
<1>3. CountInv' /\ LeaderInv'
  BY <1>1 DEF FeedInv, CountInv, LeaderInv, server, browser
<1>4. \A r \in FeedRecords : Pending(r) => Pending(r)'
  BY <1>1 DEF Pending, Announced, CatchUp, Differs, server, browser
<1>5. ReadsInv' /\ CurrentInv'
  BY <1>1, <1>4, OneTabCloses DEF server
<1> QED BY <1>2, <1>3, <1>5 DEF FeedInv

LEMMA CloseInv ==
  ASSUME FeedInv, NEW t \in Tabs, ClosePage(t)
  PROVE  FeedInv'
<1> USE FeedAssumption
<1>1. /\ UNCHANGED <<server, last, used, aged>>
      /\ phase'[t] = "closed" /\ reads'[t] = {} /\ page'[t] = Nothing /\ loop'[t] = "none"
      /\ stream'[t] = "off" /\ wire'[t] = <<>> /\ lock' = IF lock = t THEN Nothing ELSE lock
      /\ \A u \in Tabs \ {t} : /\ page'[u] = page[u] /\ phase'[u] = phase[u] /\ drawn'[u] = drawn[u]
                              /\ reads'[u] = reads[u] /\ doubt'[u] = doubt[u]
                              /\ loop'[u] = loop[u] /\ stream'[u] = stream[u] /\ wire'[u] = wire[u]
      /\ page' \in [Tabs -> AnyPage \cup {Nothing}] /\ phase' \in [Tabs -> {"closed", "loading", "listening"}]
      /\ reads' \in [Tabs -> SUBSET TabReads] /\ doubt' \in [Tabs -> SUBSET FeedRecords]
      /\ loop' \in [Tabs -> {"none", "queued", "holding", "resting"}]
      /\ stream' \in [Tabs -> {"off", "connecting", "open"}]
      /\ missed' = missed \cup PassedOver(LostOn(t))
  BY DEF ClosePage, FeedInv, FeedTypes
<1>2. wire' \in [Tabs -> Seq(Events)] /\ drawn' \in [Tabs -> [FeedRecords -> Versions \cup {Nothing}]]
  <2>1. NoRows \in [FeedRecords -> Versions \cup {Nothing}]
    BY DEF NoRows
  <2> QED BY <2>1 DEF ClosePage, FeedInv, FeedTypes
<1>3. missed' \in SUBSET FeedRecords
  BY <1>1, PassedOverKnown DEF FeedInv, FeedTypes
<1>4. FeedTypes'
  BY <1>1, <1>2, <1>3 DEF FeedInv, FeedTypes, server
<1>5. CountInv'
  <2>1. ASSUME NEW u \in Tabs, NEW i \in DOMAIN wire'[u] PROVE wire'[u][i].id <= counter
    <3>1. u # t
      BY <1>1
    <3> QED BY <3>1, <1>1 DEF FeedInv, CountInv
  <2> QED BY <2>1, <1>1 DEF FeedInv, CountInv, server
<1>6. LeaderInv'
  BY <1>1 DEF FeedInv, LeaderInv
<1>7. \A r \in FeedRecords : r \in missed' \/ (Pending(r) => Pending(r)')
  <2>1. /\ stream' = [stream EXCEPT ![t] = "off"] /\ wire' = [wire EXCEPT ![t] = <<>>]
        /\ UNCHANGED <<pokes, counter, last, aged>>
    BY DEF ClosePage, server
  <2> QED BY <2>1, <1>1, StreamLost
<1>8. ReadsInv' /\ CurrentInv'
  BY <1>1, <1>7, OneTabCloses DEF server
<1> QED BY <1>4, <1>5, <1>6, <1>8 DEF FeedInv

LEMMA DrawsRows ==
  ASSUME FeedTypes, NEW t \in Tabs, NEW S \in SUBSET FeedRecords,
         NEW rows, DOMAIN rows \subseteq S, \A r \in DOMAIN rows : rows[r] \in Versions \cup {Nothing},
         Draw(t, rows)
  PROVE  /\ drawn' \in [Tabs -> [FeedRecords -> Versions \cup {Nothing}]]
         /\ \A u \in Tabs \ {t} : drawn'[u] = drawn[u]
         /\ \A r \in FeedRecords \ S : drawn'[t][r] = drawn[t][r]
         /\ \A r \in DOMAIN rows : drawn'[t][r] = rows[r]
<1> DEFINE row == [r \in FeedRecords |-> IF r \in DOMAIN rows THEN rows[r] ELSE drawn[t][r]]
<1>1. drawn' = [drawn EXCEPT ![t] = row]
  BY DEF Draw
<1>2. row \in [FeedRecords -> Versions \cup {Nothing}]
  BY DEF FeedTypes
<1>3. /\ \A r \in FeedRecords \ S : row[r] = drawn[t][r]
      /\ \A r \in DOMAIN rows : row[r] = rows[r]
  OBVIOUS
<1> HIDE DEF row
<1> QED BY <1>1, <1>2, <1>3 DEF FeedTypes

(* Whatever the page: a row that was read and not lost shows the answer,   *)
(* and a row that was not read stays as it was.                            *)
LEMMA LandingDraws ==
  ASSUME FeedTypes, NEW t \in Tabs, NEW rd \in TabReads, NEW gone \in SUBSET rd.scope,
         NEW seen \in [rd.scope -> Versions], PageLands(t, rd, gone, seen)
  PROVE  /\ drawn' \in [Tabs -> [FeedRecords -> Versions \cup {Nothing}]]
         /\ \A u \in Tabs \ {t} : drawn'[u] = drawn[u]
         /\ \A r \in FeedRecords \ rd.scope : drawn'[t][r] = drawn[t][r]
         /\ \A r \in rd.scope \ gone : drawn'[t][r] = seen[r]
<1> USE FeedAssumption
<1>1. rd.scope \in SUBSET FeedRecords
  BY DEF TabReads
<1>2. DOMAIN <<>> = {}
  OBVIOUS
<1>3. DOMAIN seen = rd.scope /\ \A r \in rd.scope : seen[r] \in Versions
  OBVIOUS
<1> DEFINE Drawn == /\ drawn' \in [Tabs -> [FeedRecords -> Versions \cup {Nothing}]]
                    /\ \A u \in Tabs \ {t} : drawn'[u] = drawn[u]
                    /\ \A r \in FeedRecords \ rd.scope : drawn'[t][r] = drawn[t][r]
                    /\ \A r \in rd.scope \ gone : drawn'[t][r] = seen[r]
<1>4. ASSUME Draw(t, seen) PROVE Drawn
  <2>1. DOMAIN seen \subseteq rd.scope /\ \A r \in DOMAIN seen : seen[r] \in Versions \cup {Nothing}
    BY <1>3
  <2>2. /\ drawn' \in [Tabs -> [FeedRecords -> Versions \cup {Nothing}]]
        /\ \A u \in Tabs \ {t} : drawn'[u] = drawn[u]
        /\ \A r \in FeedRecords \ rd.scope : drawn'[t][r] = drawn[t][r]
        /\ \A r \in DOMAIN seen : drawn'[t][r] = seen[r]
    BY ONLY FeedTypes, t \in Tabs, <1>1, <1>4, <2>1, DrawsRows, SMTT(60)
  <2> QED BY <2>2, <1>3
<1>5. ASSUME Draw(t, <<>>), gone = rd.scope PROVE Drawn
  <2>1. \A r \in DOMAIN <<>> : <<>>[r] \in Versions \cup {Nothing}
    BY <1>2
  <2> QED BY <1>1, <1>2, <1>5, <2>1, DrawsRows
<1>6. ASSUME Draw(t, [r \in Incidents |-> Nothing]), gone = rd.scope, rd.scope = Incidents PROVE Drawn
  <2> DEFINE rows == [r \in Incidents |-> Nothing]
  <2>1. DOMAIN rows = Incidents /\ \A r \in DOMAIN rows : rows[r] \in Versions \cup {Nothing}
    OBVIOUS
  <2>2. Draw(t, rows)
    BY <1>6
  <2> HIDE DEF rows
  <2> QED BY <1>1, <1>6, <2>1, <2>2, DrawsRows
<1>7. ASSUME Draw(t, [r \in rd.scope \ gone |-> seen[r]]) PROVE Drawn
  <2> DEFINE rows == [r \in rd.scope \ gone |-> seen[r]]
  <2>1. /\ DOMAIN rows = rd.scope \ gone /\ DOMAIN rows \subseteq rd.scope
        /\ \A r \in DOMAIN rows : rows[r] \in Versions \cup {Nothing}
        /\ \A r \in DOMAIN rows : rows[r] = seen[r]
    BY <1>3
  <2>2. Draw(t, rows)
    BY <1>7
  <2> HIDE DEF rows
  <2>3. /\ drawn' \in [Tabs -> [FeedRecords -> Versions \cup {Nothing}]]
        /\ \A u \in Tabs \ {t} : drawn'[u] = drawn[u]
        /\ \A r \in FeedRecords \ rd.scope : drawn'[t][r] = drawn[t][r]
        /\ \A r \in DOMAIN rows : drawn'[t][r] = rows[r]
    BY ONLY FeedTypes, t \in Tabs, <1>1, <2>1, <2>2, DrawsRows, SMTT(60)
  <2> QED BY <2>1, <2>3
<1>8. ASSUME gone \in {{}, rd.scope}, Draw(t, IF gone = {} THEN seen ELSE <<>>) PROVE Drawn
  BY <1>4, <1>5, <1>8
<1> HIDE DEF Drawn
<1>9. IncidentsTableLands(t, rd, gone, seen) => Drawn
  <2> SUFFICES ASSUME IncidentsTableLands(t, rd, gone, seen) PROVE Drawn
    OBVIOUS
  <2>1. CASE gone = {}
    BY <2>1, <1>4 DEF IncidentsTableLands
  <2>2. CASE gone # {} /\ phase[t] = "loading"
    BY <2>2, <1>5 DEF IncidentsTableLands
  <2>3. CASE gone # {} /\ phase[t] # "loading"
    BY <2>3, <1>5, <1>6 DEF IncidentsTableLands
  <2> QED BY <2>1, <2>2, <2>3
<1>10. /\ ReportsTableLands(t, rd, gone, seen) => Drawn
       /\ VisitsTableLands(t, rd, gone, seen) => Drawn
       /\ ReportPageLands(t, rd, gone, seen) => Drawn
       /\ VisitPageLands(t, rd, gone, seen) => Drawn
  BY <1>8 DEF ReportsTableLands, VisitsTableLands, ReportPageLands, VisitPageLands
<1>11. IncidentPageLands(t, rd, gone, seen) => Drawn
  BY <1>7 DEF IncidentPageLands
<1>12. Drawn
  <2>1. ASSUME NEW k \in Kinds PROVE Table(k).on = k /\ Table(k).on \notin Incidents \cup Reports
    BY DEF Table, FeedRecords
  <2>2. /\ Table("incident") # Table("report") /\ Table("incident") # Table("visit")
        /\ Table("report") # Table("visit")
    BY DEF Table
  <2>3. {"incident", "report", "visit"} = Kinds /\ Incidents \cap Reports = {}
    BY DEF Kinds
  <2>4. CASE page[t] = Table("incident")
    BY <2>1, <2>2, <2>3, <2>4, <1>9 DEF PageLands
  <2>5. CASE page[t] = Table("report")
    BY <2>1, <2>2, <2>3, <2>5, <1>10 DEF PageLands
  <2>6. CASE page[t] = Table("visit")
    BY <2>1, <2>2, <2>3, <2>6, <1>10 DEF PageLands
  <2>7. CASE page[t] \notin {Table("incident"), Table("report"), Table("visit")}
    <3>1. CASE page[t].on \in Incidents
      BY <2>3, <2>7, <3>1, <1>11 DEF PageLands
    <3>2. CASE page[t].on \in Reports
      BY <2>3, <2>7, <3>2, <1>10 DEF PageLands
    <3>3. CASE page[t].on \notin Incidents \cup Reports
      BY <2>7, <3>3, <1>10 DEF PageLands
    <3> QED BY <3>1, <3>2, <3>3
  <2> QED BY <2>4, <2>5, <2>6, <2>7
<1> QED BY <1>12 DEF Drawn

LEMMA LandInv ==
  ASSUME FeedInv, NEW t \in Tabs, NEW rd \in reads[t], Land(t, rd)
  PROVE  FeedInv'
<1> USE FeedAssumption
<1>1. PICK gone \in SUBSET rd.scope, seen \in AnswersTo(rd) :
        /\ used' = [used EXCEPT !.faults = @ + Cardinality(gone)]
        /\ PageLands(t, rd, gone, seen)
        /\ reads' = [reads EXCEPT ![t] = @ \ {rd}]
        /\ doubt' = [doubt EXCEPT ![t] = @ \cup gone]
        /\ IF phase[t] = "loading"
           THEN phase' = [phase EXCEPT ![t] = "listening"] /\ loop' = [loop EXCEPT ![t] = "queued"]
           ELSE UNCHANGED <<phase, loop>>
        /\ UNCHANGED <<server, last, lock, stream, wire, page, aged, missed>>
  BY DEF Land
<1>2. rd \in TabReads /\ rd.scope \subseteq FeedRecords /\ seen \in [rd.scope -> Versions]
      /\ \A r \in rd.scope : rd.from[r] <= seen[r] /\ seen[r] <= ver[r] /\ rd.from[r] \in Versions
  <2>1. rd \in TabReads
    BY DEF FeedInv, FeedTypes
  <2> QED BY <2>1 DEF AnswersTo, Versions, TabReads
<1>3. /\ drawn' \in [Tabs -> [FeedRecords -> Versions \cup {Nothing}]]
      /\ \A u \in Tabs \ {t} : drawn'[u] = drawn[u]
      /\ \A r \in FeedRecords \ rd.scope : drawn'[t][r] = drawn[t][r]
      /\ \A r \in rd.scope \ gone : drawn'[t][r] = seen[r]
  <2>1. FeedTypes
    BY DEF FeedInv
  <2>2. PageLands(t, rd, gone, seen)
    BY <1>1
  <2>3. rd \in TabReads /\ seen \in [rd.scope -> Versions] /\ gone \in SUBSET rd.scope
    BY <1>2
  <2> QED BY ONLY t \in Tabs, <2>1, <2>2, <2>3, LandingDraws
<1>4. phase[t] # "closed"
  BY DEF FeedInv, ReadsInv
<1>5. /\ used'.saves = used.saves /\ DOMAIN used' = DOMAIN used
      /\ reads'[t] = reads[t] \ {rd} /\ doubt'[t] = doubt[t] \cup gone
      /\ \A u \in Tabs \ {t} : /\ reads'[u] = reads[u] /\ doubt'[u] = doubt[u]
                              /\ phase'[u] = phase[u] /\ loop'[u] = loop[u]
      /\ reads' \in [Tabs -> SUBSET TabReads] /\ doubt' \in [Tabs -> SUBSET FeedRecords]
      /\ phase' \in [Tabs -> {"closed", "loading", "listening"}]
      /\ loop' \in [Tabs -> {"none", "queued", "holding", "resting"}]
      /\ phase'[t] # "closed" /\ page' = page
  <2>1. used'.saves = used.saves /\ DOMAIN used' = DOMAIN used
    BY <1>1 DEF FeedInv, FeedTypes
  <2>2. doubt[t] \cup gone \in SUBSET FeedRecords /\ reads[t] \ {rd} \in SUBSET TabReads
    BY <1>2 DEF FeedInv, FeedTypes
  <2>3. /\ reads'[t] = reads[t] \ {rd} /\ doubt'[t] = doubt[t] \cup gone
        /\ \A u \in Tabs \ {t} : reads'[u] = reads[u] /\ doubt'[u] = doubt[u]
        /\ reads' \in [Tabs -> SUBSET TabReads] /\ doubt' \in [Tabs -> SUBSET FeedRecords]
    BY <2>2, <1>1 DEF FeedInv, FeedTypes
  <2>4. /\ \A u \in Tabs \ {t} : phase'[u] = phase[u] /\ loop'[u] = loop[u]
        /\ phase' \in [Tabs -> {"closed", "loading", "listening"}]
        /\ loop' \in [Tabs -> {"none", "queued", "holding", "resting"}] /\ phase'[t] # "closed"
    <3>1. /\ phase \in [Tabs -> {"closed", "loading", "listening"}]
          /\ loop \in [Tabs -> {"none", "queued", "holding", "resting"}]
      BY DEF FeedInv, FeedTypes
    <3>2. CASE phase[t] = "loading"
      BY <3>1, <3>2, <1>1
    <3>3. CASE phase[t] # "loading"
      BY <3>1, <3>3, <1>1, <1>4
    <3> QED BY <3>2, <3>3
  <2> QED BY <2>1, <2>3, <2>4, <1>1
<1>6. FeedTypes'
  BY <1>1, <1>3, <1>4, <1>5 DEF FeedInv, FeedTypes, server
<1>7. CountInv'
  BY <1>1, <1>5 DEF FeedInv, CountInv, server
<1>8. LeaderInv'
  BY <1>1, <1>5 DEF FeedInv, FeedTypes, LeaderInv
<1>9. ReadsInv'
  BY <1>5 DEF FeedInv, ReadsInv
<1>10. \A r \in FeedRecords : Pending(r) => Pending(r)'
  BY <1>1 DEF Pending, Announced, CatchUp, Differs, server
<1>11. ASSUME NEW u \in Tabs, phase'[u] # "closed", NEW r \in Followed(page[u]), r \notin doubt'[u]
       PROVE  r \in missed \/ Fresh(u, r)' \/ Pending(r)'
  <2>1. r \in FeedRecords /\ phase[u] # "closed" /\ r \notin doubt[u]
    BY <1>4, <1>5, <1>11, FollowsRecords DEF FeedInv, FeedTypes
  <2>2. r \in missed \/ Fresh(u, r) \/ Pending(r)
    BY <2>1, <1>11 DEF FeedInv, CurrentInv
  <2>3. Fresh(u, r) => Fresh(u, r)'
    <3>1. CASE u # t
      BY <3>1, <1>1, <1>3, <1>5 DEF Fresh, server
    <3>2. CASE u = t
      <4>1. \A rd1, rd2 \in reads[t] : r \in rd1.scope /\ r \in rd2.scope => rd1 = rd2
        BY <3>2, <2>1 DEF FeedInv, ReadsInv
      <4>2. CASE r \in rd.scope
        <5>1. r \notin gone /\ \A x \in reads'[t] : r \notin x.scope
          BY <3>2, <4>1, <4>2, <1>5, <1>11
        <5>2. Fresh(t, r) => rd.from[r] = ver[r]
          BY <4>1, <4>2 DEF Fresh
        <5>3. rd.from[r] = ver[r] => drawn'[t][r] = ver[r]
          BY <5>1, <4>2, <1>2, <1>3, <2>1 DEF FeedInv, FeedTypes, Versions
        <5> QED BY <3>2, <5>1, <5>2, <5>3, <1>1 DEF Fresh, server
      <4>3. CASE r \notin rd.scope
        BY <3>2, <4>3, <2>1, <1>1, <1>3, <1>5 DEF Fresh, server
      <4> QED BY <4>2, <4>3
    <3> QED BY <3>1, <3>2
  <2> QED BY <2>1, <2>2, <2>3, <1>10
<1>12. CurrentInv'
  BY <1>1, <1>5, <1>11 DEF CurrentInv
<1> QED BY <1>6, <1>7, <1>8, <1>9, <1>12 DEF FeedInv

LEMMA FeedStepInv == FeedInv /\ [FeedNext]_feedVars => FeedInv'
<1> SUFFICES ASSUME FeedInv, [FeedNext]_feedVars PROVE FeedInv'
  OBVIOUS
<1>1. CASE UNCHANGED feedVars
  BY <1>1
  DEF FeedInv, FeedTypes, CountInv, LeaderInv, ReadsInv, CurrentInv, Fresh, Pending,
      Announced, CatchUp, Differs, feedVars, server, browser, tabs, history
<1>2. CASE \E r \in FeedRecords : ServerSaves(r)
  BY <1>2, SavesInv
<1>3. CASE \E p \in pokes : Publish(p)
  BY <1>3, PublishInv
<1>4. CASE ServerRestarts
  BY <1>4, RestartInv
<1>5. ASSUME NEW t \in Tabs, \/ OpenIncidents(t) \/ OpenReports(t) \/ OpenVisits(t)
                             \/ OpenIncident(t) \/ OpenReport(t) \/ OpenVisit(t)
      PROVE  FeedInv'
  <2>1. \E pg \in Pages[t] : OpenPage(t, pg)
    BY <1>5
    DEF OpenIncidents, OpenReports, OpenVisits, OpenIncident, OpenReport, OpenVisit
  <2> QED BY <2>1, OpenInv
<1>6. ASSUME NEW t \in Tabs, \/ Acquire(t) \/ Connect(t) \/ Drop(t) \/ GiveUp(t) \/ Reattempt(t) \/ Receive(t)
                             \/ (\E rd \in reads[t] : Land(t, rd)) \/ Stop(t) \/ ClosePage(t)
      PROVE  FeedInv'
  BY <1>6, AcquireInv, ConnectInv, DropInv, ReceiveInv, LandInv, StopInv, CloseInv
<1> QED BY <1>1, <1>2, <1>3, <1>4, <1>5, <1>6 DEF FeedNext

(* One tab at the most has a connection, and it holds the lock; an open    *)
(* page never waits for a feed that nobody holds.                          *)
THEOREM FeedHasOneStream == FeedSpec => []OneStream
<1>1. FeedInv => OneStream
  BY FeedInvImplies
<1> QED BY <1>1, FeedInitInv, FeedStepInv, PTL DEF FeedSpec

(* While a page listens somebody holds the stream, or will ask for it.     *)
THEOREM FeedIsHeld == FeedSpec => []FeedNeverAbandoned
<1>1. FeedInv => FeedNeverAbandoned
  BY FeedInvImplies
<1> QED BY <1>1, FeedInitInv, FeedStepInv, PTL DEF FeedSpec

(* Once the feed is quiet a page that listens shows what is committed, but *)
(* for the rows in doubt or missed.                                        *)
THEOREM FeedShowsCurrent == FeedSpec => []QuietTablesCurrent
<1>1. FeedInv => QuietTablesCurrent
  BY FeedInvImplies
<1> QED BY <1>1, FeedInitInv, FeedStepInv, PTL DEF FeedSpec
============================================================================
