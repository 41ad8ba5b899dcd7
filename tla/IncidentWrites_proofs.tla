----------------------- MODULE IncidentWrites_proofs -----------------------
(***************************************************************************)
(* For any number of overlapping creates and edits, and any payloads: the  *)
(* links are symmetric, states and closing times agree, no number is given *)
(* out twice, and the journal explains every row not written stale.        *)
(***************************************************************************)
EXTENDS IncidentWrites, TLAPS

(* The initial state satisfies the inductive invariant.                    *)
LEMMA WritesInitInv == Init => IInv
BY WritesAssumption
   DEF Init, IInv, TypeOK, CallInv, StoredInv, NumberInv, ToldInv,
       LinksSymmetric, ClosedMatchesState, NumberIsOwn, JournalHonest, Live,
       NothingForgotten,
       Creating, Past, Locations

(* Every action preserves the inductive invariant.                         *)
LEMMA WritesStepInv == IInv /\ [Next]_vars => IInv'
<1> SUFFICES ASSUME IInv, [Next]_vars PROVE IInv'
  OBVIOUS
<1> USE WritesAssumption DEF Locations
<1>1. ASSUME NEW q \in Requests, NEW c \in People, NEW d \in Payloads, NEW n \in Numbers, StartCreate(q, c, d, n)
      PROVE  IInv'
  <2>1. TypeOK'
    BY <1>1 DEF IInv, TypeOK, CallInv, Call, Past, StartCreate, Goto, tables,
                local, history
  <2>2. CallInv'
    BY <1>1 DEF IInv, CallInv, TypeOK, Past, Call, Live, StartCreate, Goto,
                tables, local, history
  <2>3. StoredInv'
    BY <1>1 DEF IInv, StoredInv, TypeOK, CallInv, ClosedMatchesState, Live,
                Past, StartCreate, Goto, tables, local, history
  <2>4. NumberInv'
    BY <1>1 DEF IInv, NumberInv, TypeOK, Creating, Past, CallInv, Call,
                NumberIsOwn, StartCreate, Goto, tables, local, history
  <2>5. ToldInv'
    BY <1>1 DEF IInv, ToldInv, TypeOK, CallInv, Past, StartCreate, Goto,
                tables, local, history
  <2>6. LinksSymmetric'
    BY <1>1 DEF IInv, LinksSymmetric, TypeOK, StartCreate, Goto, tables, local,
                history
  <2>7. ClosedMatchesState'
    BY <1>1 DEF IInv, ClosedMatchesState, TypeOK, Live, CallInv, Past,
                StartCreate, Goto, tables, local, history
  <2>8. NumberIsOwn'
    BY <1>1 DEF IInv, NumberIsOwn, TypeOK, NumberInv, Creating, Past, CallInv,
                StartCreate, Goto, tables, local, history
  <2>9. JournalHonest'
    BY <1>1 DEF IInv, JournalHonest, TypeOK, Live, CallInv, ToldInv, Past,
                StartCreate, Goto, tables, local, history
  <2>10. NothingForgotten'
    BY <1>1 DEF IInv, NothingForgotten, TypeOK, CallInv, Past, Owed,
                StartCreate, Goto, tables, local, history
  <2> QED BY <2>1, <2>2, <2>3, <2>4, <2>5, <2>6, <2>7, <2>8, <2>9, <2>10
             DEF IInv
<1>2. ASSUME NEW q \in Requests, NEW c \in People, NEW d \in Payloads, NEW n \in Numbers, StartUpdate(q, c, d, n)
      PROVE  IInv'
  <2>1. TypeOK'
    BY <1>2 DEF IInv, TypeOK, CallInv, Call, Past, StartUpdate, Goto, tables,
                local, history
  <2>2. CallInv'
    BY <1>2 DEF IInv, CallInv, TypeOK, Past, Call, Live, StartUpdate, Goto,
                tables, local, history
  <2>3. StoredInv'
    BY <1>2 DEF IInv, StoredInv, TypeOK, CallInv, ClosedMatchesState, Live,
                Past, StartUpdate, Goto, tables, local, history
  <2>4. NumberInv'
    BY <1>2 DEF IInv, NumberInv, TypeOK, Creating, Past, CallInv, Call,
                NumberIsOwn, StartUpdate, Goto, tables, local, history
  <2>5. ToldInv'
    BY <1>2 DEF IInv, ToldInv, TypeOK, CallInv, Past, StartUpdate, Goto,
                tables, local, history
  <2>6. LinksSymmetric'
    BY <1>2 DEF IInv, LinksSymmetric, TypeOK, StartUpdate, Goto, tables, local,
                history
  <2>7. ClosedMatchesState'
    BY <1>2 DEF IInv, ClosedMatchesState, TypeOK, Live, CallInv, Past,
                StartUpdate, Goto, tables, local, history
  <2>8. NumberIsOwn'
    BY <1>2 DEF IInv, NumberIsOwn, TypeOK, NumberInv, Creating, Past, CallInv,
                StartUpdate, Goto, tables, local, history
  <2>9. JournalHonest'
    BY <1>2 DEF IInv, JournalHonest, TypeOK, Live, CallInv, ToldInv, Past,
                StartUpdate, Goto, tables, local, history
  <2>10. NothingForgotten'
    BY <1>2 DEF IInv, NothingForgotten, TypeOK, CallInv, Past, Owed,
                StartUpdate, Goto, tables, local, history
  <2> QED BY <2>1, <2>2, <2>3, <2>4, <2>5, <2>6, <2>7, <2>8, <2>9, <2>10
             DEF IInv
<1>3. ASSUME NEW q \in Requests, InsertRow(q)
      PROVE  IInv'
  <2>1. TypeOK'
    <3>1. req[q].number \in Numbers /\ req[q].caller \in People
      BY <1>3 DEF IInv, TypeOK, CallInv, Call, InsertRow
    <3>2. NewRow(req[q].caller) \in Row
      BY <3>1 DEF NewRow, Row
    <3>3. {<<"incident", req[q].number>>, Dashboard} \subseteq Subjects
      BY <3>1 DEF Subjects, Dashboard
    <3> QED BY <1>3, <3>1, <3>2, <3>3
            DEF IInv, TypeOK, InsertRow, Goto, local
  <2>2. CallInv'
    <3>1. req[q].number \in Numbers /\ req[q].caller \in People
      BY <1>3 DEF IInv, TypeOK, CallInv, Call, InsertRow
    <3>2. NewRow(req[q].caller) \in Row
      BY <3>1 DEF NewRow, Row
    <3> QED BY <1>3, <3>1, <3>2
            DEF IInv, CallInv, TypeOK, Past, InsertRow, Goto, local
  <2>3. StoredInv'
    BY <1>3 DEF IInv, StoredInv, TypeOK, CallInv, ClosedMatchesState, Live,
                Past, InsertRow, Goto, tables, local, history, NewRow
  <2>4. NumberInv'
    BY <1>3 DEF IInv, NumberInv, TypeOK, Creating, Past, CallInv, Call,
                NumberIsOwn, InsertRow, Goto, tables, local, history, NewRow
  <2>5. ToldInv'
    BY <1>3 DEF IInv, ToldInv, TypeOK, CallInv, Past, InsertRow, Goto, tables,
                local, history, NewRow
  <2>6. LinksSymmetric'
    BY <1>3 DEF IInv, LinksSymmetric, TypeOK, InsertRow, Goto, tables, local,
                history, NewRow
  <2>7. ClosedMatchesState'
    BY <1>3 DEF IInv, ClosedMatchesState, TypeOK, Live, CallInv, Past,
                InsertRow, Goto, tables, local, history, NewRow
  <2>8. NumberIsOwn'
    BY <1>3 DEF IInv, NumberIsOwn, TypeOK, NumberInv, Creating, Past, CallInv,
                InsertRow, Goto, tables, local, history, NewRow
  <2>9. JournalHonest'
    BY <1>3 DEF IInv, JournalHonest, TypeOK, Live, CallInv, ToldInv, Past,
                InsertRow, Goto, tables, local, history, NewRow
  <2>10. NothingForgotten'
    BY <1>3 DEF IInv, NothingForgotten, TypeOK, CallInv, Past, Owed, InsertRow,
                Goto, tables, local, history, NewRow
  <2> QED BY <2>1, <2>2, <2>3, <2>4, <2>5, <2>6, <2>7, <2>8, <2>9, <2>10
             DEF IInv
<1>4. ASSUME NEW q \in Requests, GateOpens(q)
      PROVE  IInv'
  <2>1. TypeOK'
    BY <1>4 DEF IInv, TypeOK, CallInv, Call, Past, GateOpens, Goto, tables,
                local, history
  <2>2. CallInv'
    BY <1>4 DEF IInv, CallInv, TypeOK, Past, Call, Live, GateOpens, Goto,
                tables, local, history
  <2>3. StoredInv'
    BY <1>4 DEF IInv, StoredInv, TypeOK, CallInv, ClosedMatchesState, Live,
                Past, GateOpens, Goto, tables, local, history
  <2>4. NumberInv'
    BY <1>4 DEF IInv, NumberInv, TypeOK, Creating, Past, CallInv, Call,
                NumberIsOwn, GateOpens, Goto, tables, local, history
  <2>5. ToldInv'
    BY <1>4 DEF IInv, ToldInv, TypeOK, CallInv, Past, GateOpens, Goto, tables,
                local, history
  <2>6. LinksSymmetric'
    BY <1>4 DEF IInv, LinksSymmetric, TypeOK, GateOpens, Goto, tables, local,
                history
  <2>7. ClosedMatchesState'
    BY <1>4 DEF IInv, ClosedMatchesState, TypeOK, Live, CallInv, Past,
                GateOpens, Goto, tables, local, history
  <2>8. NumberIsOwn'
    BY <1>4 DEF IInv, NumberIsOwn, TypeOK, NumberInv, Creating, Past, CallInv,
                GateOpens, Goto, tables, local, history
  <2>9. JournalHonest'
    BY <1>4 DEF IInv, JournalHonest, TypeOK, Live, CallInv, ToldInv, Past,
                GateOpens, Goto, tables, local, history
  <2>10. NothingForgotten'
    BY <1>4 DEF IInv, NothingForgotten, TypeOK, CallInv, Past, Owed, GateOpens,
                Goto, tables, local, history
  <2> QED BY <2>1, <2>2, <2>3, <2>4, <2>5, <2>6, <2>7, <2>8, <2>9, <2>10
             DEF IInv
<1>5. ASSUME NEW q \in Requests, Fail(q)
      PROVE  IInv'
  <2>1. TypeOK'
    BY <1>5 DEF IInv, TypeOK, CallInv, Call, Past, Fail, Goto, tables, local,
                history, Forget
  <2>2. CallInv'
    BY <1>5 DEF IInv, CallInv, TypeOK, Past, Call, Live, Fail, Goto, tables,
                local, history, Forget
  <2>3. StoredInv'
    BY <1>5 DEF IInv, StoredInv, TypeOK, CallInv, ClosedMatchesState, Live,
                Past, Fail, Goto, tables, local, history, Forget
  <2>4. NumberInv'
    BY <1>5 DEF IInv, NumberInv, TypeOK, Creating, Past, CallInv, Call,
                NumberIsOwn, Fail, Goto, tables, local, history, Forget
  <2>5. ToldInv'
    BY <1>5 DEF IInv, ToldInv, TypeOK, CallInv, Past, Fail, Goto, tables,
                local, history, Forget
  <2>6. LinksSymmetric'
    BY <1>5 DEF IInv, LinksSymmetric, TypeOK, Fail, Goto, tables, local,
                history, Forget
  <2>7. ClosedMatchesState'
    BY <1>5 DEF IInv, ClosedMatchesState, TypeOK, Live, CallInv, Past, Fail,
                Goto, tables, local, history, Forget
  <2>8. NumberIsOwn'
    BY <1>5 DEF IInv, NumberIsOwn, TypeOK, NumberInv, Creating, Past, CallInv,
                Fail, Goto, tables, local, history, Forget
  <2>9. JournalHonest'
    BY <1>5 DEF IInv, JournalHonest, TypeOK, Live, CallInv, ToldInv, Past,
                Fail, Goto, tables, local, history, Forget
  <2>10. NothingForgotten'
    <3>1. \A r \in Requests : r # q => Owed(r)' = Owed(r)
      BY <1>5 DEF IInv, TypeOK, Owed, Fail, Forget, Goto
    <3>2. ASSUME NEW x \in Owed(q)
          PROVE  x \in {"incident"} \X failed' \/ (x = Dashboard /\ failed' # {})
      <4>1. Inserted(q) /\ x \in {<<"incident", req[q].number>>, Dashboard}
        BY <1>5, <3>2 DEF Owed, Fail, Inserted
      <4>2. req[q].number \in Numbers
        BY <1>5 DEF IInv, CallInv, Call, Fail
      <4>3. req[q].number \in failed'
        BY <1>5, <4>1, <4>2 DEF Fail
      <4> QED BY <4>1, <4>3
    <3> QED BY <1>5, <3>1, <3>2 DEF IInv, NothingForgotten, Fail, Forget
  <2> QED BY <2>1, <2>2, <2>3, <2>4, <2>5, <2>6, <2>7, <2>8, <2>9, <2>10
             DEF IInv
<1>6. ASSUME NEW q \in Requests, ReadRow(q)
      PROVE  IInv'
  <2>1. TypeOK'
    <3>1. req[q].number \in Numbers
      BY <1>6 DEF IInv, TypeOK, CallInv, Call, ReadRow
    <3>2. [links |-> {}, types |-> Typed(req[q].number),
           attached |-> Held(req[q].number)] \in Lists
      BY DEF Lists, Typed, Held
    <3> QED BY <1>6, <3>1, <3>2 DEF IInv, TypeOK, ReadRow, Goto, tables, history
  <2>2. CallInv'
    <3>1. req[q].number \in Numbers /\ row[req[q].number] \in Row
      BY <1>6 DEF IInv, TypeOK, CallInv, Call, ReadRow, Past
    <3>2. [links |-> {}, types |-> Typed(req[q].number),
           attached |-> Held(req[q].number)] \in Lists
      BY DEF Lists, Typed, Held
    <3> QED BY <1>6, <3>1, <3>2
            DEF IInv, CallInv, TypeOK, Past, ReadRow, Goto, tables
  <2>3. StoredInv'
    <3>1. req[q].number \in Live
      BY <1>6 DEF IInv, TypeOK, CallInv, Call, ReadRow, Past, Live
    <3> QED BY <1>6, <3>1
            DEF IInv, StoredInv, TypeOK, ClosedMatchesState, ReadRow, Goto
  <2>4. NumberInv'
    BY <1>6 DEF IInv, NumberInv, TypeOK, Creating, Past, CallInv, Call,
                NumberIsOwn, ReadRow, Goto, tables, local, history
  <2>5. ToldInv'
    BY <1>6 DEF IInv, ToldInv, TypeOK, CallInv, Past, ReadRow, Goto, tables,
                local, history
  <2>6. LinksSymmetric'
    BY <1>6 DEF IInv, LinksSymmetric, TypeOK, ReadRow, Goto, tables, local,
                history
  <2>7. ClosedMatchesState'
    BY <1>6 DEF IInv, ClosedMatchesState, TypeOK, Live, CallInv, Past, ReadRow,
                Goto, tables, local, history
  <2>8. NumberIsOwn'
    BY <1>6 DEF IInv, NumberIsOwn, TypeOK, NumberInv, Creating, Past, CallInv,
                ReadRow, Goto, tables, local, history
  <2>9. JournalHonest'
    BY <1>6 DEF IInv, JournalHonest, TypeOK, Live, CallInv, ToldInv, Past,
                ReadRow, Goto, tables, local, history
  <2>10. NothingForgotten'
    BY <1>6 DEF IInv, NothingForgotten, TypeOK, CallInv, Past, Owed, ReadRow,
                Goto, tables, local, history
  <2> QED BY <2>1, <2>2, <2>3, <2>4, <2>5, <2>6, <2>7, <2>8, <2>9, <2>10
             DEF IInv
<1>7. ASSUME NEW q \in Requests, ReadLinks(q)
      PROVE  IInv'
  <2>1. TypeOK'
    <3>1. [links |-> LinkedTo(req[q].number), types |-> lists[q].types,
           attached |-> lists[q].attached] \in Lists
      BY <1>7 DEF IInv, CallInv, ReadLinks, Lists, LinkedTo
    <3> QED BY <1>7, <3>1 DEF IInv, TypeOK, ReadLinks, Goto, tables, history
  <2>2. CallInv'
    <3>1. [links |-> LinkedTo(req[q].number), types |-> lists[q].types,
           attached |-> lists[q].attached] \in Lists
      BY <1>7 DEF IInv, CallInv, ReadLinks, Lists, LinkedTo
    <3> QED BY <1>7, <3>1
            DEF IInv, CallInv, TypeOK, Past, ReadLinks, Goto, tables
  <2>3. StoredInv'
    BY <1>7 DEF IInv, StoredInv, TypeOK, CallInv, ClosedMatchesState, Live,
                Past, ReadLinks, Goto, tables, local, history
  <2>4. NumberInv'
    BY <1>7 DEF IInv, NumberInv, TypeOK, Creating, Past, CallInv, Call,
                NumberIsOwn, ReadLinks, Goto, tables, local, history
  <2>5. ToldInv'
    BY <1>7 DEF IInv, ToldInv, TypeOK, CallInv, Past, ReadLinks, Goto, tables,
                local, history
  <2>6. LinksSymmetric'
    BY <1>7 DEF IInv, LinksSymmetric, TypeOK, ReadLinks, Goto, tables, local,
                history
  <2>7. ClosedMatchesState'
    BY <1>7 DEF IInv, ClosedMatchesState, TypeOK, Live, CallInv, Past,
                ReadLinks, Goto, tables, local, history
  <2>8. NumberIsOwn'
    BY <1>7 DEF IInv, NumberIsOwn, TypeOK, NumberInv, Creating, Past, CallInv,
                ReadLinks, Goto, tables, local, history
  <2>9. JournalHonest'
    BY <1>7 DEF IInv, JournalHonest, TypeOK, Live, CallInv, ToldInv, Past,
                ReadLinks, Goto, tables, local, history
  <2>10. NothingForgotten'
    BY <1>7 DEF IInv, NothingForgotten, TypeOK, CallInv, Past, Owed, ReadLinks,
                Goto, tables, local, history
  <2> QED BY <2>1, <2>2, <2>3, <2>4, <2>5, <2>6, <2>7, <2>8, <2>9, <2>10
             DEF IInv
<1>8. ASSUME NEW q \in Requests, Commit(q)
      PROVE  IInv'
  <2> DEFINE n == req[q].number
             d == req[q].payload
  <2>1. n \in Numbers /\ d \in Payloads /\ n \in Live
    BY <1>8 DEF IInv, CallInv, TypeOK, Commit, Call, Past, Live
  <2>2. stored[q] \in Row /\ lists[q] \in Lists /\ told[n] \in Row
    BY <1>8, <2>1 DEF IInv, CallInv, TypeOK, ToldInv, Commit, Past, Live
  <2>3. /\ Added(q, "links") \subseteq Numbers \ {n}
        /\ Removed(q, "links") \subseteq Numbers
    BY <1>8, <2>1, <2>2 DEF Commit, Insertable, Removed, Live, Lists
  <2>4. /\ Added(q, "types") \subseteq Types
        /\ Added(q, "attached") \subseteq Reports
        /\ Removed(q, "attached") \subseteq Reports
    BY <2>1, <2>2 DEF Added, Removed, Lists
  <2>5. UpdatedRow(q) \in Row
    BY <1>8, <2>1, <2>2 DEF Commit, Known, UpdatedRow, Given, Row
  <2>6. Told(q) \in Row
    BY <1>8, <2>1, <2>2 DEF Commit, Known, Told, Logged, Row
  <2>7. /\ row' = [row EXCEPT ![n] = UpdatedRow(q)]
        /\ told' = [told EXCEPT ![n] = Told(q)]
        /\ linked' = Relinked(q)
        /\ typed' = Retyped(q)
        /\ holder' = Reheld(q)
        /\ pokes' = [pokes EXCEPT ![q] = Touched(q)]
        /\ pc[q] = "commit"
        /\ pc' = [pc EXCEPT ![q] = "announce"]
        /\ UNCHANGED <<calls, req, stored, lists, answers, failed>>
    BY <1>8 DEF Commit, Goto
  <2>8. TypeOK'
    <3>1. row' \in [Numbers -> Row \cup {Absent}]
      BY <2>1, <2>5, <2>7 DEF IInv, TypeOK
    <3>2. told' \in [Numbers -> Row \cup {Absent}]
      BY <2>1, <2>6, <2>7 DEF IInv, TypeOK
    <3>3. linked' \in SUBSET (Numbers \X Numbers)
      BY <2>1, <2>3, <2>7 DEF IInv, TypeOK, Relinked
    <3>4. typed' \in SUBSET (Numbers \X Types)
      BY <2>1, <2>4, <2>7 DEF IInv, TypeOK, Retyped
    <3>5. holder' \in [Reports -> Numbers \cup {0}]
      BY <2>1, <2>7 DEF IInv, TypeOK, Reheld
    <3>6. Touched(q) \in SUBSET Subjects
      BY <2>3, <2>4 DEF Touched, Subjects
    <3>7. pokes' \in [Requests -> SUBSET Subjects]
      BY <2>7, <3>6 DEF IInv, TypeOK
    <3>8. unseen' \in SUBSET Subjects
      <4>1. <<"incident", n>> \in Subjects /\ Dashboard \in Subjects
        BY <2>1 DEF Subjects, Dashboard
      <4>2. Changed(q) \subseteq Subjects
        <5> SUFFICES ASSUME NEW y \in Changed(q) PROVE y \in Subjects
          OBVIOUS
        <5>1. \/ y \in {<<"incident", n>>, Dashboard}
              \/ \E m \in Numbers : y = <<"incident", m>> \/ y = <<"left", m>>
              \/ \E r \in Reports : y = <<"report", r>>
          BY DEF Changed
        <5> QED BY <4>1, <5>1 DEF Subjects
      <4> QED BY <1>8, <4>2 DEF IInv, TypeOK, Commit
    <3>9. raced' \in SUBSET Numbers
      BY <1>8, <2>1 DEF IInv, TypeOK, Commit
    <3>10. pc' \in [Requests -> Locations]
      BY <2>7 DEF IInv, TypeOK
    <3> QED BY <2>7, <3>1, <3>2, <3>3, <3>4, <3>5, <3>7, <3>8, <3>9, <3>10
            DEF IInv, TypeOK
  <2>9. \A m \in Numbers : (row'[m] = Absent) <=> (row[m] = Absent)
    BY <2>1, <2>5, <2>7 DEF IInv, TypeOK, Live
  <2>10. CallInv'
    <3>1. ASSUME NEW r \in Requests
          PROVE  /\ pc'[r] # "idle" => pc[r] # "idle"
                 /\ pc'[r] \in {"insert", "gate"} => pc'[r] = pc[r]
                 /\ pc'[r] \in Past => pc[r] \in Past
                 /\ pc'[r] \in {"links", "commit"} => pc[r] \in {"links", "commit"}
      BY <2>7 DEF IInv, TypeOK, Past
    <3>2. ASSUME NEW r \in Requests, pc'[r] \in Past
          PROVE  row'[req'[r].number] # Absent
      <4>1. pc[r] \in Past /\ pc[r] # "idle"
        BY <3>1, <3>2 DEF Past
      <4>2. req[r].number \in Numbers /\ row[req[r].number] # Absent
        BY <4>1 DEF IInv, CallInv, Call
      <4> QED BY <2>7, <2>9, <4>2
    <3> QED BY <2>7, <3>1, <3>2 DEF IInv, CallInv
  <2>11. StoredInv'
    BY <2>7 DEF IInv, TypeOK, StoredInv
  <2>12. NumberInv'
    <3>1. \A r \in Requests : Creating(r)' <=> Creating(r)
      BY <2>7 DEF IInv, TypeOK, Creating, Past
    <3>2. \A m \in Numbers : row'[m] = Absent => answers'[m] = 0
      BY <2>7, <2>9 DEF IInv, NumberInv
    <3> QED BY <2>7, <3>1, <3>2 DEF IInv, NumberInv
  <2>13. ToldInv'
    BY <2>1, <2>6, <2>7, <2>9 DEF IInv, ToldInv, TypeOK
  <2>14. LinksSymmetric'
    <3> SUFFICES ASSUME NEW a \in Numbers, NEW b \in Numbers, <<a, b>> \in linked'
                 PROVE  a # b /\ <<b, a>> \in linked'
      BY DEF LinksSymmetric
    <3>1. <<a, b>> \in linked
             => a # b /\ <<b, a>> \in linked
      BY DEF IInv, LinksSymmetric
    <3> QED BY <2>1, <2>3, <2>7, <3>1 DEF Relinked
  <2>15. ClosedMatchesState'
    <3>1. UpdatedRow(q).state = "closed" <=> UpdatedRow(q).closed = "stamped"
      <4>1. stored[q].state = "closed" <=> stored[q].closed = "stamped"
        BY <2>7 DEF IInv, StoredInv
      <4> QED BY <2>1, <2>2, <4>1 DEF UpdatedRow, Given, Row
    <3> QED BY <2>1, <2>7, <2>9, <3>1
            DEF IInv, TypeOK, ClosedMatchesState, Live
  <2>16. NumberIsOwn'
    BY <2>7 DEF IInv, NumberIsOwn
  <2>17. JournalHonest'
    <3> SUFFICES ASSUME NEW m \in Live' \ raced',
                        NEW f \in {"state", "summary", "outcome", "private"}
                 PROVE  row'[m][f] = told'[m][f]
      BY DEF JournalHonest
    <3>1. m \in Live \ raced
      BY <1>8, <2>9 DEF Commit, Live
    <3>2. row[m][f] = told[m][f]
      BY <3>1 DEF IInv, JournalHonest
    <3>3. CASE m = n
      <4>1. stored[q] = row[n]
        BY <1>8, <3>3 DEF Commit
      <4>2. \A g \in {"state", "summary", "outcome", "private"} :
              stored[q][g] = told[n][g]
        BY <3>1, <3>3, <4>1 DEF IInv, JournalHonest
      <4>3. UpdatedRow(q)[f] = Told(q)[f]
        BY <4>2 DEF UpdatedRow, Told, Given, Logged
      <4> QED BY <2>1, <2>7, <3>3, <4>3 DEF IInv, TypeOK
    <3>4. CASE m # n
      BY <2>7, <3>2, <3>4 DEF IInv, TypeOK
    <3> QED BY <3>3, <3>4
  <2>18. NothingForgotten'
    <3>1. \A r \in Requests : r # q => Owed(r)' = Owed(r)
      BY <2>7 DEF IInv, TypeOK, Owed
    <3>2. Owed(q)' = Touched(q) \cup {<<"incident", n>>, Dashboard}
      BY <2>7 DEF IInv, TypeOK, Owed
    <3>3. Owed(q) \subseteq {<<"incident", n>>, Dashboard}
      BY <2>7 DEF Owed
    <3>4. ASSUME NEW r \in Reports, holder'[r] # holder[r]
          PROVE  <<"report", r>> \in Touched(q)
      BY <2>7, <3>4 DEF Reheld, Touched
    <3>5. ASSUME NEW m \in Numbers, (<<n, m>> \in linked) # (<<n, m>> \in linked')
          PROVE  <<"incident", m>> \in Touched(q)
      BY <2>1, <2>3, <2>7, <3>5 DEF Relinked, Touched
    <3>6. ASSUME NEW x \in unseen', x \notin unseen
          PROVE  x \in Owed(q)' \/ x \in {"left"} \X Numbers
      <4>1. x \in Changed(q)
        BY <1>8, <3>6 DEF Commit
      <4>2. CASE x \in {<<"incident", n>>, Dashboard}
        BY <3>2, <4>2
      <4>3. CASE \E m \in Numbers : /\ x = <<"incident", m>>
                                    /\ (<<n, m>> \in linked) # (<<n, m>> \in linked')
        BY <3>2, <3>5, <4>3
      <4>4. CASE \E r \in Reports : x = <<"report", r>> /\ holder'[r] # holder[r]
        BY <3>2, <3>4, <4>4
      <4>5. CASE \E m \in Numbers : x = <<"left", m>>
        BY <4>5
      <4> QED BY <4>1, <4>2, <4>3, <4>4, <4>5 DEF Changed
    <3>7. ASSUME NEW x \in unseen
          PROVE  \/ \E r \in Requests : x \in Owed(r)'
                 \/ x \in {"incident"} \X failed'
                 \/ x = Dashboard /\ failed' # {}
                 \/ x \in {"left"} \X Numbers
      BY <2>7, <3>1, <3>2, <3>3 DEF IInv, NothingForgotten
    <3> QED BY <3>6, <3>7 DEF NothingForgotten
  <2> QED BY <2>8, <2>10, <2>11, <2>12, <2>13, <2>14, <2>15, <2>16, <2>17, <2>18
          DEF IInv
<1>9. ASSUME NEW q \in Requests, Announce(q)
      PROVE  IInv'
  <2>1. TypeOK'
    BY <1>9 DEF IInv, TypeOK, CallInv, Call, Past, Announce, Goto, tables,
                local, history
  <2>2. CallInv'
    BY <1>9 DEF IInv, CallInv, TypeOK, Past, Call, Live, Announce, Goto,
                tables, local, history
  <2>3. StoredInv'
    BY <1>9 DEF IInv, StoredInv, TypeOK, CallInv, ClosedMatchesState, Live,
                Past, Announce, Goto, tables, local, history
  <2>4. NumberInv'
    BY <1>9 DEF IInv, NumberInv, TypeOK, Creating, Past, CallInv, Call,
                NumberIsOwn, Announce, Goto, tables, local, history
  <2>5. ToldInv'
    BY <1>9 DEF IInv, ToldInv, TypeOK, CallInv, Past, Announce, Goto, tables,
                local, history
  <2>6. LinksSymmetric'
    BY <1>9 DEF IInv, LinksSymmetric, TypeOK, Announce, Goto, tables, local,
                history
  <2>7. ClosedMatchesState'
    BY <1>9 DEF IInv, ClosedMatchesState, TypeOK, Live, CallInv, Past,
                Announce, Goto, tables, local, history
  <2>8. NumberIsOwn'
    BY <1>9 DEF IInv, NumberIsOwn, TypeOK, NumberInv, Creating, Past, CallInv,
                Announce, Goto, tables, local, history
  <2>9. JournalHonest'
    BY <1>9 DEF IInv, JournalHonest, TypeOK, Live, CallInv, ToldInv, Past,
                Announce, Goto, tables, local, history
  <2>10. NothingForgotten'
    <3>1. unseen' \subseteq unseen /\ <<"incident", req[q].number>> \notin unseen'
      BY <1>9 DEF Announce, Shown
    <3> QED BY <1>9, <3>1 DEF IInv, NothingForgotten, TypeOK, CallInv, Past,
                              Owed, Announce, Goto, tables, local, history
  <2> QED BY <2>1, <2>2, <2>3, <2>4, <2>5, <2>6, <2>7, <2>8, <2>9, <2>10
             DEF IInv
<1>10. ASSUME NEW q \in Requests, NEW x \in Subjects, AnnounceNext(q, x)
      PROVE  IInv'
  <2>1. TypeOK'
    BY <1>10 DEF IInv, TypeOK, CallInv, Call, Past, AnnounceNext, Goto, tables,
                 local, history
  <2>2. CallInv'
    BY <1>10 DEF IInv, CallInv, TypeOK, Past, Call, Live, AnnounceNext, Goto,
                 tables, local, history
  <2>3. StoredInv'
    BY <1>10 DEF IInv, StoredInv, TypeOK, CallInv, ClosedMatchesState, Live,
                 Past, AnnounceNext, Goto, tables, local, history
  <2>4. NumberInv'
    BY <1>10 DEF IInv, NumberInv, TypeOK, Creating, Past, CallInv, Call,
                 NumberIsOwn, AnnounceNext, Goto, tables, local, history
  <2>5. ToldInv'
    BY <1>10 DEF IInv, ToldInv, TypeOK, CallInv, Past, AnnounceNext, Goto,
                 tables, local, history
  <2>6. LinksSymmetric'
    BY <1>10 DEF IInv, LinksSymmetric, TypeOK, AnnounceNext, Goto, tables,
                 local, history
  <2>7. ClosedMatchesState'
    BY <1>10 DEF IInv, ClosedMatchesState, TypeOK, Live, CallInv, Past,
                 AnnounceNext, Goto, tables, local, history
  <2>8. NumberIsOwn'
    BY <1>10 DEF IInv, NumberIsOwn, TypeOK, NumberInv, Creating, Past, CallInv,
                 AnnounceNext, Goto, tables, local, history
  <2>9. JournalHonest'
    BY <1>10 DEF IInv, JournalHonest, TypeOK, Live, CallInv, ToldInv, Past,
                 AnnounceNext, Goto, tables, local, history
  <2>10. NothingForgotten'
    <3>1. unseen' \subseteq unseen /\ x \notin unseen'
      BY <1>10 DEF AnnounceNext, Shown
    <3> QED BY <1>10, <3>1 DEF IInv, NothingForgotten, TypeOK, CallInv, Past,
                               Owed, AnnounceNext, Goto, tables, local, history
  <2> QED BY <2>1, <2>2, <2>3, <2>4, <2>5, <2>6, <2>7, <2>8, <2>9, <2>10
             DEF IInv
<1>11. ASSUME NEW q \in Requests, FinishUpdate(q)
      PROVE  IInv'
  <2>1. TypeOK'
    BY <1>11 DEF IInv, TypeOK, CallInv, Call, Past, FinishUpdate, Goto, tables,
                 local, history, Forget
  <2>2. CallInv'
    BY <1>11 DEF IInv, CallInv, TypeOK, Past, Call, Live, FinishUpdate, Goto,
                 tables, local, history, Forget
  <2>3. StoredInv'
    BY <1>11 DEF IInv, StoredInv, TypeOK, CallInv, ClosedMatchesState, Live,
                 Past, FinishUpdate, Goto, tables, local, history, Forget
  <2>4. NumberInv'
    BY <1>11 DEF IInv, NumberInv, TypeOK, Creating, Past, CallInv, Call,
                 NumberIsOwn, FinishUpdate, Goto, tables, local, history,
                 Forget
  <2>5. ToldInv'
    BY <1>11 DEF IInv, ToldInv, TypeOK, CallInv, Past, FinishUpdate, Goto,
                 tables, local, history, Forget
  <2>6. LinksSymmetric'
    BY <1>11 DEF IInv, LinksSymmetric, TypeOK, FinishUpdate, Goto, tables,
                 local, history, Forget
  <2>7. ClosedMatchesState'
    BY <1>11 DEF IInv, ClosedMatchesState, TypeOK, Live, CallInv, Past,
                 FinishUpdate, Goto, tables, local, history, Forget
  <2>8. NumberIsOwn'
    BY <1>11 DEF IInv, NumberIsOwn, TypeOK, NumberInv, Creating, Past, CallInv,
                 FinishUpdate, Goto, tables, local, history, Forget
  <2>9. JournalHonest'
    BY <1>11 DEF IInv, JournalHonest, TypeOK, Live, CallInv, ToldInv, Past,
                 FinishUpdate, Goto, tables, local, history, Forget
  <2>10. NothingForgotten'
    BY <1>11 DEF IInv, NothingForgotten, TypeOK, CallInv, Past, Owed,
                 FinishUpdate, Goto, tables, local, history, Forget
  <2> QED BY <2>1, <2>2, <2>3, <2>4, <2>5, <2>6, <2>7, <2>8, <2>9, <2>10
             DEF IInv
<1>12. ASSUME NEW q \in Requests, FinishCreate(q)
      PROVE  IInv'
  <2>1. TypeOK'
    BY <1>12 DEF IInv, TypeOK, CallInv, Call, Past, FinishCreate, Goto, tables,
                 local, history, Forget
  <2>2. CallInv'
    BY <1>12 DEF IInv, CallInv, TypeOK, Past, Call, Live, FinishCreate, Goto,
                 tables, local, history, Forget
  <2>3. StoredInv'
    BY <1>12 DEF IInv, StoredInv, TypeOK, CallInv, ClosedMatchesState, Live,
                 Past, FinishCreate, Goto, tables, local, history, Forget
  <2>4. NumberInv'
    BY <1>12 DEF IInv, NumberInv, TypeOK, Creating, Past, CallInv, Call,
                 NumberIsOwn, FinishCreate, Goto, tables, local, history,
                 Forget
  <2>5. ToldInv'
    BY <1>12 DEF IInv, ToldInv, TypeOK, CallInv, Past, FinishCreate, Goto,
                 tables, local, history, Forget
  <2>6. LinksSymmetric'
    BY <1>12 DEF IInv, LinksSymmetric, TypeOK, FinishCreate, Goto, tables,
                 local, history, Forget
  <2>7. ClosedMatchesState'
    BY <1>12 DEF IInv, ClosedMatchesState, TypeOK, Live, CallInv, Past,
                 FinishCreate, Goto, tables, local, history, Forget
  <2>8. NumberIsOwn'
    BY <1>12 DEF IInv, NumberIsOwn, TypeOK, NumberInv, Creating, Past, CallInv,
                 FinishCreate, Goto, tables, local, history, Forget
  <2>9. JournalHonest'
    BY <1>12 DEF IInv, JournalHonest, TypeOK, Live, CallInv, ToldInv, Past,
                 FinishCreate, Goto, tables, local, history, Forget
  <2>10. NothingForgotten'
    BY <1>12 DEF IInv, NothingForgotten, TypeOK, CallInv, Past, Owed,
                 FinishCreate, Goto, tables, local, history, Forget
  <2> QED BY <2>1, <2>2, <2>3, <2>4, <2>5, <2>6, <2>7, <2>8, <2>9, <2>10
             DEF IInv
<1>13. CASE UNCHANGED vars
  BY <1>13 DEF vars, tables, local, history, IInv, TypeOK, CallInv, StoredInv,
               NumberInv, ToldInv, LinksSymmetric, ClosedMatchesState,
               NumberIsOwn, JournalHonest, NothingForgotten, Live, Creating,
               Past, Owed
<1> QED
  BY <1>1, <1>2, <1>3, <1>4, <1>5, <1>6, <1>7, <1>8, <1>9, <1>10, <1>11, <1>12,
     <1>13
     DEF Next, Step

(* The inductive invariant holds in every reachable state.                 *)
THEOREM WritesInvariant == Spec => []IInv
BY WritesInitInv, WritesStepInv, PTL DEF Spec

(* Type correctness: in particular no row ever references an unknown outcome.*)
THEOREM WritesTypeCorrect == Spec => []TypeOK
<1>1. IInv => TypeOK
  BY DEF IInv
<1> QED BY WritesInvariant, <1>1, PTL

(* Links show from both ends, however edits of the two ends overlap.       *)
THEOREM WritesLinksSymmetric == Spec => []LinksSymmetric
<1>1. IInv => LinksSymmetric
  BY DEF IInv
<1> QED BY WritesInvariant, <1>1, PTL

(* STATE and the CLOSED timestamp stay together, stale writers included.   *)
THEOREM WritesClosedMatchesState == Spec => []ClosedMatchesState
<1>1. IInv => ClosedMatchesState
  BY DEF IInv
<1> QED BY WritesInvariant, <1>1, PTL

(* No two CreateIncident calls return the same number.                     *)
THEOREM WritesNumberIsOwn == Spec => []NumberIsOwn
<1>1. IInv => NumberIsOwn
  BY DEF IInv
<1> QED BY WritesInvariant, <1>1, PTL

(* The journal explains every row that no stale edit has overwritten.      *)
THEOREM WritesJournalHonest == Spec => []JournalHonest
<1>1. IInv => JournalHonest
  BY DEF IInv
<1> QED BY WritesInvariant, <1>1, PTL

(* What changed is announced or owed by a request in flight, but for the   *)
(* row of a failed creation and an incident whose report an edit took.     *)
THEOREM WritesNothingForgotten == Spec => []NothingForgotten
<1>1. IInv => NothingForgotten
  BY DEF IInv
<1> QED BY WritesInvariant, <1>1, PTL

(* The tables of incidents stay consistent under any overlap of calls.     *)
THEOREM WritesAreSafe == Spec => []IncidentSafe
<1> QED BY WritesLinksSymmetric, WritesClosedMatchesState, WritesNumberIsOwn,
           WritesJournalHonest, WritesNothingForgotten, PTL DEF IncidentSafe
===========================================================================
